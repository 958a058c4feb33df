-------------------------- MODULE CatalogSyncProofs --------------------------
(* Catalog syncs next to checkouts, for every set of calls, requests, products   *)
(* and ERP catalogs.                                                           *)
EXTENDS CatalogSync, CheckoutProofs

USE DEF calls, history, syncVars, allVars

\* The ERP's entries are quantities and switches.
LEMMA ListType ==
    ASSUME SyncTypeOK, NEW c \in Syncs
    PROVE  /\ DOMAIN fetched[c] \subseteq Products
           /\ todo[c] \subseteq DOMAIN fetched[c]
           /\ \A p \in DOMAIN fetched[c] :
                fetched[c][p].qty \in Nat /\ fetched[c][p].active \in BOOLEAN
           /\ current[c] # None => current[c] \in todo[c]
           /\ seen[c] \in Nat
           /\ c \in upserted => current[c] # None
<1>1. fetched[c] \in ErpCatalogs \/ fetched[c] = NoList
  BY DEF SyncTypeOK
<1>2. CASE fetched[c] = NoList
  BY <1>2 DEF SyncTypeOK, NoList
<1>3. CASE fetched[c] \in ErpCatalogs
  BY <1>3, ErpAssumption DEF ErpAssumption, ErpEntries, SyncTypeOK
<1> QED
  BY <1>1, <1>2, <1>3

\* Nothing has been fetched, missed or overlapped when the database is seeded.
LEMMA SyncInitInv == SyncInit => SyncInv
<1> SUFFICES ASSUME SyncInit PROVE SyncInv
  OBVIOUS
<1>1. Init /\ CoreInv
  BY InitCore DEF SyncInit
<1>2. SyncTypeOK
  BY <1>1, StockAssumption DEF SyncInit, SyncTypeOK, CoreInv, StockAssumption
<1>3. StockFormula
  <2> SUFFICES ASSUME NEW p \in Products
               PROVE  inv[p].avail = AtLeastZero(erpQty[p] + missed[p] - inv[p].reserved)
    BY DEF StockFormula
  <2>1. inv[p].avail = InitialQty[p] /\ inv[p].reserved = 0 /\ erpQty[p] = InitialQty[p]
        /\ missed[p] = 0 /\ InitialQty[p] \in Nat
    BY <1>1, StockAssumption DEF Init, SyncInit, StockAssumption
  <2> QED
    BY <2>1 DEF AtLeastZero
<1>4. ReadsArePast /\ RowLocksExclusive /\ LoneSyncsMirror
  BY <1>1 DEF Init, SyncInit, ReadsArePast, RowLocksExclusive, LoneSyncsMirror, Running
<1> QED
  BY <1>1, <1>2, <1>3, <1>4 DEF SyncInv

-----------------------------------------------------------------------------
(* A sync does not disturb the checkouts *)

\* A sync writes no row that an open checkout has reserved, and no key.
LEMMA SyncKeepsCore ==
    ASSUME CoreInv, SyncTypeOK, NEW c \in Syncs,
           WriteInventory(c) \/ DeactivateAbsent(c)
    PROVE  CoreInv'
<1>1. TypeOK /\ active' \subseteq Products /\ priced' \subseteq Products
  BY ListType DEF CoreInv, TypeOK, WriteInventory, DeactivateAbsent
<1>2. UNCHANGED <<idem, orders, outbox, pc, attempt, snap, got, reserved, result>>
  BY DEF WriteInventory, DeactivateAbsent, request
<1>3. /\ inv' \in [Products -> Row]
      /\ \A r \in Requests : \A p \in reserved[r] : inv'[p] = inv[p]
  <2>1. CASE DeactivateAbsent(c)
    BY <1>1, <2>1 DEF DeactivateAbsent, TypeOK
  <2>2. CASE WriteInventory(c)
    <3>1. current[c] \in Products /\ fetched[c][current[c]].qty \in Nat /\ seen[c] \in Nat
      BY <2>2, ListType DEF WriteInventory
    <3>2. inv[current[c]] \in Row
      BY <1>1, <3>1 DEF TypeOK
    <3>3. MirrorRow(c, inv[current[c]]) \in Row
      <4>1. AvailableFor(c, current[c]) \in Int
        BY <3>1 DEF AvailableFor, AtLeastZero
      <4> QED
        BY <3>2, <4>1 DEF MirrorRow, Row
    <3>4. inv' = [inv EXCEPT ![current[c]] = MirrorRow(c, inv[current[c]])]
      BY <2>2 DEF WriteInventory
    <3>5. \A r \in Requests : \A p \in reserved[r] : p # current[c] /\ p \in Products
      BY <1>1, <2>2 DEF WriteInventory, TypeOK
    <3> QED
      BY <1>1, <3>3, <3>4, <3>5 DEF TypeOK
  <2> QED
    BY <2>1, <2>2
<1>4. TypeOK'
  BY <1>1, <1>2, <1>3 DEF TypeOK, InTransaction
<1>5. ReservedIsCurrent'
  BY <1>2, <1>3 DEF CoreInv, ReservedIsCurrent
<1> QED
  BY <1>2, <1>4, <1>5 DEF CoreInv, LocksExclusive, LockedBeforeUse, SnapshotsArePast,
     RowsAreOrders, UnansweredBeforeCommit, OneOrderPerKey, TruthfulAnswers, InTransaction

-----------------------------------------------------------------------------
(* Checkouts do not disturb a sync *)

\* What a commit takes from the shelf it adds to the reserved units.
LEMMA CheckoutStepSync ==
    ASSUME SyncInv, [Next]_vars, UNCHANGED syncVars
    PROVE  SyncInv'
<1>1. CoreInv /\ CoreInv' /\ TypeOK'
  BY CoreStep DEF SyncInv, CoreInv
<1>2. SyncTypeOK'
  BY <1>1 DEF SyncInv, SyncTypeOK
<1>3. active' = active /\ RowLocksExclusive'
  BY OnlyCommitWrites DEF store, Commit, SyncInv, RowLocksExclusive
<1>4. LoneSyncsMirror'
  BY <1>3 DEF SyncInv, LoneSyncsMirror, Running, Mirrored
<1>5. \A p \in Products :
        /\ inv'[p].reserved \in Int /\ inv[p].reserved \in Int
        /\ inv'[p].reserved >= inv[p].reserved
        /\ inv[p].avail = AtLeastZero(erpQty[p] + missed[p] - inv[p].reserved) =>
             inv'[p].avail = AtLeastZero(erpQty[p] + missed[p] - inv'[p].reserved)
  <2> SUFFICES ASSUME NEW p \in Products
               PROVE  /\ inv'[p].reserved \in Int /\ inv[p].reserved \in Int
                      /\ inv'[p].reserved >= inv[p].reserved
                      /\ inv[p].avail = AtLeastZero(erpQty[p] + missed[p] - inv[p].reserved) =>
                           inv'[p].avail =
                             AtLeastZero(erpQty[p] + missed[p] - inv'[p].reserved)
    OBVIOUS
  <2>1. inv[p] \in Row
    BY <1>1 DEF CoreInv, TypeOK
  <2>2. CASE inv'[p] = inv[p]
    BY <2>1, <2>2 DEF Row
  <2>3. ASSUME NEW r \in Requests, Commit(r), p \in ProductsOf(r)
        PROVE  /\ inv'[p].reserved \in Int /\ inv[p].reserved \in Int
               /\ inv'[p].reserved >= inv[p].reserved
               /\ inv[p].avail = AtLeastZero(erpQty[p] + missed[p] - inv[p].reserved) =>
                    inv'[p].avail = AtLeastZero(erpQty[p] + missed[p] - inv'[p].reserved)
    <3>1. Quantity(r, p) \in Nat /\ inv[p].avail >= Quantity(r, p)
          /\ inv'[p] = Take(inv[p], Quantity(r, p))
      BY <1>1, <2>3, CommitTakes
    <3>2. erpQty[p] \in Nat /\ missed[p] \in Nat
      BY DEF SyncInv, SyncTypeOK
    <3>3. /\ inv'[p].avail = inv[p].avail - Quantity(r, p)
          /\ inv'[p].reserved = inv[p].reserved + Quantity(r, p)
          /\ inv[p].avail \in Int /\ inv[p].reserved \in Int
      BY <2>1, <3>1 DEF Take, Row
    <3>4. ASSUME inv[p].avail = AtLeastZero(erpQty[p] + missed[p] - inv[p].reserved)
          PROVE  inv'[p].avail = AtLeastZero(erpQty[p] + missed[p] - inv'[p].reserved)
      <4> DEFINE e == erpQty[p]
                 d == missed[p]
                 q == Quantity(r, p)
                 a == inv[p].avail
                 b == inv[p].reserved
                 bb == inv'[p].reserved
                 aa == inv'[p].avail
      <4>1. e \in Nat /\ d \in Nat /\ q \in Nat /\ a \in Int /\ b \in Int /\ a >= q
            /\ aa = a - q /\ bb = b + q /\ a = AtLeastZero(e + d - b)
        BY <3>1, <3>2, <3>3, <3>4
      <4> HIDE DEF e, d, q, a, b, aa, bb
      <4>2. aa = AtLeastZero(e + d - bb)
        <5>1. CASE e + d - b < 0
          BY <4>1, <5>1 DEF AtLeastZero
        <5>2. CASE e + d - b >= 0
          BY <4>1, <5>2 DEF AtLeastZero
        <5> QED
          BY <4>1, <5>1, <5>2
      <4> QED
        BY <4>2 DEF e, d, aa, bb
    <3> QED
      BY <3>1, <3>3, <3>4
  <2>4. UNCHANGED store => inv'[p] = inv[p]
    BY DEF store
  <2> QED
    BY <1>1, <2>2, <2>3, <2>4, OnlyCommitWrites, CommitTakes
<1>6. StockFormula'
  BY <1>5 DEF SyncInv, StockFormula
<1>7. ReadsArePast'
  <2>1. \A p \in Products : inv'[p].reserved >= 0
    BY <1>5 DEF SyncInv, ReadsArePast
  <2>2. \A c \in Syncs : current[c] # None =>
          current[c] \in Products /\ seen[c] \in Nat /\ seen[c] <= inv[current[c]].reserved
    BY ListType DEF SyncInv, ReadsArePast
  <2>3. \A c \in Syncs : current[c] # None => seen[c] <= inv'[current[c]].reserved
    BY <1>5, <2>2
  <2> QED
    BY <2>1, <2>3 DEF SyncInv, ReadsArePast
<1> QED
  BY <1>1, <1>2, <1>3, <1>4, <1>6, <1>7 DEF SyncInv

-----------------------------------------------------------------------------
(* The steps of a sync *)

\* A sync that starts next to another one marks both.
LEMMA FetchSync == ASSUME SyncInv, NEW c \in Syncs, FetchCatalog(c) PROVE SyncInv'
<1> USE DEF FetchCatalog, SyncInv, vars
<1>1. CoreInv' /\ TypeOK'
  BY CoreStep DEF CoreInv
<1>2. SyncTypeOK'
  <2>1. PICK list \in ErpCatalogs : /\ fetched' = [fetched EXCEPT ![c] = list]
                                    /\ todo' = [todo EXCEPT ![c] = DOMAIN list]
    OBVIOUS
  <2>2. DOMAIN list \subseteq Products
    BY ErpAssumption DEF ErpAssumption
  <2>3. current[c] = None
    BY DEF SyncTypeOK, ReadsArePast
  <2>4. overlapped' \subseteq Syncs
    BY DEF SyncTypeOK, Running
  <2> QED
    BY <1>1, <2>1, <2>2, <2>3, <2>4 DEF SyncTypeOK
<1>3. StockFormula'
  BY DEF StockFormula, store
<1>4. ReadsArePast'
  BY DEF ReadsArePast, store, SyncTypeOK
<1>5. LoneSyncsMirror'
  BY DEF LoneSyncsMirror, Running, Mirrored, store, SyncTypeOK
<1>6. RowLocksExclusive'
  BY DEF RowLocksExclusive
<1> QED
  BY <1>1, <1>2, <1>3, <1>4, <1>5, <1>6

\* A pass that reads the inventory keeps the joint invariant: the checkout's part is
\* untouched, and what it read is the committed quantity of that moment.
LEMMA ReadSync == ASSUME SyncInv, NEW c \in Syncs, ReadInventory(c) PROVE SyncInv'
<1> USE DEF ReadInventory, SyncInv, vars
<1>1. CoreInv' /\ TypeOK'
  BY CoreStep DEF CoreInv
<1>2. PICK p \in todo[c] : /\ current' = [current EXCEPT ![c] = p]
                           /\ seen' = [seen EXCEPT ![c] = inv[p].reserved]
  BY DEF IsNext
<1>3. p \in Products /\ inv[p].reserved \in Nat
  BY ListType DEF CoreInv, TypeOK, Row, ReadsArePast
<1>4. SyncTypeOK'
  BY <1>1, <1>2, <1>3 DEF SyncTypeOK
<1>5. StockFormula'
  BY DEF StockFormula, store
<1>6. ReadsArePast'
  BY <1>2, <1>3 DEF ReadsArePast, store, SyncTypeOK
<1>7. LoneSyncsMirror'
  BY DEF LoneSyncsMirror, Running, Mirrored, store
<1>8. RowLocksExclusive'
  BY <1>2, ListType DEF RowLocksExclusive, SyncTypeOK
<1> QED
  BY <1>1, <1>4, <1>5, <1>6, <1>7, <1>8

\* The row of a product is locked by one transaction at a time.
LEMMA UpsertSync == ASSUME SyncInv, NEW c \in Syncs, UpsertProduct(c) PROVE SyncInv'
<1> USE DEF UpsertProduct, SyncInv, vars
<1>1. CoreInv' /\ TypeOK'
  BY CoreStep DEF CoreInv
<1>2. SyncTypeOK'
  BY <1>1 DEF SyncTypeOK
<1>3. StockFormula' /\ ReadsArePast'
  BY DEF StockFormula, ReadsArePast, store
<1>4. RowLocksExclusive'
  BY DEF RowLocksExclusive, RowLocked
<1>5. LoneSyncsMirror'
  BY DEF LoneSyncsMirror, Running, Mirrored, store
<1> QED
  BY <1>1, <1>2, <1>3, <1>4, <1>5

\* The write leaves the formula true of the row, but for the units sold since the read.
LEMMA WriteSync == ASSUME SyncInv, NEW c \in Syncs, WriteInventory(c) PROVE SyncInv'
<1>0. PICK p \in Products : p = current[c]
  BY ListType DEF SyncInv, WriteInventory
<1>1. CoreInv /\ CoreInv' /\ TypeOK /\ TypeOK' /\ SyncTypeOK
  BY SyncKeepsCore DEF SyncInv, CoreInv
<1>2. /\ c \in upserted /\ p \in todo[c] /\ p \in DOMAIN fetched[c] /\ p \in Products
      /\ fetched[c][p].qty \in Nat /\ fetched[c][p].active \in BOOLEAN /\ seen[c] \in Nat
  BY <1>0, <1>1, ListType DEF WriteInventory
<1>3. /\ inv' = [inv EXCEPT ![p] = MirrorRow(c, inv[p])]
      /\ active' = IF fetched[c][p].active THEN active \union {p} ELSE active \ {p}
      /\ erpQty' = [erpQty EXCEPT ![p] = fetched[c][p].qty]
      /\ missed' = [missed EXCEPT ![p] = inv[p].reserved - seen[c]]
      /\ todo' = [todo EXCEPT ![c] = @ \ {p}]
      /\ current' = [current EXCEPT ![c] = None]
      /\ seen' = [seen EXCEPT ![c] = 0]
      /\ upserted' = upserted \ {c}
      /\ UNCHANGED <<catalogVersion, phase, fetched, overlapped>>
  BY <1>0 DEF WriteInventory
<1>4. /\ inv[p].reserved \in Int /\ seen[c] <= inv[p].reserved
      /\ inv'[p].reserved = inv[p].reserved
      /\ inv'[p].avail = AtLeastZero(fetched[c][p].qty - seen[c])
  <2>1. inv[p].reserved \in Int /\ DOMAIN inv = Products
    BY <1>1, <1>2 DEF TypeOK, Row
  <2>2. seen[c] <= inv[p].reserved
    BY <1>0, <1>1, ListType DEF SyncInv, ReadsArePast, WriteInventory
  <2>3. inv'[p] = MirrorRow(c, inv[p])
    BY <1>2, <1>3, <2>1
  <2>4. /\ inv'[p].reserved = inv[p].reserved
        /\ inv'[p].avail = AtLeastZero(fetched[c][p].qty - seen[c])
    BY <1>0, <2>3 DEF MirrorRow, AvailableFor
  <2> QED
    BY <2>1, <2>2, <2>4
<1>5. \A q \in Products \ {p} : inv'[q] = inv[q] /\ erpQty'[q] = erpQty[q]
                                /\ missed'[q] = missed[q]
  BY <1>1, <1>2, <1>3 DEF TypeOK, SyncTypeOK
<1>6. SyncTypeOK'
  <2>1. missed' \in [Products -> Nat]
    BY <1>1, <1>2, <1>3, <1>4 DEF SyncTypeOK
  <2> QED
    BY <1>1, <1>2, <1>3, <2>1 DEF SyncTypeOK
<1>7. StockFormula'
  <2> SUFFICES ASSUME NEW q \in Products
               PROVE  inv'[q].avail = AtLeastZero(erpQty'[q] + missed'[q] - inv'[q].reserved)
    BY DEF StockFormula
  <2>1. CASE q = p
    <3>1. erpQty'[p] = fetched[c][p].qty /\ missed'[p] = inv[p].reserved - seen[c]
      BY <1>1, <1>2, <1>3 DEF SyncTypeOK
    <3>2. erpQty'[p] + missed'[p] - inv'[p].reserved = fetched[c][p].qty - seen[c]
      BY <1>2, <1>4, <3>1
    <3> QED
      BY <1>4, <2>1, <3>2
  <2>2. CASE q # p
    BY <1>5, <2>2 DEF SyncInv, StockFormula
  <2> QED
    BY <2>1, <2>2
<1>8. ReadsArePast'
  <2>1. \A q \in Products : inv'[q].reserved = inv[q].reserved
    BY <1>4, <1>5
  <2>2. \A d \in Syncs : current'[d] # None =>
          d # c /\ current'[d] = current[d] /\ seen'[d] = seen[d] /\ current[d] \in Products
    BY <1>1, <1>3, ListType DEF SyncTypeOK
  <2>3. \A d \in Syncs : phase[d] # "products" => todo'[d] = {}
    BY <1>1, <1>3 DEF SyncInv, ReadsArePast, SyncTypeOK
  <2> QED
    BY <1>3, <2>1, <2>2, <2>3 DEF SyncInv, ReadsArePast
<1>9. LoneSyncsMirror'
  <2> SUFFICES ASSUME NEW d \in Running \ overlapped
               PROVE  LoneSyncsMirror!(d)'
    BY <1>3 DEF LoneSyncsMirror, Running
  <2>1. phase[c] = "products"
    BY <1>2 DEF SyncInv, ReadsArePast
  <2>2. Running = {d} /\ d = c
    BY <2>1 DEF SyncInv, LoneSyncsMirror, Running
  <2>3. Mirrored(c, p)'
    BY <1>1, <1>2, <1>3 DEF Mirrored, SyncTypeOK
  <2>4. ASSUME NEW q \in DOMAIN fetched[c] \ todo[c] PROVE Mirrored(c, q)'
    <3>1. q # p /\ q \in Products
      BY <1>1, <1>2, ListType
    <3>2. Mirrored(c, q)
      BY <2>2 DEF SyncInv, LoneSyncsMirror
    <3> QED
      BY <1>3, <1>5, <3>1, <3>2 DEF Mirrored
  <2>5. \A q \in DOMAIN fetched[c] \ todo'[c] : Mirrored(c, q)'
    BY <1>1, <1>3, <2>3, <2>4 DEF SyncTypeOK
  <2> QED
    BY <1>3, <2>1, <2>2, <2>5 DEF Running
<1>10. RowLocksExclusive'
  BY <1>1, <1>3 DEF SyncInv, RowLocksExclusive, SyncTypeOK
<1> QED
  BY <1>1, <1>6, <1>7, <1>8, <1>9, <1>10 DEF SyncInv

\* After the last product, only listed products are left on sale.
LEMMA DeactivateSync == ASSUME SyncInv, NEW c \in Syncs, DeactivateAbsent(c) PROVE SyncInv'
<1>1. CoreInv' /\ TypeOK' /\ SyncTypeOK
  BY SyncKeepsCore DEF SyncInv, CoreInv
<1>2. /\ phase[c] = "products" /\ todo[c] = {}
      /\ active' = active \ (Products \ DOMAIN fetched[c])
      /\ phase' = [phase EXCEPT ![c] = "bump"]
      /\ UNCHANGED <<inv, erpQty, catalogVersion, fetched, todo, current, seen, upserted,
                     missed, overlapped>>
  BY DEF DeactivateAbsent, Absent
<1>3. SyncTypeOK'
  BY <1>1, <1>2 DEF SyncTypeOK
<1>4. StockFormula' /\ ReadsArePast'
  BY <1>1, <1>2 DEF SyncInv, StockFormula, ReadsArePast, SyncTypeOK
<1>5. LoneSyncsMirror'
  <2>1. Running' = Running /\ c \in Running
    BY <1>1, <1>2 DEF Running, SyncTypeOK
  <2> SUFFICES ASSUME NEW d \in Running \ overlapped
               PROVE  LoneSyncsMirror!(d)'
    BY <1>2, <2>1 DEF LoneSyncsMirror
  <2>2. Running = {c} /\ d = c
    BY <2>1 DEF SyncInv, LoneSyncsMirror
  <2>3. \A q \in DOMAIN fetched[c] \ todo[c] : Mirrored(c, q)'
    BY <1>2, <2>2 DEF SyncInv, LoneSyncsMirror, Mirrored
  <2>4. active' \subseteq DOMAIN fetched[c]
    BY <1>1, <1>2 DEF SyncInv, CoreInv, TypeOK
  <2> QED
    BY <1>2, <2>1, <2>2, <2>3, <2>4
<1>6. RowLocksExclusive'
  BY <1>2 DEF SyncInv, RowLocksExclusive
<1> QED
  BY <1>1, <1>3, <1>4, <1>5, <1>6 DEF SyncInv

\* A call that ends, one way or the other, leaves nothing open.
LEMMA EndSyncSync ==
    ASSUME SyncInv, NEW c \in Syncs, EndSync(c),
           catalogVersion' \in {catalogVersion, catalogVersion + 1}
    PROVE  SyncInv'
<1> USE DEF EndSync, SyncInv, vars
<1>1. CoreInv' /\ TypeOK'
  BY CoreStep DEF CoreInv
<1>2. SyncTypeOK'
  BY <1>1 DEF SyncTypeOK, NoList
<1>3. StockFormula'
  BY DEF StockFormula, store
<1>4. ReadsArePast'
  BY DEF ReadsArePast, store, SyncTypeOK
<1>5. LoneSyncsMirror'
  BY DEF LoneSyncsMirror, Running, Mirrored, store, SyncTypeOK
<1>6. RowLocksExclusive'
  BY DEF RowLocksExclusive, SyncTypeOK
<1> QED
  BY <1>1, <1>2, <1>3, <1>4, <1>5, <1>6

\* A checkout chosen to end a deadlock has written nothing.
LEMMA VictimWrites ==
    ASSUME NEW r \in Requests, RetryOrGiveUp(r, "deadlock") PROVE UNCHANGED store
BY DEF RetryOrGiveUp, Abort

\* When PostgreSQL breaks a deadlock, the sync ends or the checkout begins anew.
LEMMA BreakSync ==
    ASSUME SyncInv, NEW c \in Syncs, NEW r \in Requests, BreakDeadlock(c, r)
    PROVE  SyncInv'
<1>1. CASE AfterDeadlock(c) /\ UNCHANGED catalogVersion
  BY <1>1, EndSyncSync DEF AfterDeadlock
<1>2. CASE RetryOrGiveUp(r, "deadlock") /\ UNCHANGED syncVars
  <2>1. InTransaction(r)
    BY DEF BreakDeadlock, WaitForEachOther, ReadyToInsert, InTransaction
  <2>2. CoreInv' /\ TypeOK'
    BY <1>2, <2>1, RetryCore DEF SyncInv, CoreInv
  <2>3. UNCHANGED store
    BY <1>2, VictimWrites
  <2>4. SyncTypeOK' /\ StockFormula' /\ ReadsArePast'
    BY <1>2, <2>2, <2>3 DEF SyncInv, SyncTypeOK, StockFormula, ReadsArePast, store
  <2>5. RowLocksExclusive' /\ LoneSyncsMirror'
    BY <1>2, <2>3 DEF SyncInv, RowLocksExclusive, LoneSyncsMirror, Running, Mirrored, store
  <2> QED
    BY <2>2, <2>4, <2>5 DEF SyncInv
<1> QED
  BY <1>1, <1>2 DEF BreakDeadlock

\* So every step of the two together preserves the invariant.
LEMMA SyncStep == SyncInv /\ [SyncNext]_allVars => SyncInv'
<1> SUFFICES ASSUME SyncInv, [SyncNext]_allVars PROVE SyncInv'
  OBVIOUS
<1>1. CASE Next /\ UNCHANGED syncVars
  BY <1>1, CheckoutStepSync
<1>2. CASE UNCHANGED allVars
  BY <1>2, CheckoutStepSync
<1>3. ASSUME NEW c \in Syncs, SyncFails(c) \/ BumpVersion(c) PROVE SyncInv'
  BY <1>3, EndSyncSync DEF SyncFails, BumpVersion
<1> QED
  BY <1>1, <1>2, <1>3, FetchSync, ReadSync, UpsertSync, WriteSync, DeactivateSync, BreakSync
     DEF SyncNext, SyncProceed

\* Every reachable state of checkouts and syncs satisfies the invariant.
THEOREM SyncInvariance == SyncSpec => []SyncInv
BY SyncInitInv, SyncStep, PTL DEF SyncSpec

\* What is on sale is the ERP's stock less what is committed, but for the units sold
\* while the last sync of the product was between its read and its write.
THEOREM FormulaHolds == SyncSpec => []StockFormula
<1>1. SyncInv => StockFormula
  BY DEF SyncInv
<1> QED
  BY <1>1, SyncInvariance, PTL

\* Next to syncs, too, a key buys once and no answer is a lie.
THEOREM CheckoutSafeWithSync == SyncSpec => [](OneOrderPerKey /\ TruthfulAnswers)
<1>1. SyncInv => OneOrderPerKey /\ TruthfulAnswers
  BY DEF SyncInv, CoreInv
<1> QED
  BY <1>1, SyncInvariance, PTL

\* A sync that ran alone publishes a version only of a complete mirror.
THEOREM MirrorPublished == SyncSpec => BumpPublishesMirror
<1> DEFINE Publishes(c) ==
      phase[c] = "bump" /\ catalogVersion' # catalogVersion =>
        \A p \in Products :
            /\ p \in active <=> p \in DOMAIN fetched[c] /\ fetched[c][p].active
            /\ p \in DOMAIN fetched[c] => erpQty[p] = fetched[c][p].qty
<1>1. ASSUME SyncInv, NEW c \in Syncs \ overlapped PROVE Publishes(c)
  <2> SUFFICES ASSUME phase[c] = "bump", NEW p \in Products
               PROVE  /\ p \in active <=> p \in DOMAIN fetched[c] /\ fetched[c][p].active
                      /\ p \in DOMAIN fetched[c] => erpQty[p] = fetched[c][p].qty
    OBVIOUS
  <2>1. c \in Running \ overlapped /\ todo[c] = {}
    BY <1>1 DEF Running, SyncInv, ReadsArePast
  <2> QED
    BY <1>1, <2>1 DEF SyncInv, LoneSyncsMirror, Mirrored
<1>2. SyncInv => [\A c \in Syncs \ overlapped : Publishes(c)]_allVars
  BY <1>1
<1> QED
  BY <1>2, SyncInvariance, PTL DEF BumpPublishesMirror

\* A sync changes what is available, never what is reserved or who has bought.
LEMMA SyncKeepsBooked == SyncInv /\ Booked /\ [SyncNext]_allVars => Booked'
<1> SUFFICES ASSUME SyncInv, Booked, [SyncNext]_allVars PROVE Booked'
  OBVIOUS
<1>1. CASE [Next]_vars
  BY <1>1, BookedStep DEF SyncInv
<1>2. ASSUME NEW c \in Syncs, WriteInventory(c) PROVE Booked'
  <2>1. UNCHANGED orders /\ inv \in [Products -> Row]
        /\ inv' = [inv EXCEPT ![current[c]] = MirrorRow(c, inv[current[c]])]
    BY <1>2, Zenon DEF WriteInventory, SyncInv, CoreInv, TypeOK
  <2>2. MirrorRow(c, inv[current[c]]).reserved = inv[current[c]].reserved
    BY DEF MirrorRow
  <2>3. \A p \in Products : inv'[p].reserved = inv[p].reserved
    BY <2>1, <2>2
  <2> QED
    BY <2>1, <2>3 DEF Booked, ReservedMatchesOrders
<1>3. CASE UNCHANGED <<orders, inv>>
  BY <1>3 DEF Booked, ReservedMatchesOrders
<1>4. ASSUME NEW c \in Syncs, FetchCatalog(c) \/ ReadInventory(c) \/ UpsertProduct(c)
                              \/ DeactivateAbsent(c) \/ BumpVersion(c) \/ SyncFails(c)
      PROVE  Booked'
  BY <1>3, <1>4 DEF FetchCatalog, ReadInventory, UpsertProduct, DeactivateAbsent, BumpVersion,
     SyncFails, EndSync, vars, store
<1>5. ASSUME NEW c \in Syncs, NEW r \in Requests, BreakDeadlock(c, r) PROVE Booked'
  BY <1>3, <1>5, VictimWrites DEF BreakDeadlock, AfterDeadlock, EndSync, vars, store
<1> QED
  BY <1>1, <1>2, <1>4, <1>5 DEF SyncNext, SyncProceed, vars

\* Next to syncs, too, what is reserved is the sum of what the orders ask for.
THEOREM ReservationsSurviveSync == SyncSpec => []ReservedMatchesOrders
<1>1. SyncInit => Booked
  BY BookedInit DEF SyncInit
<1>2. Booked => ReservedMatchesOrders
  BY DEF Booked
<1> QED
  BY <1>1, <1>2, SyncInitInv, SyncStep, SyncKeepsBooked, PTL DEF SyncSpec
=============================================================================
