---------------------------- MODULE CatalogSync -----------------------------
(***************************************************************************)
(* ReconciliationRunner.syncCatalog (apps/reconciliation-worker/src/       *)
(* reconciliation.runner.ts:22-171), called by POST /admin/sync/erp, next  *)
(* to the checkouts of module Checkout.  Calls may overlap.                *)
(*                                                                         *)
(* Each product is mirrored in a Read Committed transaction of its own     *)
(* that first READS the inventory row and later overwrites availableQty    *)
(* with a value computed from what it read.  It takes no advisory lock, so *)
(* a checkout or another sync may commit in between.                       *)
(*                                                                         *)
(* The upsert of the product row comes before that of the inventory row,   *)
(* and keeps the row locked while the latter waits for the checkout that   *)
(* has reserved units.  A checkout takes the locks the other way round:    *)
(* the items of its order refer to the products, and their foreign key     *)
(* waits for the lock of the product row.  PostgreSQL breaks the cycle.    *)
(***************************************************************************)
EXTENDS Checkout

CONSTANTS
    Syncs,        \* the calls of syncCatalog
    ErpCatalogs   \* the catalogs the ERP may hold: product -> quantity, active

ErpEntries == [qty : Nat, active : BOOLEAN]

ASSUME ErpAssumption ==
    \A list \in ErpCatalogs : /\ DOMAIN list \subseteq Products
                              /\ \A p \in DOMAIN list : list[p] \in ErpEntries

VARIABLES
    erpQty,         \* Inventory.erpQty
    catalogVersion, \* CatalogVersion.version
    \* the calls
    phase,          \* where each call is
    fetched,        \* erpProducts, as fetched
    todo,           \* the products whose transaction has not committed
    current,        \* the product of the open transaction, or None
    seen,           \* currentInventory.reservedQty of the open transaction
    upserted,       \* the calls whose open transaction has written its product row
    \* history
    missed,         \* units sold between the last read of a product and its write
    overlapped      \* the calls that have run next to another one

calls    == <<phase, fetched, todo, current, seen, upserted>>
history  == <<missed, overlapped>>
syncVars == <<erpQty, catalogVersion, calls, history>>
allVars  == <<vars, syncVars>>

NoList == [p \in {} |-> 0]

SyncInit ==
    /\ Init
    /\ erpQty = InitialQty
    /\ catalogVersion = 1
    /\ phase = [c \in Syncs |-> "idle"]
    /\ fetched = [c \in Syncs |-> NoList]
    /\ todo = [c \in Syncs |-> {}]
    /\ current = [c \in Syncs |-> None]
    /\ seen = [c \in Syncs |-> 0]
    /\ upserted = {}
    /\ missed = [p \in Products |-> 0]
    /\ overlapped = {}

-----------------------------------------------------------------------------

Running == {c \in Syncs : phase[c] \in {"products", "bump"}}

\* GET /erp/products: whatever catalog the ERP holds by now.
FetchCatalog(c) ==
    /\ phase[c] = "idle"
    /\ phase' = [phase EXCEPT ![c] = "products"]
    /\ \E list \in ErpCatalogs : /\ fetched' = [fetched EXCEPT ![c] = list]
                                 /\ todo' = [todo EXCEPT ![c] = DOMAIN list]
    /\ overlapped' = IF Running = {} THEN overlapped ELSE overlapped \union Running \union {c}
    /\ UNCHANGED <<vars, erpQty, catalogVersion, current, seen, upserted, missed>>

\* The products are mirrored in the order in which the ERP lists them.
IsNext(c, p) == p \in todo[c] /\ \A q \in todo[c] : p <= q

ReadInventory(c) ==
    /\ phase[c] = "products"
    /\ current[c] = None
    /\ \E p \in Products : /\ IsNext(c, p)
                           /\ current' = [current EXCEPT ![c] = p]
                           /\ seen' = [seen EXCEPT ![c] = inv[p].reserved]
    /\ UNCHANGED <<vars, erpQty, catalogVersion, phase, fetched, todo, upserted, history>>

\* The transaction of a call holds the lock of the product's row; since the upsert
\* sets the unique sku, it is one that foreign keys wait for.
RowLocked(p) == \E c \in upserted : current[c] = p

UpsertProduct(c) ==
    /\ current[c] # None
    /\ c \notin upserted
    /\ ~RowLocked(current[c])
    /\ upserted' = upserted \union {c}
    /\ UNCHANGED <<vars, erpQty, catalogVersion, phase, fetched, todo, current, seen, history>>

AtLeastZero(n) == IF n > 0 THEN n ELSE 0

\* Mutant: stock that is already committed is put back on sale.
EverythingAvailable(c, p) == fetched[c][p].qty

AvailableFor(c, p) == AtLeastZero(fetched[c][p].qty - seen[c])

\* Mutant: the counters start over.
MirrorFromScratch(c, old) ==
    [avail |-> AvailableFor(c, current[c]), reserved |-> 0, version |-> old.version + 1]

MirrorRow(c, old) ==
    [avail |-> AvailableFor(c, current[c]), reserved |-> old.reserved,
     version |-> old.version + 1]

\* Inventory, stats and compatibilities of the product whose row is written, and the
\* commit.  The inventory row must not be locked by a checkout.
WriteInventory(c) ==
    /\ c \in upserted
    /\ \A r \in Requests : current[c] \notin reserved[r]
    /\ inv' = [inv EXCEPT ![current[c]] = MirrorRow(c, @)]
    /\ active' = IF fetched[c][current[c]].active THEN active \union {current[c]}
                                                 ELSE active \ {current[c]}
    /\ priced' = priced \union {current[c]}
    /\ erpQty' = [erpQty EXCEPT ![current[c]] = fetched[c][current[c]].qty]
    /\ missed' = [missed EXCEPT ![current[c]] = inv[current[c]].reserved - seen[c]]
    /\ todo' = [todo EXCEPT ![c] = @ \ {current[c]}]
    /\ current' = [current EXCEPT ![c] = None]
    /\ seen' = [seen EXCEPT ![c] = 0]
    /\ upserted' = upserted \ {c}
    /\ UNCHANGED <<idem, orders, outbox, request, catalogVersion, phase, fetched, overlapped>>

\* Mutant: the listed products are switched off instead of the others.
Listed(c) == DOMAIN fetched[c]

Absent(c) == Products \ DOMAIN fetched[c]

DeactivateAbsent(c) ==
    /\ phase[c] = "products"
    /\ todo[c] = {}
    /\ \A p \in Absent(c) : ~RowLocked(p)
    /\ active' = active \ Absent(c)
    /\ phase' = [phase EXCEPT ![c] = "bump"]
    /\ UNCHANGED <<inv, priced, idem, orders, outbox, request, erpQty, catalogVersion,
                   fetched, todo, current, seen, upserted, history>>

EndSync(c) ==
    /\ phase' = [phase EXCEPT ![c] = "done"]
    /\ fetched' = [fetched EXCEPT ![c] = NoList]
    /\ todo' = [todo EXCEPT ![c] = {}]
    /\ current' = [current EXCEPT ![c] = None]
    /\ seen' = [seen EXCEPT ![c] = 0]
    /\ upserted' = upserted \ {c}
    /\ UNCHANGED <<vars, erpQty, history>>

BumpVersion(c) ==
    /\ phase[c] = "bump"
    /\ catalogVersion' = catalogVersion + 1
    /\ EndSync(c)

\* A statement fails or the process dies: the open transaction is rolled back,
\* the products already mirrored stay, nothing after them happens.
SyncFails(c) ==
    /\ c \in Running
    /\ EndSync(c)
    /\ UNCHANGED catalogVersion

-----------------------------------------------------------------------------
(* Checkouts and syncs wait for each other *)

\* The items of a new order refer to products whose rows are not locked.
ItemsMayRefer == \A o \in orders' \ orders : \A p \in ProductsOf(o) : ~RowLocked(p)

\* A sync that waits for the inventory row has the product row its holder waits for.
WaitForEachOther(c, r) ==
    /\ c \in upserted
    /\ ReadyToInsert(r)
    /\ Storable(Total(r))
    /\ current[c] \in ProductsOf(r)

\* Mutant: the transaction of the product is tried again, as often as it takes.
TryProductAgain(c) ==
    /\ current' = [current EXCEPT ![c] = None]
    /\ seen' = [seen EXCEPT ![c] = 0]
    /\ upserted' = upserted \ {c}
    /\ UNCHANGED <<vars, erpQty, history, phase, fetched, todo>>

\* A deadlock is an error like any other: syncCatalog does not go on.
AfterDeadlock(c) == EndSync(c)

\* PostgreSQL aborts the transaction of the one or the other.
BreakDeadlock(c, r) ==
    /\ WaitForEachOther(c, r)
    /\ \/ AfterDeadlock(c) /\ UNCHANGED catalogVersion
       \/ RetryOrGiveUp(r, "deadlock") /\ UNCHANGED syncVars

-----------------------------------------------------------------------------

SyncProceed(c) ==
    \/ ReadInventory(c) \/ UpsertProduct(c) \/ WriteInventory(c)
    \/ DeactivateAbsent(c) \/ BumpVersion(c)
    \/ \E r \in Requests : BreakDeadlock(c, r)

SyncNext ==
    \/ Next /\ ItemsMayRefer /\ UNCHANGED syncVars
    \/ \E c \in Syncs : FetchCatalog(c) \/ SyncProceed(c) \/ SyncFails(c)

SyncSpec == SyncInit /\ [][SyncNext]_allVars

\* Both the calls of checkout() and the statements of a sync make progress, and
\* PostgreSQL resolves deadlocks.
SyncFairSpec ==
    /\ SyncSpec
    /\ \A r \in Requests : WF_allVars(Proceed(r) /\ ItemsMayRefer /\ UNCHANGED syncVars)
    /\ \A c \in Syncs : WF_allVars(SyncProceed(c))

-----------------------------------------------------------------------------
(* Properties *)

\* The checkouts' state is as ever; a sync opens transactions only for products
\* it still has to mirror, and reserved units only grow between its read and write.
SyncTypeOK ==
    /\ TypeOK
    /\ erpQty \in [Products -> Nat]
    /\ catalogVersion \in Nat
    /\ phase \in [Syncs -> {"idle", "products", "bump", "done"}]
    /\ fetched \in [Syncs -> ErpCatalogs \union {NoList}]
    /\ todo \in [Syncs -> SUBSET Products]
    /\ current \in [Syncs -> Products \union {None}]
    /\ seen \in [Syncs -> Nat]
    /\ \A c \in Syncs : /\ todo[c] \subseteq DOMAIN fetched[c]
                        /\ current[c] \in todo[c] \union {None}
                        /\ c \in upserted => current[c] # None
    /\ upserted \subseteq Syncs
    /\ missed \in [Products -> Nat]
    /\ overlapped \subseteq Syncs

\* What can be sold is what the ERP has less what is committed, the formula of
\* the design, but for one error: the units sold between the read and the
\* write of the last sync of the product stay on sale.  Overlapping syncs of
\* different catalogs do not add to the error.
StockFormula ==
    \A p \in Products :
        inv[p].avail = AtLeastZero(erpQty[p] + missed[p] - inv[p].reserved)

\* A sync that ran alone publishes a new catalog version only when the mirror
\* agrees with the catalog it fetched: every listed product written, every other
\* one switched off.  One that overlapped may publish a mixture.
BumpPublishesMirror ==
    [][\A c \in Syncs \ overlapped : phase[c] = "bump" /\ catalogVersion' # catalogVersion =>
        \A p \in Products :
            /\ p \in active <=> p \in DOMAIN fetched[c] /\ fetched[c][p].active
            /\ p \in DOMAIN fetched[c] => erpQty[p] = fetched[c][p].qty]_allVars

\* Again and again no sync runs and no checkout is open: since none runs twice, each
\* one that has started ends, although a sync locks a product and then its stock, and
\* a checkout the other way round.
SyncsAndCheckoutsEnd == []<>(Running = {} /\ \A r \in Requests : ~InFlight(r))

\* docs/superpowers/specs/2026-05-28-casecellshop-backend-design.md:374-377 and
\* 399: availableQty = erpQty - reservedQty, and "uma sincronizacao do ERP nao
\* sobrescreve estoque ja comprometido pela loja".
SyncKeepsCommittedStock ==
    \A p \in Products : inv[p].avail <= AtLeastZero(erpQty[p] - inv[p].reserved)
-----------------------------------------------------------------------------
(* The inductive invariant behind the properties *)

\* What a sync has read was true, and units are only ever reserved since.
ReadsArePast ==
    /\ \A p \in Products : inv[p].reserved >= 0
    /\ \A c \in Syncs : /\ current[c] # None => seen[c] <= inv[current[c]].reserved
                        /\ phase[c] # "products" => todo[c] = {}

Mirrored(c, p) ==
    /\ p \in active <=> fetched[c][p].active
    /\ erpQty[p] = fetched[c][p].qty

\* No two open transactions hold the row of the same product.
RowLocksExclusive ==
    \A c, d \in upserted : current[c] = current[d] => c = d

\* A sync that runs alone finds what it has written as it wrote it.
LoneSyncsMirror ==
    \A c \in Running \ overlapped :
        /\ Running = {c}
        /\ \A p \in DOMAIN fetched[c] \ todo[c] : Mirrored(c, p)
        /\ phase[c] = "bump" => active \subseteq DOMAIN fetched[c]

\* What makes every step preserve the formula, next to any checkouts.
SyncInv ==
    /\ CoreInv
    /\ SyncTypeOK
    /\ StockFormula
    /\ ReadsArePast
    /\ RowLocksExclusive
    /\ LoneSyncsMirror
=============================================================================
