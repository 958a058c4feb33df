--------------------------- MODULE OrderDeskProofs ---------------------------
(* Checkout implements OrderDesk, for every set of requests, keys and products. *)
EXTENDS CheckoutProofs

USE DEF SaleIsFixed, InTransaction

\* What a rollback answers is true of the orders and the stock.
TrueRefusal(r, status, cause) ==
    /\ status \in {409, 422, 500}
    /\ status = 409 => \E o \in orders : KeyOf[r] = KeyOf[o] /\ ~SameRequest(r, o)
    /\ status = 422 => cause \in {"unavailable", "unpriced", "insufficient"}
    /\ cause \in {"unavailable", "unpriced"} => ~Sellable(r)
    /\ cause = "insufficient" => \E p \in ProductsOf(r) : inv[p].avail < Quantity(r, p)
    /\ status \in {409, 422} => ~\E o \in orders : SameRequest(r, o)

\* Nothing is booked, refused or sold out when the database is seeded.
LEMMA InitDesk == Init => DeskInv
BY InitIInv DEF Init, DeskInv, ChecksPassed, StockOnlyShrinks, UnseenOrdersFit,
   RefusalsHaveReasons, SoldOutIsTrue, RepetitionsAreNotRefused, NoResult, Response

\* A refusal preserves the invariant when it is true.
LEMMA AbortDesk ==
    ASSUME DeskInv, IInv', NEW r \in Requests, pc[r] = "begin" \/ InTransaction(r),
           NEW status, NEW cause, TrueRefusal(r, status, cause), Abort(r, status, cause)
    PROVE  DeskInv'
<1> USE DEF Abort, CloseTransaction, Answer, Goto, store, DeskInv, TrueRefusal
<1>0. TypeOK
  BY DEF IInv, CoreInv
<1>1. SaleIsFixed'
  BY <1>0 DEF TypeOK
<1>2. ChecksPassed'
  BY <1>0 DEF TypeOK, ChecksPassed, Existing
<1>3. StockOnlyShrinks'
  BY <1>0 DEF TypeOK, StockOnlyShrinks
<1>4. UnseenOrdersFit'
  BY <1>0 DEF TypeOK, UnseenOrdersFit
<1>5. RefusalsHaveReasons'
  BY <1>0 DEF TypeOK, RefusalsHaveReasons, Response
<1>6. SoldOutIsTrue'
  BY <1>0 DEF TypeOK, SoldOutIsTrue, Response
<1>7. RepetitionsAreNotRefused'
  BY <1>0 DEF TypeOK, RepetitionsAreNotRefused, Response
<1> QED
  BY <1>1, <1>2, <1>3, <1>4, <1>5, <1>6, <1>7

\* A transaction rolled back by the database, and begun again or given up, has sold
\* nothing.
LEMMA RetryDesk ==
    ASSUME DeskInv, IInv', NEW r \in Requests, InTransaction(r),
           NEW cause \in {"write_conflict", "deadlock"}, RetryOrGiveUp(r, cause)
    PROVE  DeskInv'
<1>1. CASE MayRetry(r) /\ CloseTransaction(r) /\ Goto(r, "begin")
           /\ UNCHANGED <<store, result>>
  <2> USE <1>1 DEF CloseTransaction, Goto, store, DeskInv
  <2>0. TypeOK
    BY DEF IInv, CoreInv
  <2>1. SaleIsFixed' /\ ChecksPassed'
    BY <2>0 DEF TypeOK, ChecksPassed, Existing
  <2>2. StockOnlyShrinks' /\ UnseenOrdersFit'
    BY <2>0 DEF TypeOK, StockOnlyShrinks, UnseenOrdersFit
  <2>3. RefusalsHaveReasons' /\ SoldOutIsTrue' /\ RepetitionsAreNotRefused'
    BY <2>0 DEF TypeOK, RefusalsHaveReasons, SoldOutIsTrue, RepetitionsAreNotRefused
  <2> QED
    BY <2>1, <2>2, <2>3
<1>2. CASE Abort(r, 500, cause)
  BY <1>2, AbortDesk DEF TrueRefusal
<1> QED
  BY <1>1, <1>2 DEF RetryOrGiveUp

\* An invalid request is refused before it touches anything.
LEMMA RefuseDesk == ASSUME DeskInv, IInv', NEW r \in Requests, Refuse(r) PROVE DeskInv'
<1> USE DEF Refuse, Answer, Goto, store, DeskInv
<1>0. TypeOK
  BY DEF IInv, CoreInv
<1>1. SaleIsFixed' /\ ChecksPassed'
  BY <1>0 DEF TypeOK, ChecksPassed, Existing
<1>2. StockOnlyShrinks' /\ UnseenOrdersFit'
  BY <1>0 DEF TypeOK, StockOnlyShrinks, UnseenOrdersFit
<1>3. RefusalsHaveReasons' /\ SoldOutIsTrue' /\ RepetitionsAreNotRefused'
  BY <1>0 DEF TypeOK, RefusalsHaveReasons, SoldOutIsTrue, RepetitionsAreNotRefused, Response
<1> QED
  BY <1>1, <1>2, <1>3

\* A snapshot that has just been taken is the store.
LEMMA BeginDesk == ASSUME DeskInv, IInv', NEW r \in Requests, Begin(r) PROVE DeskInv'
<1> USE DEF Begin, Goto, store, DeskInv
<1>0. TypeOK /\ OneOrderPerKey
  BY DEF IInv, CoreInv
<1>1. \A q \in Requests : InTransaction(q)' =>
        \/ q = r /\ snap'[q] = [inv |-> inv, active |-> active,
                                 priced |-> priced, idem |-> idem]
        \/ InTransaction(q) /\ snap'[q] = snap[q]
  BY <1>0 DEF TypeOK
<1>2. SaleIsFixed' /\ ChecksPassed'
  BY <1>0 DEF TypeOK, ChecksPassed, Existing
<1>3. StockOnlyShrinks'
  <2>1. \A p \in Products : inv[p].avail <= inv[p].avail
    BY <1>0 DEF TypeOK, Row
  <2> QED
    BY <1>1, <2>1 DEF StockOnlyShrinks
<1>4. UnseenOrdersFit'
  <2>1. \A o \in orders : idem[KeyOf[o]] # None
    BY <1>0, NoneAssumption DEF NoneAssumption, OneOrderPerKey, TypeOK
  <2> SUFFICES ASSUME NEW q \in Requests, InTransaction(q)', NEW o \in orders,
                      snap'[q].idem[KeyOf[o]] = None, NEW p \in ProductsOf(o)
               PROVE  snap'[q].inv[p].avail >= Quantity(o, p)
    BY DEF UnseenOrdersFit
  <2>2. InTransaction(q) /\ snap'[q] = snap[q]
    BY <1>1, <2>1
  <2> QED
    BY <2>2 DEF UnseenOrdersFit
<1>5. RefusalsHaveReasons' /\ SoldOutIsTrue' /\ RepetitionsAreNotRefused'
  BY <1>0 DEF TypeOK, RefusalsHaveReasons, SoldOutIsTrue, RepetitionsAreNotRefused
<1> QED
  BY <1>2, <1>3, <1>4, <1>5

\* Steps of a call that leave the store, the open snapshots and the answers alone.
LEMMA QuietDesk ==
    ASSUME DeskInv, IInv', NEW r \in Requests,
           Start(r) \/ AcquireLock(r) \/ AcceptLines(r) \/ ReserveLine(r) \/ Respond(r)
    PROVE  DeskInv'
<1> USE DEF DeskInv
<1>0. TypeOK
  BY DEF IInv, CoreInv
<1>1. UNCHANGED <<store, snap, result>>
  BY DEF Start, AcquireLock, AcceptLines, ReserveLine, Respond
<1>2. \A q \in Requests \ {r} : pc'[q] = pc[q]
  BY <1>0 DEF Start, AcquireLock, AcceptLines, ReserveLine, Respond, Goto, TypeOK
<1>3. /\ InTransaction(r)' => InTransaction(r)
      /\ pc'[r] = "begin" => Valid(r)
      /\ pc'[r] = "reserving" => Existing(r) = None /\ Sellable(r)
      /\ pc'[r] # "invalidating"
  BY <1>0 DEF Start, AcquireLock, AcceptLines, AllFound, AllPriced, Sellable, ReserveLine, Respond, Goto,
     TypeOK, ChecksPassed
<1>4. SaleIsFixed' /\ ChecksPassed'
  BY <1>1, <1>2, <1>3 DEF ChecksPassed, Existing, store
<1>5. StockOnlyShrinks' /\ UnseenOrdersFit'
  BY <1>1, <1>2, <1>3 DEF StockOnlyShrinks, UnseenOrdersFit, store
<1>6. RefusalsHaveReasons' /\ SoldOutIsTrue' /\ RepetitionsAreNotRefused'
  BY <1>1, <1>2, <1>3 DEF RefusalsHaveReasons, SoldOutIsTrue, RepetitionsAreNotRefused, store
<1> QED
  BY <1>4, <1>5, <1>6

\* A repetition that is answered with the stored order has sold nothing.
LEMMA ReplayDesk == ASSUME DeskInv, IInv', NEW r \in Requests, Replay(r) PROVE DeskInv'
<1> USE DEF Replay, CloseTransaction, Goto, store, DeskInv
<1>0. TypeOK
  BY DEF IInv, CoreInv
<1>1. SaleIsFixed' /\ ChecksPassed'
  BY <1>0 DEF TypeOK, ChecksPassed, Existing
<1>2. StockOnlyShrinks' /\ UnseenOrdersFit'
  BY <1>0 DEF TypeOK, StockOnlyShrinks, UnseenOrdersFit
<1>3. result' = [result EXCEPT ![r] = Response(200, Existing(r).orderId, "none")]
  OBVIOUS
<1>4. RefusalsHaveReasons' /\ SoldOutIsTrue' /\ RepetitionsAreNotRefused'
  BY <1>0, <1>3 DEF TypeOK, RefusalsHaveReasons, SoldOutIsTrue, RepetitionsAreNotRefused,
     Response
<1> QED
  BY <1>1, <1>2, <1>4

\* An order whose invalidation throws stays in the book.
LEMMA InvalidationFailureDesk ==
    ASSUME DeskInv, IInv', NEW r \in Requests, InvalidationFailure(r) PROVE DeskInv'
<1> USE DEF InvalidationFailure, Answer, Goto, store, DeskInv
<1>0. TypeOK
  BY DEF IInv, CoreInv
<1>1. SaleIsFixed' /\ ChecksPassed'
  BY <1>0 DEF TypeOK, ChecksPassed, Existing
<1>2. StockOnlyShrinks' /\ UnseenOrdersFit'
  BY <1>0 DEF TypeOK, StockOnlyShrinks, UnseenOrdersFit
<1>3. RefusalsHaveReasons' /\ SoldOutIsTrue' /\ RepetitionsAreNotRefused'
  BY <1>0 DEF TypeOK, RefusalsHaveReasons, SoldOutIsTrue, RepetitionsAreNotRefused, Response
<1> QED
  BY <1>1, <1>2, <1>3

\* A crash of the process rolls every open transaction back.
LEMMA CrashDesk == ASSUME DeskInv, IInv', Crash PROVE DeskInv'
<1> USE DEF Crash, InFlight, store, DeskInv
<1>1. \A r \in Requests : ~InTransaction(r)' /\ pc'[r] \notin {"begin", "invalidating"}
  OBVIOUS
<1>2. SaleIsFixed' /\ ChecksPassed' /\ StockOnlyShrinks' /\ UnseenOrdersFit'
  BY <1>1 DEF ChecksPassed, StockOnlyShrinks, UnseenOrdersFit
<1>3. RefusalsHaveReasons' /\ SoldOutIsTrue' /\ RepetitionsAreNotRefused'
  BY <1>1 DEF RefusalsHaveReasons, SoldOutIsTrue, RepetitionsAreNotRefused, NoResult, Response
<1> QED
  BY <1>2, <1>3

\* An order that is booked fits the snapshots that do not show it, and is not the
\* repetition of a request that has been refused.
LEMMA CommitDesk == ASSUME DeskInv, IInv', NEW r \in Requests, Commit(r) PROVE DeskInv'
<1> USE DEF DeskInv
<1>0. IInv /\ CoreInv /\ TypeOK
  BY DEF IInv, CoreInv
<1>1. /\ pc[r] = "reserving" /\ idem[KeyOf[r]] = None
      /\ idem' = [idem EXCEPT ![KeyOf[r]] = IdemRow(r)]
      /\ orders' = orders \union {r}
      /\ snap' = [snap EXCEPT ![r] = None]
      /\ pc' = [pc EXCEPT ![r] = "invalidating"]
      /\ result' = [result EXCEPT ![r] = Response(202, r, "none")]
      /\ active' = active /\ priced' = priced
  BY DEF Commit, ReadyToInsert, KeyIsFree, CloseTransaction, Goto
<1>2. \A p \in Products : /\ inv[p].avail \in Int /\ inv'[p].avail \in Int
                          /\ inv'[p].avail <= inv[p].avail
  <2> SUFFICES ASSUME NEW p \in Products
               PROVE  /\ inv[p].avail \in Int /\ inv'[p].avail \in Int
                      /\ inv'[p].avail <= inv[p].avail
    OBVIOUS
  <2>1. inv[p] \in Row /\ inv'[p] \in Row
    BY <1>0, CommitTakes
  <2>2. CASE p \notin ProductsOf(r)
    BY <1>0, <2>1, <2>2, CommitTakes DEF Row
  <2>3. CASE p \in ProductsOf(r)
    <3>1. Quantity(r, p) \in Nat /\ inv'[p] = Take(inv[p], Quantity(r, p))
      BY <1>0, <2>3, CommitTakes
    <3> QED
      BY <2>1, <3>1 DEF Take, Row
  <2> QED
    BY <2>2, <2>3
<1>3. ProductsOf(r) \subseteq Products
  BY LinesType
<1>4. \A p \in ProductsOf(r) : Quantity(r, p) \in Nat /\ inv[p].avail >= Quantity(r, p)
  BY <1>0, <1>3, CommitTakes
<1>5. \A q \in Requests : InTransaction(q)' => q # r /\ InTransaction(q) /\ snap'[q] = snap[q]
  BY <1>0, <1>1 DEF TypeOK
<1>6. SaleIsFixed' /\ ChecksPassed'
  BY <1>0, <1>1, <1>5 DEF TypeOK, ChecksPassed, Existing
<1>7. StockOnlyShrinks'
  <2> SUFFICES ASSUME NEW q \in Requests, InTransaction(q)', NEW p \in Products
               PROVE  inv'[p].avail <= snap'[q].inv[p].avail
    BY DEF StockOnlyShrinks
  <2>1. inv[p].avail <= snap[q].inv[p].avail /\ snap[q].inv[p].avail \in Int
    BY <1>0, <1>5 DEF StockOnlyShrinks, TypeOK, Snapshots, Row
  <2> QED
    BY <1>2, <1>5, <2>1
<1>8. UnseenOrdersFit'
  <2> SUFFICES ASSUME NEW q \in Requests, InTransaction(q)', NEW o \in orders',
                      snap'[q].idem[KeyOf[o]] = None, NEW p \in ProductsOf(o)
               PROVE  snap'[q].inv[p].avail >= Quantity(o, p)
    BY DEF UnseenOrdersFit
  <2>1. CASE o = r
    <3>1. inv[p].avail <= snap[q].inv[p].avail /\ snap[q].inv[p].avail \in Int
      BY <1>0, <1>3, <1>5, <2>1 DEF StockOnlyShrinks, TypeOK, Snapshots, Row
    <3> QED
      BY <1>2, <1>3, <1>4, <1>5, <2>1, <3>1
  <2>2. CASE o \in orders
    BY <1>5, <2>2 DEF UnseenOrdersFit
  <2> QED
    BY <1>1, <2>1, <2>2
<1>9. RefusalsHaveReasons'
  BY <1>0, <1>1 DEF TypeOK, RefusalsHaveReasons, Response
<1>10. SoldOutIsTrue'
  <2> SUFFICES ASSUME NEW q \in Requests, result'[q].cause = "insufficient"
               PROVE  \E p \in ProductsOf(q) : inv'[p].avail < Quantity(q, p)
    BY DEF SoldOutIsTrue
  <2>1. result'[q] = result[q]
    BY <1>0, <1>1 DEF TypeOK, Response
  <2>2. PICK p \in ProductsOf(q) : inv[p].avail < Quantity(q, p)
    BY <2>1 DEF SoldOutIsTrue
  <2>3. p \in Products /\ Quantity(q, p) \in Nat
    BY LinesType, QuantityType
  <2> QED
    BY <1>2, <2>2, <2>3
<1>11. RepetitionsAreNotRefused'
  <2> SUFFICES ASSUME NEW q \in Requests, result'[q].status \in {409, 422},
                      SameRequest(q, r)
               PROVE  FALSE
    BY <1>0, <1>1 DEF TypeOK, RepetitionsAreNotRefused, Response
  <2>1. q # r /\ result'[q] = result[q]
    BY <1>0, <1>1 DEF TypeOK, Response
  <2>2. KeyOf[q] = KeyOf[r] /\ RequestHash(q) = RequestHash(r)
    BY DEF SameRequest
  <2>3. CASE result[q].status = 409
    <3>1. PICK o \in orders : KeyOf[q] = KeyOf[o]
      BY <1>0, <2>3 DEF CoreInv, TruthfulAnswers
    <3>2. o \in Requests /\ idem[KeyOf[o]] = IdemRow(o)
      BY <1>0 DEF CoreInv, OneOrderPerKey, TypeOK
    <3> QED
      BY <1>1, <2>2, <3>1, <3>2, NoneAssumption DEF NoneAssumption
  <2>4. CASE result[q].cause \in {"unavailable", "unpriced"}
    BY <1>1, <2>2, <2>4, SameHash DEF RefusalsHaveReasons, ChecksPassed, Sellable
  <2>5. CASE result[q].cause = "insufficient"
    <3>1. PICK p \in ProductsOf(q) : inv[p].avail < Quantity(q, p)
      BY <2>5 DEF SoldOutIsTrue
    <3>2. p \in ProductsOf(r) /\ Quantity(q, p) = Quantity(r, p)
      BY <2>2, SameHash
    <3> QED
      BY <1>2, <1>3, <1>4, <3>1, <3>2
  <2> QED
    BY <2>1, <2>3, <2>4, <2>5 DEF RefusalsHaveReasons
<1> QED
  BY <1>6, <1>7, <1>8, <1>9, <1>10, <1>11

\* The key is booked for another payload.
LEMMA ReusedKeyIsTrue ==
    ASSUME DeskInv, NEW r \in Requests, RejectReusedKey(r)
    PROVE  TrueRefusal(r, 409, "reused_key")
<1>1. InTransaction(r) /\ Existing(r) # None /\ Existing(r).requestHash # RequestHash(r)
  BY DEF RejectReusedKey, SamePayload
<1>2. CoreInv
  BY DEF DeskInv, IInv
<1>3. Existing(r).orderId \in orders /\ KeyOf[Existing(r).orderId] = KeyOf[r]
  BY <1>1, <1>2, ExistingIsOrder
<1>4. ASSUME NEW o \in orders, SameRequest(r, o) PROVE FALSE
  <2>1. idem[KeyOf[r]] = IdemRow(o)
    BY <1>2, <1>4 DEF CoreInv, OneOrderPerKey, SameRequest
  <2>2. Existing(r) = idem[KeyOf[r]]
    BY <1>1, <1>2, RequestAssumption DEF RequestAssumption, CoreInv, SnapshotsArePast, Existing
  <2> QED
    BY <1>1, <1>4, <2>1, <2>2 DEF IdemRow, SameRequest
<1> QED
  BY <1>3, <1>4 DEF TrueRefusal

\* A request that cannot be ordered is nobody's repetition.
LEMMA UnavailableIsTrue ==
    ASSUME DeskInv, NEW r \in Requests, RejectUnavailable(r) \/ RejectUnpriced(r)
    PROVE  /\ TrueRefusal(r, 422, "unavailable")
           /\ TrueRefusal(r, 422, "unpriced")
<1>1. InTransaction(r) /\ ~Sellable(r)
  BY DEF RejectUnavailable, RejectUnpriced, AllFound, AllPriced, Sellable, DeskInv
<1>2. ASSUME NEW o \in orders, SameRequest(r, o) PROVE FALSE
  <2>1. o \in Requests /\ Sellable(o)
    BY DEF DeskInv, IInv, CoreInv, TypeOK, ChecksPassed
  <2> QED
    BY <1>1, <1>2, <2>1, SameHash DEF SameRequest, Sellable
<1> QED
  BY <1>1, <1>2 DEF TrueRefusal

\* What the old snapshot lacks is lacking now, and if it did not show the order this
\* request repeats, it would still show the units that order took.
LEMMA InsufficientIsTrue ==
    ASSUME DeskInv, NEW r \in Requests, RejectInsufficient(r)
    PROVE  TrueRefusal(r, 422, "insufficient")
<1>1. PICK p \in Products : IsNextLine(r, p) /\ ~EnoughInSnapshot(r, p)
  BY DEF RejectInsufficient
<1>2. pc[r] = "reserving" /\ InTransaction(r)
  BY DEF RejectInsufficient
<1>3. p \in ProductsOf(r) /\ Quantity(r, p) \in Nat
  BY <1>1, QuantityType DEF IsNextLine
<1>4. TypeOK
  BY DEF DeskInv, IInv, CoreInv
<1>5. inv[p].avail \in Int /\ snap[r].inv[p].avail \in Int
  BY <1>2, <1>4 DEF TypeOK, Snapshots, Row
<1>6. inv[p].avail <= snap[r].inv[p].avail /\ ~(snap[r].inv[p].avail >= Quantity(r, p))
  BY <1>1, <1>2 DEF DeskInv, StockOnlyShrinks, EnoughInSnapshot
<1>7. inv[p].avail < Quantity(r, p)
  BY <1>3, <1>5, <1>6
<1>8. ASSUME NEW o \in orders, SameRequest(r, o) PROVE FALSE
  <2>1. snap[r].idem[KeyOf[o]] = None
    BY <1>2, <1>8 DEF DeskInv, ChecksPassed, Existing, SameRequest
  <2>2. p \in ProductsOf(o) /\ Quantity(o, p) = Quantity(r, p)
    BY <1>3, <1>4, <1>8, SameHash DEF SameRequest, TypeOK
  <2> QED
    BY <1>2, <1>6, <2>1, <2>2 DEF DeskInv, UnseenOrdersFit
<1> QED
  BY <1>3, <1>7, <1>8 DEF TrueRefusal

\* Every step of Checkout is one of these.
LEMMA StepShapes ==
    ASSUME DeskInv, [Next]_vars
    PROVE  \/ Crash \/ UNCHANGED vars
           \/ \E r \in Requests :
                \/ Refuse(r) \/ Begin(r) \/ Replay(r) \/ Commit(r)
                \/ Start(r) \/ AcquireLock(r) \/ AcceptLines(r) \/ ReserveLine(r) \/ Respond(r)
                \/ InvalidationFailure(r)
                \/ /\ InTransaction(r)
                   /\ \E cause \in {"write_conflict", "deadlock"} : RetryOrGiveUp(r, cause)
                \/ /\ pc[r] = "begin" \/ InTransaction(r)
                   /\ \E status, cause :
                        TrueRefusal(r, status, cause) /\ Abort(r, status, cause)
<1> DEFINE Shape(r) ==
      \/ Refuse(r) \/ Begin(r) \/ Replay(r) \/ Commit(r)
      \/ Start(r) \/ AcquireLock(r) \/ AcceptLines(r) \/ ReserveLine(r) \/ Respond(r)
      \/ InvalidationFailure(r)
      \/ /\ InTransaction(r)
         /\ \E cause \in {"write_conflict", "deadlock"} : RetryOrGiveUp(r, cause)
      \/ /\ pc[r] = "begin" \/ InTransaction(r)
         /\ \E status, cause : TrueRefusal(r, status, cause) /\ Abort(r, status, cause)
<1>1. \A r, cause : cause \notin {"unavailable", "unpriced", "insufficient"} =>
        TrueRefusal(r, 500, cause)
  BY DEF TrueRefusal
<1>2. ASSUME NEW r \in Requests, Proceed(r) PROVE Shape(r)
  <2>1. CASE RejectReusedKey(r)
    BY <2>1, ReusedKeyIsTrue DEF RejectReusedKey
  <2>2. CASE RejectUnavailable(r) \/ RejectUnpriced(r)
    BY <2>2, UnavailableIsTrue DEF RejectUnavailable, RejectUnpriced
  <2>3. CASE RejectInsufficient(r)
    BY <2>3, InsufficientIsTrue DEF RejectInsufficient
  <2>4. CASE Overflow(r)
    BY <2>4, <1>1 DEF Overflow, ReadyToInsert
  <2>5. CASE WriteConflict(r)
    BY <2>5 DEF WriteConflict
  <2>6. CASE DuplicateKey(r)
    BY <2>6, <1>1 DEF DuplicateKey, ReadyToInsert
  <2>7. CASE DeadlockVictim(r)
    <3>1. InTransaction(r)
      BY <2>7 DEF DeadlockVictim, InLockCycle
    <3> QED
      BY <2>7, <3>1, <1>1 DEF DeadlockVictim
  <2>8. CASE \/ Begin(r) \/ AcquireLock(r) \/ Replay(r) \/ AcceptLines(r) \/ ReserveLine(r)
             \/ Commit(r) \/ Respond(r)
    BY <2>8
  <2> QED
    BY <1>2, <2>1, <2>2, <2>3, <2>4, <2>5, <2>6, <2>7, <2>8, Zenon
       DEF Proceed, Decide, Reserve, Insert
<1>3. ASSUME NEW r \in Requests, Fault(r) PROVE Shape(r)
  <2>1. CASE SerializationFailure(r)
    BY <2>1 DEF SerializationFailure
  <2>2. CASE TransactionTimeout(r)
    BY <2>2, <1>1 DEF TransactionTimeout
  <2>3. CASE InvalidationFailure(r)
    BY <2>3
  <2> QED
    BY <1>3, <2>1, <2>2, <2>3 DEF Fault
<1>4. \A r \in Requests : Refuse(r) \/ Start(r) => Shape(r)
  OBVIOUS
<1>5. Crash \/ UNCHANGED vars \/ \E r \in Requests : Shape(r)
  <2> HIDE DEF Shape
  <2> QED
    BY <1>2, <1>3, <1>4 DEF Next, AllFinished
<1> QED
  BY <1>5

\* So every step preserves the invariant.
LEMMA DeskStep == DeskInv /\ [Next]_vars => DeskInv'
<1> SUFFICES ASSUME DeskInv, [Next]_vars PROVE DeskInv'
  OBVIOUS
<1>1. IInv'
  BY InductiveStep DEF DeskInv
<1>2. CASE UNCHANGED vars
  BY <1>1, <1>2 DEF vars, store, request, DeskInv, ChecksPassed, Existing,
     StockOnlyShrinks, UnseenOrdersFit, RefusalsHaveReasons, SoldOutIsTrue,
     RepetitionsAreNotRefused
<1>3. CASE Crash
  BY <1>1, <1>3, CrashDesk
<1> QED
  BY <1>1, <1>2, <1>3, StepShapes, AbortDesk, RetryDesk, RefuseDesk, BeginDesk, QuietDesk,
     ReplayDesk, CommitDesk, InvalidationFailureDesk

\* Every reachable state satisfies the stronger invariant, too.
THEOREM DeskInvariance == Spec => []DeskInv
BY InitDesk, DeskStep, PTL DEF Spec

\* "Insufficient stock" is never said of a product that is still there, however
\* old the snapshot it was decided on.
THEOREM SoldOutTrue == Spec => []SoldOutIsTrue
<1>1. DeskInv => SoldOutIsTrue
  BY DEF DeskInv
<1> QED
  BY <1>1, DeskInvariance, PTL

\* A retry of a purchase that went through is never told 409 or 422.
THEOREM RepetitionsServed == Spec => []RepetitionsAreNotRefused
<1>1. DeskInv => RepetitionsAreNotRefused
  BY DEF DeskInv
<1> QED
  BY <1>1, DeskInvariance, PTL

-----------------------------------------------------------------------------
(* The refinement *)

\* The desk judges a request by the same functions.
LEMMA SameFunctions ==
    ASSUME NEW r
    PROVE  /\ Desk!ProductsOf(r) = ProductsOf(r)
           /\ Desk!RequestHash(r) = RequestHash(r)
           /\ \A p : Desk!Quantity(r, p) = Quantity(r, p)
           /\ Desk!Valid(r) <=> Valid(r)
           /\ Desk!Sellable(r) <=> Sellable(r)
           /\ \A o : Desk!SameRequest(r, o) <=> SameRequest(r, o)
<1>0. \A S : Desk!Cardinality(S) = Cardinality(S)
  BY Zenon DEF Desk!Cardinality, Cardinality
<1>1. Desk!ProductsOf(r) = ProductsOf(r)
  BY DEF Desk!ProductsOf, ProductsOf
<1>2. \A o : Desk!RequestHash(o) = RequestHash(o)
  <2>1. \A o, i : Desk!Place(o, i) = Place(o, i)
    BY <1>0, Zenon DEF Desk!Place, Place
  <2> QED
    BY <2>1, Zenon DEF Desk!RequestHash, RequestHash
<1>3. \A p : Desk!Quantity(r, p) = Quantity(r, p)
  BY <1>2 DEF Desk!Quantity, Quantity
<1>4. Desk!Valid(r) <=> Valid(r)
  BY DEF Desk!Valid, Valid
<1>5. \A onSale : Desk!Orderable(r, onSale) <=> Orderable(r, onSale)
  BY <1>0, <1>1, Zenon DEF Desk!Orderable, Orderable
<1>7. Desk!Sellable(r) <=> Sellable(r)
  BY <1>1, <1>5, Zenon DEF Desk!Sellable, Sellable
<1>6. \A o : Desk!SameRequest(r, o) <=> SameRequest(r, o)
  BY <1>2 DEF Desk!SameRequest, SameRequest
<1> QED
  BY <1>1, <1>2, <1>3, <1>4, <1>6, <1>7

\* What the desk sees of an open request.
LEMMA SeenByDesk ==
    ASSUME DeskInv, NEW r \in Requests
    PROVE  /\ Desk!Booked(r) = None <=> idem[KeyOf[r]] = None
           /\ \A o \in orders : KeyOf[o] = KeyOf[r] => Desk!Booked(r) = o
           /\ Desk!Booked(r) # None =>
                Desk!Booked(r) \in orders /\ KeyOf[Desk!Booked(r)] = KeyOf[r]
           /\ Desk!Fillable(r) <=>
                /\ Sellable(r)
                /\ \A p \in ProductsOf(r) : inv[p].avail >= Quantity(r, p)
           /\ WasTold[r] = CASE pc[r] = "done" -> result[r].status
                             [] pc[r] = "lost" -> 500
                             [] OTHER -> 0
<1>1. CoreInv
  BY DEF DeskInv, IInv
<1>2. KeyOf[r] \in Keys
  BY RequestAssumption DEF RequestAssumption
<1>3. Desk!Booked(r) = IF idem[KeyOf[r]] = None THEN None ELSE idem[KeyOf[r]].orderId
  BY <1>2 DEF Desk!Booked, InBook
<1>4. \A o \in orders : idem[KeyOf[o]] = IdemRow(o) /\ IdemRow(o) # None /\ o # None
                        /\ IdemRow(o).orderId = o
  BY <1>1, NoneAssumption, NameAssumption
     DEF CoreInv, OneOrderPerKey, TypeOK, NoneAssumption, NameAssumption, IdemRow
<1>5. idem[KeyOf[r]] # None =>
        \E o \in orders : KeyOf[o] = KeyOf[r] /\ idem[KeyOf[r]] = IdemRow(o)
  BY <1>1, <1>2 DEF CoreInv, RowsAreOrders
<1>6. \A p \in ProductsOf(r) : OnShelf[p] = inv[p].avail
  BY LinesType DEF OnShelf
<1>7. Desk!Fillable(r) <=>
        /\ Sellable(r)
        /\ \A p \in ProductsOf(r) : inv[p].avail >= Quantity(r, p)
  BY <1>6, SameFunctions DEF Desk!Fillable
<1> QED
  BY <1>3, <1>4, <1>5, <1>7 DEF WasTold

\* The seeded store is an empty desk.
LEMMA InitRefines == Init => Desk!Init
BY StockAssumption DEF StockAssumption, Init, Desk!Init, OnShelf, InBook, WasTold

\* The commit is the desk's sale.
LEMMA CommitRefines == ASSUME DeskInv, NEW r \in Requests, Commit(r) PROVE Desk!Accept(r)
<1>1. /\ pc[r] = "reserving" /\ idem[KeyOf[r]] = None
      /\ idem' = [idem EXCEPT ![KeyOf[r]] = IdemRow(r)]
      /\ pc' = [pc EXCEPT ![r] = "invalidating"]
      /\ result' = [result EXCEPT ![r] = Response(202, r, "none")]
  BY DEF Commit, ReadyToInsert, KeyIsFree, Goto
<1>2. CoreInv /\ TypeOK
  BY DEF DeskInv, IInv, CoreInv
<1>3. WasTold[r] = 0 /\ Desk!Booked(r) = None
  BY <1>1, SeenByDesk
<1>4. Desk!Valid(r) /\ Sellable(r)
  BY <1>1, SameFunctions DEF DeskInv, ChecksPassed
<1>5. \A p \in ProductsOf(r) : p \in Products
  BY LinesType
<1>6. \A p \in ProductsOf(r) : inv[p].avail >= Quantity(r, p)
  BY <1>2, <1>5, CommitTakes
<1>7. InBook' = [InBook EXCEPT ![KeyOf[r]] = r]
  BY <1>1, <1>2, NoneAssumption DEF NoneAssumption, InBook, IdemRow, TypeOK
<1>8. OnShelf' = [p \in Products |-> IF p \in ProductsOf(r)
                                     THEN OnShelf[p] - Quantity(r, p) ELSE OnShelf[p]]
  <2>1. ASSUME NEW p \in Products
        PROVE  inv'[p].avail = IF p \in ProductsOf(r)
                               THEN inv[p].avail - Quantity(r, p) ELSE inv[p].avail
    <3>1. CASE p \notin ProductsOf(r)
      BY <1>2, <3>1, CommitTakes
    <3>2. CASE p \in ProductsOf(r)
      <4>1. inv'[p] = Take(inv[p], Quantity(r, p))
        BY <1>2, <3>2, CommitTakes
      <4> QED
        BY <3>2, <4>1 DEF Take
    <3> QED
      BY <3>1, <3>2
  <2> QED
    BY <2>1, Zenon DEF OnShelf
<1>9. WasTold' = WasTold
  <2> SUFFICES ASSUME NEW q \in Requests PROVE WasTold'[q] = WasTold[q]
    BY DEF WasTold
  <2> QED
    BY <1>1, <1>2 DEF WasTold, TypeOK
<1>10. Desk!Fillable(r)
  BY <1>4, <1>6, SeenByDesk
<1> QED
  BY <1>3, <1>4, <1>7, <1>8, <1>9, <1>10, SameFunctions DEF Desk!Accept

\* One request is answered, the others are told nothing.
LEMMA OneIsTold ==
    ASSUME DeskInv, NEW r \in Requests, NEW status,
           pc' = [pc EXCEPT ![r] = "done"],
           result'[r].status = status, \A q \in Requests \ {r} : result'[q] = result[q]
    PROVE  /\ WasTold' = [WasTold EXCEPT ![r] = status]
           /\ status = 500 =>
                WasTold' = [q \in Requests |-> IF q \in {r} THEN 500 ELSE WasTold[q]]
<1>1. DOMAIN pc = Requests
  BY DEF DeskInv, IInv, CoreInv, TypeOK
<1>2. WasTold'[r] = status
  <2>1. pc'[r] = "done"
    BY <1>1
  <2> QED
    BY <2>1 DEF WasTold
<1>3. ASSUME NEW q \in Requests, q # r PROVE WasTold'[q] = WasTold[q]
  <2>1. pc'[q] = pc[q] /\ result'[q] = result[q]
    BY <1>1, <1>3
  <2> QED
    BY <2>1 DEF WasTold
<1>4. /\ WasTold = [q \in Requests |-> WasTold[q]]
      /\ WasTold' = [q \in Requests |-> WasTold'[q]]
  BY DEF WasTold
<1>5. WasTold' = [q \in Requests |-> IF q = r THEN status ELSE WasTold[q]]
  BY <1>2, <1>3, <1>4
<1>6. [WasTold EXCEPT ![r] = status] = [q \in Requests |-> IF q = r THEN status ELSE WasTold[q]]
  BY <1>4
<1>7. status = 500 => WasTold' = [q \in Requests |-> IF q \in {r} THEN 500 ELSE WasTold[q]]
  BY <1>5
<1> QED
  BY <1>5, <1>6, <1>7

\* An answer of the model is told to its request alone.
LEMMA AnswerTells ==
    ASSUME DeskInv, NEW r \in Requests, NEW status, NEW order, NEW cause,
           Answer(r, status, order, cause)
    PROVE  /\ WasTold' = [WasTold EXCEPT ![r] = status]
           /\ status = 500 =>
                WasTold' = [q \in Requests |-> IF q \in {r} THEN 500 ELSE WasTold[q]]
<1>1. pc' = [pc EXCEPT ![r] = "done"]
  BY DEF Answer, Goto
<1>2. DOMAIN result = Requests
  BY DEF DeskInv, IInv, CoreInv, TypeOK
<1>3. result' = [result EXCEPT ![r] = Response(status, order, cause)]
  BY DEF Answer
<1>4. result'[r].status = status
  <2>1. result'[r] = Response(status, order, cause)
    BY <1>2, <1>3
  <2> QED
    BY <2>1 DEF Response
<1>5. \A q \in Requests \ {r} : result'[q] = result[q]
  BY <1>2, <1>3
<1> QED
  BY <1>1, <1>4, <1>5, OneIsTold

\* What is told is not told to anybody who has heard of something else.
LEMMA AbortRefines ==
    ASSUME DeskInv, NEW r \in Requests, pc[r] = "begin" \/ InTransaction(r),
           NEW status, NEW cause, TrueRefusal(r, status, cause), Abort(r, status, cause)
    PROVE  Desk!Tell(r) \/ Desk!Fail
<1>1. TypeOK
  BY DEF DeskInv, IInv, CoreInv
<1>2. /\ WasTold' = [WasTold EXCEPT ![r] = status]
      /\ status = 500 => WasTold' = [q \in Requests |-> IF q \in {r} THEN 500 ELSE WasTold[q]]
  BY AnswerTells DEF Abort
<1>3. UNCHANGED <<OnShelf, InBook>>
  BY DEF Abort, store, OnShelf, InBook
<1>4. WasTold[r] = 0
  BY SeenByDesk
<1>5. CASE status = 500
  <2>1. WasTold' = [q \in Requests |-> IF q \in {r} THEN 500 ELSE WasTold[q]]
    BY <1>2, <1>5
  <2>2. {r} \in SUBSET {q \in Requests : WasTold[q] = 0}
    BY <1>4
  <2> QED
    BY <1>3, <2>1, <2>2 DEF Desk!Fail
<1>6. CASE status = 409
  <2>1. Desk!Booked(r) # None /\ ~SameRequest(r, Desk!Booked(r))
    <3>1. PICK o \in orders : KeyOf[r] = KeyOf[o] /\ ~SameRequest(r, o)
      BY <1>6 DEF TrueRefusal
    <3>2. Desk!Booked(r) = o /\ o # None
      BY <1>1, <3>1, SeenByDesk, NameAssumption DEF TypeOK, NameAssumption
    <3> QED
      BY <3>1, <3>2
  <2>2. Desk!True(r, status)
    BY <1>6, <2>1, SameFunctions DEF Desk!True
  <2> QED
    BY <1>2, <1>3, <1>4, <1>6, <2>2 DEF Desk!Tell
<1>7. CASE status = 422
  <2>1. ~Desk!Fillable(r)
    <3>1. CASE cause \in {"unavailable", "unpriced"}
      BY <3>1, SeenByDesk DEF TrueRefusal
    <3>2. CASE cause = "insufficient"
      <4>1. PICK p \in ProductsOf(r) : inv[p].avail < Quantity(r, p)
        BY <3>2 DEF TrueRefusal
      <4>2. p \in Products /\ Quantity(r, p) \in Nat /\ inv[p].avail \in Int
        BY <1>1, LinesType, QuantityType DEF TypeOK, Row
      <4>3. ~(inv[p].avail >= Quantity(r, p))
        BY <4>1, <4>2
      <4> QED
        BY <4>3, SeenByDesk
    <3> QED
      BY <1>7, <3>1, <3>2 DEF TrueRefusal
  <2>2. Desk!Booked(r) = None \/ ~SameRequest(r, Desk!Booked(r))
    BY <1>7, SeenByDesk DEF TrueRefusal
  <2>3. Desk!True(r, status)
    BY <1>7, <2>1, <2>2, SameFunctions DEF Desk!True
  <2> QED
    BY <1>2, <1>3, <1>4, <1>7, <2>3 DEF Desk!Tell
<1> QED
  BY <1>5, <1>6, <1>7 DEF TrueRefusal

\* A request refused before its transaction is told so.
LEMMA RefuseRefines == ASSUME DeskInv, NEW r \in Requests, Refuse(r) PROVE Desk!Tell(r)
<1>1. CoreInv /\ TypeOK
  BY DEF DeskInv, IInv, CoreInv
<1>2. WasTold' = [WasTold EXCEPT ![r] = 400]
  BY AnswerTells DEF Refuse
<1>3. UNCHANGED <<OnShelf, InBook>>
  BY DEF Refuse, store, OnShelf, InBook
<1>4. WasTold[r] = 0
  BY SeenByDesk DEF Refuse
<1>5. r # None /\ r \notin orders
  BY <1>1, NameAssumption DEF Refuse, CoreInv, UnansweredBeforeCommit, NameAssumption
<1>6. Desk!Booked(r) # r
  BY <1>5, SeenByDesk
<1>7. Desk!True(r, 400)
  BY <1>6, SameFunctions DEF Refuse, Desk!True
<1> QED
  BY <1>2, <1>3, <1>4, <1>7 DEF Desk!Tell

\* The answer after the commit is the desk's word on what it has booked.
LEMMA RespondRefines == ASSUME DeskInv, NEW r \in Requests, Respond(r) PROVE Desk!Tell(r)
<1>1. CoreInv /\ TypeOK
  BY DEF DeskInv, IInv, CoreInv
<1>2. result[r].status \in {200, 202}
  BY DEF Respond, DeskInv, RefusalsHaveReasons
<1>3. WasTold' = [WasTold EXCEPT ![r] = result[r].status]
  BY <1>1, OneIsTold DEF Respond, Goto
<1>4. UNCHANGED <<OnShelf, InBook>>
  BY DEF Respond, store, OnShelf, InBook
<1>5. WasTold[r] = 0
  BY SeenByDesk DEF Respond
<1>6. CASE result[r].status = 202
  <2>1. r \in orders
    BY <1>1, <1>6 DEF CoreInv, TruthfulAnswers
  <2>2. Desk!True(r, 202)
    BY <2>1, SeenByDesk DEF Desk!True
  <2> QED
    BY <1>3, <1>4, <1>5, <1>6, <2>2 DEF Desk!Tell
<1>7. CASE result[r].status = 200
  <2>1. result[r].order \in orders \ {r} /\ SameRequest(r, result[r].order)
    BY <1>1, <1>7 DEF CoreInv, TruthfulAnswers
  <2>2. Desk!Booked(r) = result[r].order /\ result[r].order # None
    BY <1>1, <2>1, SeenByDesk, NameAssumption DEF SameRequest, TypeOK, NameAssumption
  <2>3. Desk!True(r, 200)
    BY <2>1, <2>2, SameFunctions DEF Desk!True
  <2> QED
    BY <1>3, <1>4, <1>5, <1>7, <2>3 DEF Desk!Tell
<1> QED
  BY <1>2, <1>6, <1>7

\* An error after the commit, or the death of the process, leaves the book as it is.
LEMMA InvalidationFailureRefines ==
    ASSUME DeskInv, NEW r \in Requests, InvalidationFailure(r) PROVE Desk!Fail
<1>2. WasTold' = [q \in Requests |-> IF q \in {r} THEN 500 ELSE WasTold[q]]
  BY AnswerTells DEF InvalidationFailure
<1>3. UNCHANGED <<OnShelf, InBook>>
  BY DEF InvalidationFailure, store, OnShelf, InBook
<1>4. {r} \in SUBSET {q \in Requests : WasTold[q] = 0}
  BY SeenByDesk DEF InvalidationFailure
<1> QED
  BY <1>2, <1>3, <1>4 DEF Desk!Fail

\* A crash leaves the requests it cuts off without an answer.
LEMMA CrashRefines == ASSUME DeskInv, Crash PROVE Desk!Fail
<1> DEFINE cut == {r \in Requests : InFlight(r)}
<1>1. UNCHANGED <<OnShelf, InBook>>
  BY DEF Crash, store, OnShelf, InBook
<1>2. cut \in SUBSET {q \in Requests : WasTold[q] = 0}
  BY SeenByDesk DEF InFlight
<1>3. WasTold' = [q \in Requests |-> IF q \in cut THEN 500 ELSE WasTold[q]]
  BY DEF Crash, InFlight, WasTold
<1> QED
  BY <1>1, <1>2, <1>3 DEF Desk!Fail

\* Every other step is invisible from outside.
LEMMA QuietRefines ==
    ASSUME DeskInv, NEW r \in Requests,
           \/ Start(r) \/ Begin(r) \/ AcquireLock(r) \/ AcceptLines(r) \/ ReserveLine(r)
           \/ Replay(r)
           \/ MayRetry(r) /\ InTransaction(r) /\ Goto(r, "begin") /\ UNCHANGED <<store, result>>
    PROVE  UNCHANGED <<OnShelf, InBook, WasTold>>
<1>1. TypeOK
  BY DEF DeskInv, IInv, CoreInv
<1>2. UNCHANGED store
  BY DEF Start, Begin, AcquireLock, AcceptLines, ReserveLine, Replay
<1>3. /\ pc[r] \notin {"done", "lost"} /\ pc'[r] \notin {"done", "lost"}
      /\ \A q \in Requests \ {r} : pc'[q] = pc[q] /\ result'[q] = result[q]
  BY <1>1 DEF Start, Begin, AcquireLock, AcceptLines, ReserveLine, Replay, Goto, TypeOK
<1>4. WasTold' = WasTold
  <2> SUFFICES ASSUME NEW q \in Requests PROVE WasTold'[q] = WasTold[q]
    BY DEF WasTold
  <2> QED
    BY <1>3 DEF WasTold
<1> QED
  BY <1>2, <1>4 DEF store, OnShelf, InBook

\* Every step of the checkout is one of the desk, or none.
LEMMA StepRefines == DeskInv /\ [Next]_vars => [Desk!Next]_<<OnShelf, InBook, WasTold>>
<1> SUFFICES ASSUME DeskInv, [Next]_vars
             PROVE  Desk!Next \/ UNCHANGED <<OnShelf, InBook, WasTold>>
  OBVIOUS
<1>1. CASE UNCHANGED vars
  BY <1>1 DEF vars, store, request, OnShelf, InBook, WasTold
<1>2. CASE Crash
  BY <1>2, CrashRefines DEF Desk!Next
<1>3. ASSUME NEW r \in Requests, InTransaction(r),
             NEW cause \in {"write_conflict", "deadlock"}, RetryOrGiveUp(r, cause)
      PROVE  Desk!Next \/ UNCHANGED <<OnShelf, InBook, WasTold>>
  <2>1. CASE Abort(r, 500, cause)
    BY <1>3, <2>1, AbortRefines DEF TrueRefusal, Desk!Next
  <2>2. CASE MayRetry(r) /\ Goto(r, "begin") /\ UNCHANGED <<store, result>>
    BY <1>3, <2>2, QuietRefines
  <2> QED
    BY <1>3, <2>1, <2>2 DEF RetryOrGiveUp
<1>4. ASSUME NEW r \in Requests, pc[r] = "begin" \/ InTransaction(r),
             NEW status, NEW cause, TrueRefusal(r, status, cause), Abort(r, status, cause)
      PROVE  Desk!Next
  BY <1>4, AbortRefines DEF Desk!Next
<1>5. ASSUME NEW r \in Requests,
             Refuse(r) \/ Commit(r) \/ Respond(r) \/ InvalidationFailure(r)
      PROVE  Desk!Next
  BY <1>5, RefuseRefines, CommitRefines, RespondRefines, InvalidationFailureRefines
     DEF Desk!Next
<1> QED
  BY <1>1, <1>2, <1>3, <1>4, <1>5, StepShapes, QuietRefines

\* Overlapping checkouts, with stale snapshots, retries and crashes, are one desk
\* that serves one purchase at a time.
THEOREM Refinement == Spec => ImplementsOrderDesk
<1>1. DeskInv /\ [Next]_vars => [Desk!Next]_(Desk!vars)
  BY StepRefines DEF Desk!vars
<1> QED
  BY <1>1, InitRefines, DeskInvariance, PTL DEF Spec, ImplementsOrderDesk, Desk!Spec
=============================================================================
