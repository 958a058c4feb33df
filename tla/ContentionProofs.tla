--------------------------- MODULE ContentionProofs --------------------------
(* The lock order of Checkout excludes cyclic waits, and its retries are spent  *)
(* on other people's commits, for every set of requests, keys and products.    *)
EXTENDS OrderDeskProofs

-----------------------------------------------------------------------------
(* The lock order *)

\* A request's key is not one of its products.
LEMMA LockNamesType ==
    ASSUME NEW r \in Requests
    PROVE  /\ LockNames(r) \subseteq Keys \union Products
           /\ KeyOf[r] \in LockNames(r) /\ KeyOf[r] \in Keys
           /\ ProductsOf(r) \subseteq Products /\ Products \subseteq Nat
           /\ KeyOf[r] \notin ProductsOf(r)
           /\ LockNames(r) \ {KeyOf[r]} = ProductsOf(r)
BY LinesType, RequestAssumption, NameAssumption
   DEF LockNames, RequestAssumption, NameAssumption

\* A lock is added in the order, or all are released, or none changes.
LEMMA LockSteps ==
    ASSUME CoreInv, [Next]_vars, NEW q \in Requests
    PROVE  \/ got'[q] = got[q] \/ got'[q] = {}
           \/ \E name \in LockNames(q) :
                IsNextLock(q, name) /\ got'[q] = got[q] \union {name}
<1> DEFINE Moves(p) ==
      \/ got'[p] = got[p] \/ got'[p] = {}
      \/ \E name \in LockNames(p) : IsNextLock(p, name) /\ got'[p] = got[p] \union {name}
<1>0. got \in [Requests -> SUBSET (Keys \union Products)]
  BY DEF CoreInv, TypeOK
<1>1. \A r \in Requests : CloseTransaction(r) => Moves(q)
  BY <1>0 DEF CloseTransaction
<1>2. \A status, cause : \A r \in Requests : Abort(r, status, cause) => Moves(q)
  BY <1>1, Zenon DEF Abort
<1>3. \A cause : \A r \in Requests : RetryOrGiveUp(r, cause) => Moves(q)
  BY <1>1, <1>2, Zenon DEF RetryOrGiveUp
<1>4. ASSUME NEW r \in Requests, AcquireLock(r) PROVE Moves(q)
  BY <1>0, <1>4 DEF AcquireLock
<1> HIDE DEF Moves
<1>5. UNCHANGED got => Moves(q)
  BY DEF Moves
<1>6. ASSUME NEW r \in Requests, Proceed(r) PROVE Moves(q)
  BY <1>1, <1>2, <1>3, <1>4, <1>5, <1>6 DEF Proceed, Begin, DeadlockVictim, Decide,
     RejectReusedKey, Replay, RejectUnavailable, RejectUnpriced, AcceptLines, Reserve, ReserveLine,
     RejectInsufficient, WriteConflict, Overflow, Insert, Commit, DuplicateKey, Respond
<1>7. ASSUME NEW r \in Requests, Fault(r) \/ Refuse(r) \/ Start(r) PROVE Moves(q)
  BY <1>2, <1>3, <1>5, <1>7 DEF Fault, SerializationFailure, TransactionTimeout,
     InvalidationFailure, Refuse, Start
<1>8. Crash => Moves(q)
  BY DEF Crash, Moves
<1>9. UNCHANGED vars => Moves(q)
  BY <1>5 DEF vars, request
<1>10. Moves(q)
  BY <1>6, <1>7, <1>8, <1>9 DEF Next, AllFinished
<1> QED
  BY <1>10 DEF Moves

\* The order in which locks are taken is an invariant of what is held.
LEMMA LockOrderStep == CoreInv /\ LocksInOrder /\ [Next]_vars => LocksInOrder'
<1> SUFFICES ASSUME CoreInv, LocksInOrder, [Next]_vars, NEW r \in Requests
             PROVE  LocksInOrder!(r)'
  BY DEF LocksInOrder
<1>1. CASE got'[r] = got[r] \/ got'[r] = {}
  BY <1>1 DEF LocksInOrder, LockNames
<1>2. ASSUME NEW name \in LockNames(r), IsNextLock(r, name), got'[r] = got[r] \union {name}
      PROVE  LocksInOrder!(r)'
  <2>1. got[r] \subseteq LockNames(r) /\ (got[r] # {} => KeyOf[r] \in got[r])
    BY DEF LocksInOrder
  <2>2. CASE KeyOf[r] \notin got[r]
    BY <1>2, <2>1, <2>2, LockNamesType DEF IsNextLock, LockNames
  <2>3. CASE KeyOf[r] \in got[r]
    <3>1. \A n \in LockNames(r) \ got'[r] : name < n
      BY <1>2, <2>1, <2>3, LockNamesType DEF IsNextLock
    <3>2. \A m \in got[r] \ {KeyOf[r]}, n \in LockNames(r) \ got[r] : m < n
      BY DEF LocksInOrder
    <3> QED
      BY <1>2, <2>1, <2>3, <3>1, <3>2 DEF LockNames
  <2> QED
    BY <2>2, <2>3
<1> QED
  BY <1>1, <1>2, LockSteps

\* In a cycle, somebody waits for the holder that waits for the smallest product:
\* for a smaller one, then, since its holder took the smaller ones first.
LEMMA OrderedLocksDoNotCycle ==
    ASSUME HashSeparates, CoreInv, LocksInOrder
    PROVE  NoLockCycle
<1> SUFFICES ASSUME NEW S \in SUBSET Requests, S # {},
                    \A s \in S : /\ \E t \in S : WaitsFor(s, t)
                                 /\ \E t \in S : WaitsFor(t, s)
             PROVE  FALSE
  BY DEF NoLockCycle, InLockCycle
<1>1. \A s, t \in S : WaitsFor(s, t) => \E name \in got[t] : IsNextLock(s, name)
  <2> SUFFICES ASSUME NEW s \in S, NEW t \in S, NEW name \in LockNames(s),
                      IsNextLock(s, name), Holds(t, LockId[name])
               PROVE  name \in got[t]
    BY DEF WaitsFor
  <2>1. PICK m \in got[t] : LockId[m] = LockId[name]
    BY DEF Holds
  <2>2. m \in Keys \union Products /\ name \in Keys \union Products
    BY LockNamesType DEF CoreInv, TypeOK
  <2> QED
    BY <2>1, <2>2 DEF HashSeparates
<1>2. \A s \in S : KeyOf[s] \in got[s]
  BY <1>1 DEF LocksInOrder
<1>3. \A s \in S : \A name : IsNextLock(s, name) => name \in Nat /\ name \in ProductsOf(s)
  BY <1>2, LockNamesType DEF IsNextLock
<1> DEFINE Awaited == {n \in Nat : \E s \in S : IsNextLock(s, n)}
<1>4. Awaited # {}
  BY <1>1, <1>3
<1>5. PICK least \in Awaited : \A n \in Awaited : least <= n
  <2> HIDE DEF Awaited
  <2>1. Awaited \in SUBSET Nat
    BY DEF Awaited
  <2> QED
    BY <1>4, <2>1, LeastElement
<1>6. PICK s \in S : IsNextLock(s, least)
  OBVIOUS
<1>7. PICK t \in S, name \in got[s] : IsNextLock(t, name)
  BY <1>1
<1>8. name \in Awaited
  BY <1>3, <1>7
<1>9. name # KeyOf[s]
  BY <1>3, <1>7, LockNamesType, RequestAssumption, NameAssumption
     DEF RequestAssumption, NameAssumption
<1>10. name < least
  BY <1>6, <1>9 DEF LocksInOrder, IsNextLock
<1> QED
  BY <1>5, <1>8, <1>10

\* Every request holds and takes its locks in the one order.
THEOREM LocksOrdered == Spec => []LocksInOrder
<1>1. Init => LocksInOrder
  BY DEF Init, LocksInOrder
<1>2. IInv => CoreInv
  BY DEF IInv
<1> QED
  BY <1>1, <1>2, Invariance, LockOrderStep, PTL DEF Spec

\* Checkouts never wait for each other in a cycle, if no two lock names have the
\* same number.
THEOREM NoDeadlock == ASSUME HashSeparates PROVE Spec => []NoLockCycle
<1>1. IInv /\ LocksInOrder => NoLockCycle
  BY OrderedLocksDoNotCycle DEF IInv
<1> QED
  BY <1>1, Invariance, LocksOrdered, PTL

-----------------------------------------------------------------------------
(* Retries *)

USE DEF InTransaction

\* The orders are finitely many, and a snapshot shows some of them.
LEMMA SeenAreOrders ==
    ASSUME AttemptsAreCounted, NEW r \in Requests
    PROVE  /\ Cardinality(orders) \in Nat /\ Cardinality(SeenOrders(r)) \in Nat
           /\ Cardinality(SeenOrders(r)) <= Cardinality(orders)
           /\ SeenOrders(r) # orders => Cardinality(SeenOrders(r)) < Cardinality(orders)
<1>1. IsFiniteSet(orders)
  BY DEF AttemptsAreCounted
<1>2. SeenOrders(r) \in SUBSET orders
  BY DEF SeenOrders
<1>3. /\ IsFiniteSet(SeenOrders(r))
      /\ Cardinality(SeenOrders(r)) <= Cardinality(orders)
      /\ Cardinality(orders) = Cardinality(SeenOrders(r)) => orders = SeenOrders(r)
  BY <1>1, <1>2, FS_Subset
<1>4. Cardinality(orders) \in Nat /\ Cardinality(SeenOrders(r)) \in Nat
  BY <1>1, <1>3, FS_CardinalityType
<1> QED
  BY <1>3, <1>4

\* A request that has to retry has not seen every order.
LEMMA ConflictMeansUnseen ==
    ASSUME DeskInv, AttemptsAreCounted, NEW r \in Requests,
           WriteConflict(r) \/ SerializationFailure(r) \/ DuplicateKey(r)
    PROVE  InTransaction(r) /\ SeenOrders(r) # orders
<1>1. InTransaction(r)
  BY DEF WriteConflict, SerializationFailure, DuplicateKey, ReadyToInsert, InTransaction
<1>2. snap[r].inv # inv \/ snap[r].idem # idem
  <2>1. CASE WriteConflict(r)
    BY <2>1 DEF WriteConflict, RowUnchanged
  <2>2. CASE SerializationFailure(r)
    BY <2>2 DEF SerializationFailure
  <2>3. CASE DuplicateKey(r)
    <3>1. idem[KeyOf[r]] # None /\ pc[r] = "reserving"
      BY <2>3 DEF DuplicateKey, KeyIsFree, ReadyToInsert
    <3>2. snap[r].idem[KeyOf[r]] = None
      BY <3>1 DEF DeskInv, ChecksPassed, Existing
    <3> QED
      BY <3>1, <3>2
  <2> QED
    BY <2>1, <2>2, <2>3
<1> QED
  BY <1>1, <1>2 DEF AttemptsAreCounted

\* A step that neither writes nor retries.
LEMMA QuietRetries ==
    ASSUME AttemptsAreCounted, RetriesNeedCommits, UNCHANGED <<store, attempt>>,
           \A q \in Requests : InTransaction(q)' => InTransaction(q) /\ snap'[q] = snap[q],
           \A q \in Requests : result'[q].cause = "write_conflict" =>
                                 result[q].cause = "write_conflict"
    PROVE  AttemptsAreCounted' /\ RetriesNeedCommits'
<1>1. \A q \in Requests : InTransaction(q)' => SeenOrders(q)' = SeenOrders(q)
  BY DEF SeenOrders, store
<1>2. AttemptsAreCounted'
  BY <1>1 DEF AttemptsAreCounted, store
<1> QED
  BY <1>2 DEF RetriesNeedCommits, store

\* A transaction that begins sees every order.
LEMMA BeginRetries ==
    ASSUME DeskInv, AttemptsAreCounted, RetriesNeedCommits, NEW r \in Requests, Begin(r)
    PROVE  AttemptsAreCounted' /\ RetriesNeedCommits'
<1>1. TypeOK /\ OneOrderPerKey /\ UnansweredBeforeCommit
  BY DEF DeskInv, IInv, CoreInv
<1>2. /\ pc[r] = "begin" /\ pc' = [pc EXCEPT ![r] = "locking"]
      /\ snap' = [snap EXCEPT ![r] = [inv |-> inv, active |-> active,
                                     priced |-> priced, idem |-> idem]]
      /\ UNCHANGED <<inv, active, priced, idem, orders, outbox, attempt, result>>
  BY DEF Begin, Goto, store
<1>3. \A o \in orders : idem[KeyOf[o]] # None
  BY <1>1, NoneAssumption DEF OneOrderPerKey, TypeOK, NoneAssumption
<1>4. SeenOrders(r)' = orders /\ snap'[r].inv = inv /\ snap'[r].idem = idem
  BY <1>1, <1>2, <1>3 DEF SeenOrders, TypeOK
<1>5. attempt[r] <= Cardinality(orders)
  <2>1. orders \ {r} = orders
    BY <1>1, <1>2 DEF UnansweredBeforeCommit
  <2> QED
    BY <2>1 DEF RetriesNeedCommits
<1>6. \A q \in Requests \ {r} : InTransaction(q)' =>
        InTransaction(q) /\ SeenOrders(q)' = SeenOrders(q) /\ snap'[q] = snap[q]
  BY <1>1, <1>2 DEF SeenOrders, TypeOK
<1>7. AttemptsAreCounted'
  BY <1>2, <1>4, <1>5, <1>6 DEF AttemptsAreCounted
<1> QED
  BY <1>2, <1>7 DEF RetriesNeedCommits

\* A commit is an order more, that no open snapshot shows.
LEMMA CommitRetries ==
    ASSUME DeskInv, AttemptsAreCounted, RetriesNeedCommits, NEW r \in Requests, Commit(r)
    PROVE  AttemptsAreCounted' /\ RetriesNeedCommits'
<1>1. TypeOK /\ UnansweredBeforeCommit /\ SnapshotsArePast
  BY DEF DeskInv, IInv, CoreInv
<1>2. /\ pc[r] = "reserving" /\ idem[KeyOf[r]] = None
      /\ pc' = [pc EXCEPT ![r] = "invalidating"]
      /\ snap' = [snap EXCEPT ![r] = None]
      /\ orders' = orders \union {r}
      /\ result' = [result EXCEPT ![r] = Response(202, r, "none")]
      /\ UNCHANGED attempt
  BY DEF Commit, ReadyToInsert, KeyIsFree, CloseTransaction, Goto
<1>3. r \notin orders
  BY <1>1, <1>2 DEF UnansweredBeforeCommit
<1>4. IsFiniteSet(orders)
  BY DEF AttemptsAreCounted
<1>5. /\ IsFiniteSet(orders') /\ Cardinality(orders') = Cardinality(orders) + 1
      /\ Cardinality(orders) \in Nat
  BY <1>2, <1>3, <1>4, FS_AddElement, FS_CardinalityType
<1>6. \A q \in Requests : InTransaction(q)' =>
        /\ InTransaction(q) /\ snap'[q] = snap[q]
        /\ SeenOrders(q)' = SeenOrders(q) /\ r \notin SeenOrders(q)
  <2> SUFFICES ASSUME NEW q \in Requests, InTransaction(q)'
               PROVE  /\ InTransaction(q) /\ snap'[q] = snap[q]
                      /\ SeenOrders(q)' = SeenOrders(q) /\ r \notin SeenOrders(q)
    OBVIOUS
  <2>1. InTransaction(q) /\ snap'[q] = snap[q]
    BY <1>1, <1>2 DEF TypeOK
  <2>2. snap[q].idem[KeyOf[r]] = None
    BY <1>1, <1>2, <2>1, LockNamesType DEF SnapshotsArePast
  <2> QED
    BY <1>2, <1>3, <2>1, <2>2 DEF SeenOrders
<1>7. AttemptsAreCounted'
  BY <1>2, <1>5, <1>6 DEF AttemptsAreCounted
<1>8. \A q \in Requests : attempt[q] <= Cardinality(orders' \ {q})
  <2> SUFFICES ASSUME NEW q \in Requests PROVE attempt[q] <= Cardinality(orders' \ {q})
    OBVIOUS
  <2>1. IsFiniteSet(orders' \ {q})
    BY <1>5, FS_Subset
  <2>2. orders \ {q} \in SUBSET (orders' \ {q})
    BY <1>2
  <2>3. Cardinality(orders \ {q}) <= Cardinality(orders' \ {q})
    BY <2>1, <2>2, FS_Subset
  <2>4. Cardinality(orders \ {q}) \in Nat /\ Cardinality(orders' \ {q}) \in Nat
    BY <1>4, <2>1, FS_Subset, FS_CardinalityType
  <2>5. attempt[q] <= Cardinality(orders \ {q}) /\ attempt[q] \in Nat
    BY <1>1, RetryAssumption DEF RetriesNeedCommits, TypeOK, RetryAssumption
  <2> QED
    BY <2>3, <2>4, <2>5
<1>9. \A q \in Requests : result'[q].cause = "write_conflict" =>
        result[q].cause = "write_conflict"
  BY <1>1, <1>2 DEF TypeOK, Response
<1>10. \A q \in Requests : result'[q].cause = "write_conflict" =>
         Cardinality(orders') >= MaxAttempts
  <2>1. Cardinality(orders) >= MaxAttempts => Cardinality(orders') >= MaxAttempts
    BY <1>5, RetryAssumption DEF RetryAssumption
  <2> QED
    BY <1>9, <2>1 DEF RetriesNeedCommits
<1> QED
  BY <1>2, <1>7, <1>8, <1>10 DEF RetriesNeedCommits

\* A retry is paid for by an order the snapshot did not show; and the last attempt
\* was preceded by one for each of the others.
LEMMA RetryRetries ==
    ASSUME DeskInv, AttemptsAreCounted, RetriesNeedCommits, NEW r \in Requests,
           InTransaction(r), SeenOrders(r) # orders, RetryOrGiveUp(r, "write_conflict")
    PROVE  AttemptsAreCounted' /\ RetriesNeedCommits'
<1>1. TypeOK /\ UnansweredBeforeCommit
  BY DEF DeskInv, IInv, CoreInv
<1>2. attempt[r] \in 0 .. MaxAttempts - 1 /\ MaxAttempts \in Nat \ {0}
  BY <1>1, RetryAssumption DEF TypeOK, RetryAssumption
<1>3. attempt[r] + 1 <= Cardinality(orders) /\ Cardinality(orders) \in Nat
  BY <1>2, SeenAreOrders DEF AttemptsAreCounted
<1>4. CASE /\ attempt' = [attempt EXCEPT ![r] = @ + 1]
           /\ CloseTransaction(r) /\ Goto(r, "begin") /\ UNCHANGED <<store, result>>
  <2>1. \A q \in Requests : InTransaction(q)' =>
          q # r /\ InTransaction(q) /\ snap'[q] = snap[q]
    BY <1>1, <1>4 DEF CloseTransaction, Goto, TypeOK
  <2>2. orders \ {r} = orders
    BY <1>1 DEF UnansweredBeforeCommit
  <2>3. \A q \in Requests : InTransaction(q)' => SeenOrders(q)' = SeenOrders(q)
                                                  /\ attempt'[q] = attempt[q]
    BY <1>1, <1>4, <2>1 DEF SeenOrders, store, TypeOK
  <2>4. AttemptsAreCounted'
    BY <1>4, <2>1, <2>3 DEF AttemptsAreCounted, store
  <2>5. attempt'[r] <= Cardinality(orders \ {r})
    BY <1>1, <1>3, <1>4, <2>2 DEF TypeOK
  <2>6. \A q \in Requests \ {r} : attempt'[q] = attempt[q]
    BY <1>1, <1>4 DEF TypeOK
  <2> QED
    BY <1>4, <2>4, <2>5, <2>6 DEF RetriesNeedCommits, store
<1>5. CASE ~MayRetry(r) /\ Abort(r, 500, "write_conflict")
  <2>1. Cardinality(orders) >= MaxAttempts
    BY <1>2, <1>3, <1>5 DEF MayRetry
  <2>2. /\ UNCHANGED <<store, attempt>>
        /\ \A q \in Requests : InTransaction(q)' => InTransaction(q) /\ snap'[q] = snap[q]
    BY <1>1, <1>5 DEF Abort, CloseTransaction, Answer, Goto, TypeOK
  <2>3. \A q \in Requests : InTransaction(q)' => SeenOrders(q)' = SeenOrders(q)
    BY <2>2 DEF SeenOrders, store
  <2>4. AttemptsAreCounted'
    BY <2>2, <2>3 DEF AttemptsAreCounted, store
  <2> QED
    BY <2>1, <2>2, <2>4 DEF RetriesNeedCommits, store
<1> QED
  BY <1>4, <1>5 DEF RetryOrGiveUp

\* A rollback for another reason neither writes nor retries.
LEMMA AbortIsQuiet ==
    ASSUME TypeOK, NEW r \in Requests, NEW status, NEW cause, cause # "write_conflict",
           Abort(r, status, cause)
    PROVE  /\ UNCHANGED <<store, attempt>>
           /\ \A q \in Requests : InTransaction(q)' => InTransaction(q) /\ snap'[q] = snap[q]
           /\ \A q \in Requests : result'[q].cause = "write_conflict" =>
                                    result[q].cause = "write_conflict"
<1>1. UNCHANGED <<store, attempt>>
  BY DEF Abort
<1>2. \A q \in Requests : InTransaction(q)' => InTransaction(q) /\ snap'[q] = snap[q]
  BY DEF Abort, CloseTransaction, Answer, Goto, TypeOK
<1>3. \A q \in Requests : result'[q].cause = "write_conflict" =>
                            result[q].cause = "write_conflict"
  BY DEF Abort, Answer, Response, TypeOK
<1> QED
  BY <1>1, <1>2, <1>3

\* Only commits and conflicts move the count.
LEMMA RetryStep ==
    ASSUME DeskInv, NoLockCycle, AttemptsAreCounted, RetriesNeedCommits, [Next]_vars
    PROVE  AttemptsAreCounted' /\ RetriesNeedCommits'
<1> DEFINE Counted == AttemptsAreCounted' /\ RetriesNeedCommits'
<1>1. TypeOK
  BY DEF DeskInv, IInv, CoreInv
<1>2. ASSUME NEW r \in Requests, NEW status, NEW cause, cause # "write_conflict",
             Abort(r, status, cause)
      PROVE  Counted
  BY <1>1, <1>2, AbortIsQuiet, QuietRetries
<1>3. ASSUME NEW r \in Requests, Proceed(r) PROVE Counted
  <2>1. CASE Begin(r)
    BY <2>1, BeginRetries
  <2>2. CASE AcquireLock(r) \/ AcceptLines(r) \/ ReserveLine(r) \/ Respond(r)
    <3>1. UNCHANGED <<store, attempt, snap, result>>
      BY <2>2 DEF AcquireLock, AcceptLines, ReserveLine, Respond
    <3>2. \A q \in Requests : InTransaction(q)' => InTransaction(q)
      BY <1>1, <2>2 DEF AcquireLock, AcceptLines, ReserveLine, Respond, Goto, TypeOK
    <3> QED
      BY <3>1, <3>2, QuietRetries
  <2>3. CASE DeadlockVictim(r)
    BY <2>3 DEF DeadlockVictim, NoLockCycle
  <2>4. CASE \/ RejectReusedKey(r) \/ RejectUnavailable(r) \/ RejectUnpriced(r)
             \/ RejectInsufficient(r) \/ Overflow(r)
    BY <1>2, <2>4 DEF RejectReusedKey, RejectUnavailable, RejectUnpriced, RejectInsufficient,
       Overflow
  <2>5. CASE Replay(r)
    <3>1. UNCHANGED <<store, attempt>>
      BY <2>5 DEF Replay
    <3>2. \A q \in Requests : InTransaction(q)' => InTransaction(q) /\ snap'[q] = snap[q]
      BY <1>1, <2>5 DEF Replay, CloseTransaction, Goto, TypeOK
    <3>3. \A q \in Requests : result'[q].cause = "write_conflict" =>
                                result[q].cause = "write_conflict"
      BY <1>1, <2>5 DEF Replay, Response, TypeOK
    <3> QED
      BY <3>1, <3>2, <3>3, QuietRetries
  <2>6. CASE WriteConflict(r)
    BY <2>6, ConflictMeansUnseen, RetryRetries DEF WriteConflict
  <2>7. CASE Commit(r)
    BY <2>7, CommitRetries
  <2>8. CASE DuplicateKey(r)
    BY <1>2, <2>8, ConflictMeansUnseen, RetryRetries DEF DuplicateKey
  <2> QED
    BY <1>3, <2>1, <2>2, <2>3, <2>4, <2>5, <2>6, <2>7, <2>8
       DEF Proceed, Decide, Reserve, Insert
<1>4. ASSUME NEW r \in Requests, Fault(r) PROVE Counted
  <2>1. CASE SerializationFailure(r)
    BY <2>1, ConflictMeansUnseen, RetryRetries DEF SerializationFailure
  <2>2. CASE TransactionTimeout(r)
    BY <1>2, <2>2 DEF TransactionTimeout
  <2>3. CASE InvalidationFailure(r)
    <3>1. UNCHANGED <<store, attempt, snap>>
      BY <2>3 DEF InvalidationFailure
    <3>2. \A q \in Requests : InTransaction(q)' => InTransaction(q)
      BY <1>1, <2>3 DEF InvalidationFailure, Answer, Goto, TypeOK
    <3>3. \A q \in Requests : result'[q].cause = "write_conflict" =>
                                result[q].cause = "write_conflict"
      BY <1>1, <2>3 DEF InvalidationFailure, Answer, Response, TypeOK
    <3> QED
      BY <3>1, <3>2, <3>3, QuietRetries
  <2> QED
    BY <1>4, <2>1, <2>2, <2>3 DEF Fault
<1>5. ASSUME NEW r \in Requests, Refuse(r) \/ Start(r) PROVE Counted
  <2>1. UNCHANGED <<store, attempt, snap>>
    BY <1>5 DEF Refuse, Start
  <2>2. \A q \in Requests : InTransaction(q)' => InTransaction(q)
    BY <1>1, <1>5 DEF Refuse, Start, Answer, Goto, TypeOK
  <2>3. \A q \in Requests : result'[q].cause = "write_conflict" =>
                              result[q].cause = "write_conflict"
    BY <1>1, <1>5 DEF Refuse, Start, Answer, Response, TypeOK
  <2> QED
    BY <2>1, <2>2, <2>3, QuietRetries
<1>6. CASE Crash
  <2>1. UNCHANGED <<store, attempt>> /\ \A q \in Requests : ~InTransaction(q)'
    BY <1>6 DEF Crash, InFlight
  <2>2. \A q \in Requests : result'[q].cause = "write_conflict" =>
                              result[q].cause = "write_conflict"
    BY <1>6 DEF Crash, NoResult, Response
  <2> QED
    BY <2>1, <2>2, QuietRetries
<1>7. CASE UNCHANGED vars
  BY <1>7, QuietRetries DEF vars, request
<1> QED
  BY <1>3, <1>4, <1>5, <1>6, <1>7 DEF Next, AllFinished

\* Locks are taken in order and attempts are counted, if no two lock names have the
\* same number.
THEOREM LockInvariance == ASSUME HashSeparates PROVE Spec => []LockInv
<1>1. Init => AttemptsAreCounted /\ RetriesNeedCommits
  BY FS_EmptySet, RetryAssumption DEF Init, AttemptsAreCounted, RetriesNeedCommits, NoResult,
     Response, RetryAssumption
<1> QED
  BY <1>1, DeskInvariance, NoDeadlock, LocksOrdered, RetryStep, PTL DEF Spec, LockInv

\* An attempt is only ever lost to somebody else's order, if no two lock names have
\* the same number: whoever gives up has seen MaxAttempts others buy.
THEOREM RetriesEarned == ASSUME HashSeparates PROVE Spec => []RetriesNeedCommits
BY LockInvariance, PTL DEF LockInv

\* The inductive invariants of the checkout hold together.
THEOREM ProofInvariance == Spec => []ProofInvariants
<1>1. CASE HashSeparates
  <2>1. ProofInvariants <=> DeskInv /\ LockInv
    BY <1>1 DEF ProofInvariants
  <2>2. Spec => []LockInv
    BY <1>1, LockInvariance
  <2> QED
    BY <2>1, <2>2, DeskInvariance, PTL
<1>2. CASE ~HashSeparates
  <2>1. ProofInvariants <=> DeskInv
    BY <1>2 DEF ProofInvariants
  <2> QED
    BY <2>1, DeskInvariance, PTL
<1> QED
  BY <1>1, <1>2
=============================================================================
