--------------------------- MODULE TelemetryProofs ---------------------------
(* What a call reports, for every set of requests, keys and products. *)
EXTENDS Telemetry, CheckoutProofs

\* A step of one call that reports something, or takes it back.
Step(r) == StartReported(r) \/ RecordIdempotencyDuplicate(r) \/ RejectReported(r)
           \/ CreateOrder(r) \/ RecordCheckoutAccepted(r) \/ CommitReported(r)
           \/ Silent(r) \/ RolledBack(r)

\* What is reported beside the checkout does not change what the checkout does.
LEMMA ReportingIsCheckout == [TelemetryNext]_telemetryVars => [Next]_vars
<1>1. ASSUME NEW r \in Requests, Step(r) PROVE [Next]_vars
  <2>1. CASE StartReported(r) \/ RejectReported(r) \/ CommitReported(r)
    BY <2>1 DEF StartReported, RejectReported, CommitReported, Next, Proceed, Decide,
       Reserve, Insert
  <2>2. CASE RecordIdempotencyDuplicate(r) \/ CreateOrder(r) \/ RecordCheckoutAccepted(r)
    BY <2>2 DEF RecordIdempotencyDuplicate, CreateOrder, RecordCheckoutAccepted
  <2>3. CASE Silent(r)
    BY <2>3 DEF Silent, Next, Proceed, Fault, Decide, Reserve, Insert
  <2>4. CASE RolledBack(r)
    BY <2>4 DEF RolledBack, Next, Fault
  <2> QED
    BY <1>1, <2>1, <2>2, <2>3, <2>4 DEF Step
<1>2. CrashReported \/ AllFinished => [Next]_vars
  BY DEF CrashReported, Next
<1>3. UNCHANGED telemetryVars => UNCHANGED vars
  BY DEF telemetryVars
<1> QED
  BY <1>1, <1>2, <1>3 DEF TelemetryNext, Step

\* A step of one call leaves the other calls and their reports alone, and an order
\* keeps the number of the attempt that made it.
LEMMA OthersKeep ==
    ASSUME TelemetryInv, NEW r \in Requests, Step(r)
    PROVE  /\ \A q \in Requests \ {r} :
                /\ pc'[q] = pc[q] /\ attempt'[q] = attempt[q] /\ snap'[q] = snap[q]
                /\ reserved'[q] = reserved[q] /\ result'[q] = result[q]
                /\ outcome'[q] = outcome[q] /\ context'[q] = context[q]
                /\ stage'[q] = stage[q]
           /\ \A o \in orders : attempt'[o] = attempt[o]
           /\ UNCHANGED store \/ Commit(r)
<1> DEFINE Kept == /\ \A q \in Requests \ {r} :
                        /\ pc'[q] = pc[q] /\ attempt'[q] = attempt[q]
                        /\ snap'[q] = snap[q] /\ reserved'[q] = reserved[q]
                        /\ result'[q] = result[q]
                   /\ \A o \in orders : attempt'[o] = attempt[o]
                   /\ UNCHANGED store \/ Commit(r)
<1> USE DEF TelemetryInv, CoreInv
<1>0. TypeOK /\ (InTransaction(r) => r \notin orders)
  BY DEF UnansweredBeforeCommit
<1>1. ASSUME NEW status, NEW cause, Abort(r, status, cause) PROVE Kept
  BY <1>0, <1>1 DEF Abort, CloseTransaction, Answer, Goto, TypeOK
<1>2. ASSUME NEW cause, InTransaction(r), RetryOrGiveUp(r, cause) PROVE Kept
  <2>1. CASE Abort(r, 500, cause)
    BY <1>1, <2>1
  <2>2. CASE /\ attempt' = [attempt EXCEPT ![r] = @ + 1]
             /\ CloseTransaction(r) /\ Goto(r, "begin") /\ UNCHANGED <<store, result>>
    BY <1>0, <1>2, <2>2 DEF CloseTransaction, Goto, TypeOK
  <2> QED
    BY <1>2, <2>1, <2>2 DEF RetryOrGiveUp
<1>3. Kept
  <2>1. CASE UNCHANGED vars
    BY <2>1 DEF vars, request
  <2>2. CASE Start(r) \/ Refuse(r) \/ Respond(r) \/ InvalidationFailure(r)
    BY <1>0, <2>2 DEF Start, Refuse, Respond, InvalidationFailure, Answer, Goto, TypeOK
  <2>3. CASE Begin(r) \/ AcquireLock(r) \/ AcceptLines(r) \/ ReserveLine(r)
    BY <1>0, <2>3 DEF Begin, AcquireLock, AcceptLines, ReserveLine, Goto, TypeOK
  <2>4. CASE Replay(r)
    BY <1>0, <2>4 DEF Replay, CloseTransaction, Goto, TypeOK
  <2>5. CASE Commit(r)
    BY <1>0, <2>5 DEF Commit, CloseTransaction, Goto, TypeOK
  <2>6. CASE \/ RejectReusedKey(r) \/ RejectUnavailable(r) \/ RejectUnpriced(r)
             \/ RejectInsufficient(r) \/ Overflow(r) \/ TransactionTimeout(r)
    BY <1>1, <2>6 DEF RejectReusedKey, RejectUnavailable, RejectUnpriced, RejectInsufficient,
       Overflow, TransactionTimeout
  <2>7. CASE WriteConflict(r) \/ DuplicateKey(r) \/ SerializationFailure(r)
    BY <1>1, <1>2, <2>7 DEF WriteConflict, DuplicateKey, ReadyToInsert,
       SerializationFailure, InTransaction
  <2>8. CASE DeadlockVictim(r)
    BY <1>1, <1>2, <2>8 DEF DeadlockVictim, InLockCycle, InTransaction
  <2> QED
    BY <2>1, <2>2, <2>3, <2>4, <2>5, <2>6, <2>7, <2>8 DEF Step, StartReported,
       RecordIdempotencyDuplicate, RejectReported, CreateOrder, RecordCheckoutAccepted,
       CommitReported, Silent, RolledBack
<1>4. \A q \in Requests \ {r} : /\ outcome'[q] = outcome[q] /\ context'[q] = context[q]
                                /\ stage'[q] = stage[q]
  BY DEF Step, StartReported, RecordIdempotencyDuplicate, RejectReported, CreateOrder,
     RecordCheckoutAccepted, CommitReported, Silent, RolledBack, SetOutcome, SetOrderId,
     AtStage, telemetry, reports, TelemetryTypeOK
<1> QED
  BY <1>3, <1>4

\* What is true of the reports of the other calls stays true: they keep their
\* snapshots, and no commit takes the key of a transaction that holds its lock.
LEMMA OthersStayTrue ==
    ASSUME TelemetryInv, NEW r \in Requests, Step(r), NEW q \in Requests \ {r}
    PROVE  /\ ReportsAhead!(q)'
           /\ OutcomesHaveReasons!(q)'
           /\ SpansNameTheOrder!(q)'
<1> USE DEF TelemetryInv
<1>1. /\ pc'[q] = pc[q] /\ attempt'[q] = attempt[q] /\ snap'[q] = snap[q]
      /\ reserved'[q] = reserved[q] /\ result'[q] = result[q]
      /\ outcome'[q] = outcome[q] /\ context'[q] = context[q] /\ stage'[q] = stage[q]
      /\ \A o \in orders : attempt'[o] = attempt[o]
  BY OthersKeep
<1>2. KeyIsFree(q) /\ pc[q] = "reserving" => KeyIsFree(q)'
  <2>1. CASE UNCHANGED store
    BY <2>1 DEF KeyIsFree, store
  <2>2. CASE Commit(r) /\ pc[q] = "reserving"
    <3>1. KeyOf[q] \in got[q] /\ KeyOf[r] \in got[r]
      BY <2>2 DEF CoreInv, LockedBeforeUse, LockNames, Commit, ReadyToInsert
    <3>2. KeyOf[q] # KeyOf[r]
      BY <3>1 DEF CoreInv, LocksExclusive
    <3>3. idem'[KeyOf[q]] = idem[KeyOf[q]]
      BY <2>2, <3>2 DEF Commit, CoreInv, TypeOK
    <3> QED
      BY <3>3 DEF KeyIsFree
  <2> QED
    BY <2>1, <2>2, OthersKeep
<1>3. Existing(q)' = Existing(q) /\ (SamePayload(q) => SamePayload(q)')
  BY <1>1 DEF Existing, SamePayload
<1>4. OrderId(q)' = OrderId(q)
  BY <1>1 DEF OrderId
<1>5. ReportsAhead!(q)'
  <2>1. CASE stage[q] # "none" /\ pc[q] = "deciding"
    <3>1. Existing(q) # None /\ SamePayload(q)
          /\ outcome[q] = "idempotent" /\ stage[q] = "reported"
          /\ context[q] = OrderId(Existing(q).orderId)
      BY <2>1 DEF ReportsAhead
    <3>2. Existing(q).orderId \in orders
      BY <2>1, <3>1, ExistingIsOrder DEF InTransaction
    <3>3. OrderId(Existing(q).orderId)' = OrderId(Existing(q).orderId)
      BY <1>1, <1>3, <3>2 DEF OrderId
    <3> QED
      BY <2>1, <3>1, <3>3, <1>1, <1>3
  <2>2. CASE stage[q] # "none" /\ pc[q] = "reserving"
    BY <2>2, <1>1, <1>2, <1>4 DEF ReportsAhead
  <2>3. CASE stage[q] = "none"
    BY <2>3, <1>1
  <2> QED
    BY <2>1, <2>2, <2>3 DEF ReportsAhead
<1>6. OutcomesHaveReasons!(q)'
  BY <1>1 DEF OutcomesHaveReasons, OutcomeIsTruthful, InTransaction
<1>7. SpansNameTheOrder!(q)'
  <2>1. result[q].status \in {200, 202} => result[q].order \in orders
    BY DEF CoreInv, TruthfulAnswers
  <2>2. result[q].status \in {200, 202} =>
          OrderId(result[q].order)' = OrderId(result[q].order)
    BY <1>1, <2>1 DEF OrderId
  <2> QED
    BY <1>1, <2>2 DEF SpansNameTheOrder
<1> QED
  BY <1>5, <1>6, <1>7

\* Once a transaction has created or reported something, only its commit, its
\* rollback from outside and the end of the process are left.
LEMMA OnlyTheCommitIsLeft ==
    ASSUME TelemetryInv, NEW r \in Requests, RejectReported(r) \/ Silent(r)
    PROVE  stage[r] = "none"
<1> SUFFICES ASSUME stage[r] # "none" PROVE FALSE
  OBVIOUS
<1> USE DEF TelemetryInv
<1>1. \/ pc[r] = "deciding" /\ Existing(r) # None /\ SamePayload(r)
      \/ /\ pc[r] = "reserving" /\ reserved[r] = ProductsOf(r)
         /\ Storable(Total(r)) /\ KeyIsFree(r)
  BY DEF ReportsAhead
<1>2. pc[r] = "reserving" => \A p : ~IsNextLine(r, p)
  BY <1>1 DEF IsNextLine
<1>3. ~RejectReported(r)
  BY <1>1, <1>2 DEF RejectReported, RejectUnavailable, RejectInsufficient
<1>4. ~(Refuse(r) \/ Begin(r) \/ AcquireLock(r) \/ DeadlockVictim(r) \/ Respond(r)
        \/ InvalidationFailure(r))
  BY <1>1 DEF Refuse, Begin, AcquireLock, DeadlockVictim, InLockCycle, Respond,
     InvalidationFailure
<1>5. ~(RejectReusedKey(r) \/ RejectUnpriced(r) \/ AcceptLines(r))
  BY <1>1 DEF RejectReusedKey, RejectUnpriced, AcceptLines
<1>6. ~(ReserveLine(r) \/ WriteConflict(r) \/ DuplicateKey(r) \/ Overflow(r))
  BY <1>1, <1>2 DEF ReserveLine, WriteConflict, DuplicateKey, Overflow, ReadyToInsert
<1> QED
  BY <1>3, <1>4, <1>5, <1>6 DEF Silent

\* What the invariant asks of the reports of one call.
Own(r) == /\ ReportsAhead!(r)
          /\ OutcomesHaveReasons!(r)
          /\ SpansNameTheOrder!(r)

\* An answer that sells nothing, after a transaction that has reported nothing or
\* was rolled back for a reason.
LEMMA AbortOwn ==
    ASSUME TelemetryInv, NEW r \in Requests, pc[r] = "begin" \/ InTransaction(r),
           NEW status \in {409, 422, 500}, NEW cause, Abort(r, status, cause),
           stage[r] # "reported" \/ cause = "timeout" \/ attempt[r] > 0,
           UNCHANGED <<outcome, context>>, stage'[r] = "none"
    PROVE  Own(r)'
<1>1. /\ pc'[r] = "done" /\ result'[r] = Response(status, None, cause)
      /\ attempt'[r] = attempt[r]
  BY DEF TelemetryInv, CoreInv, TypeOK, Abort, Answer, Goto
<1>2. outcome[r] = "error" \/ attempt[r] > 0 \/ cause = "timeout"
  BY DEF TelemetryInv, OutcomesHaveReasons
<1>3. result'[r].status = status /\ result'[r].cause = cause
  BY <1>1 DEF Response
<1>4. OutcomeIsTruthful(r)'
  BY <1>1, <1>2, <1>3 DEF OutcomeIsTruthful
<1>5. SpansNameTheOrder!(r)'
  BY <1>3 DEF TelemetryInv, SpansNameTheOrder
<1> QED
  BY <1>1, <1>4, <1>5 DEF Own, InTransaction

\* The next attempt may report again.
LEMMA RetryOwn ==
    ASSUME TelemetryInv, NEW r \in Requests, InTransaction(r),
           NEW cause \in {"write_conflict", "deadlock"}, RetryOrGiveUp(r, cause),
           stage[r] # "reported" \/ cause = "write_conflict",
           UNCHANGED <<outcome, context>>, stage'[r] = "none"
    PROVE  Own(r)'
<1> USE DEF TelemetryInv
<1>0. attempt[r] \in Nat /\ result[r] = NoResult
  BY DEF CoreInv, TypeOK, UnansweredBeforeCommit
<1>1. CASE /\ attempt' = [attempt EXCEPT ![r] = @ + 1]
           /\ Goto(r, "begin") /\ UNCHANGED result
  <2>1. pc'[r] = "begin" /\ attempt'[r] > 0
    BY <1>0, <1>1 DEF CoreInv, TypeOK, Goto
  <2>2. SpansNameTheOrder!(r)'
    BY <1>0, <1>1 DEF SpansNameTheOrder, NoResult, Response
  <2> QED
    BY <2>1, <2>2 DEF Own, InTransaction
<1>2. CASE Abort(r, 500, cause)
  <2>1. /\ pc'[r] = "done" /\ result'[r] = Response(500, None, cause)
        /\ attempt'[r] = attempt[r]
    BY <1>2 DEF CoreInv, TypeOK, Abort, Answer, Goto
  <2>2. result'[r].status = 500 /\ result'[r].cause = cause
    BY <2>1 DEF Response
  <2>3. outcome[r] = "error" \/ attempt[r] > 0 \/ cause = "write_conflict"
    BY DEF OutcomesHaveReasons
  <2>4. OutcomeIsTruthful(r)'
    BY <2>1, <2>2, <2>3 DEF OutcomeIsTruthful
  <2>5. SpansNameTheOrder!(r)'
    BY <2>2 DEF SpansNameTheOrder
  <2> QED
    BY <2>1, <2>4, <2>5 DEF Own, InTransaction
<1> QED
  BY <1>1, <1>2 DEF RetryOrGiveUp

\* A replay reports the order its snapshot shows.
LEMMA DuplicateOwn ==
    ASSUME TelemetryInv, NEW r \in Requests, RecordIdempotencyDuplicate(r)
    PROVE  Own(r)'
<1> USE DEF TelemetryInv
<1>1. /\ pc[r] = "deciding" /\ Existing(r) # None /\ SamePayload(r)
      /\ outcome'[r] = "idempotent" /\ stage'[r] = "reported"
      /\ context'[r] = OrderId(Existing(r).orderId)
      /\ UNCHANGED vars
  BY DEF RecordIdempotencyDuplicate, SetOutcome, SetOrderId, AtStage, TelemetryTypeOK
<1>2. pc'[r] = "deciding" /\ Existing(r)' = Existing(r) /\ SamePayload(r)'
      /\ OrderId(Existing(r).orderId)' = OrderId(Existing(r).orderId)
  BY <1>1 DEF vars, request, Existing, SamePayload, OrderId
<1>3. KeyOf[context'[r][1]] = KeyOf[r]
  <2>1. context'[r][1] = Existing(r).orderId
    BY <1>1 DEF OrderId
  <2> QED
    BY <1>1, <2>1, ExistingIsOrder DEF InTransaction
<1>4. result'[r] = NoResult
  BY <1>1 DEF CoreInv, UnansweredBeforeCommit, InTransaction, vars, request
<1>5. ReportsAhead!(r)'
  BY <1>1, <1>2
<1>6. OutcomesHaveReasons!(r)'
  BY <1>1, <1>2 DEF InTransaction
<1>7. SpansNameTheOrder!(r)'
  BY <1>3, <1>4 DEF NoResult, Response
<1> QED
  BY <1>5, <1>6, <1>7 DEF Own

\* An order that is created is named before it is committed.
LEMMA CreateOwn ==
    ASSUME TelemetryInv, NEW r \in Requests, CreateOrder(r)
    PROVE  Own(r)'
<1> USE DEF TelemetryInv
<1>1. /\ pc[r] = "reserving" /\ reserved[r] = ProductsOf(r)
      /\ Storable(Total(r)) /\ KeyIsFree(r)
      /\ stage[r] = "none" /\ stage'[r] = "created"
      /\ context'[r] = OrderId(r)
      /\ UNCHANGED <<vars, outcome>>
  BY DEF CreateOrder, ReadyToInsert, SetOrderId, AtStage, TelemetryTypeOK
<1>2. /\ pc'[r] = "reserving" /\ reserved'[r] = ProductsOf(r) /\ KeyIsFree(r)'
      /\ OrderId(r)' = OrderId(r) /\ attempt'[r] = attempt[r]
      /\ result'[r] = NoResult
  BY <1>1 DEF vars, store, request, KeyIsFree, OrderId, CoreInv, UnansweredBeforeCommit,
     InTransaction
<1>3. ReportsAhead!(r)'
  BY <1>1, <1>2
<1>4. OutcomesHaveReasons!(r)'
  BY <1>1, <1>2 DEF OutcomesHaveReasons, InTransaction
<1>5. SpansNameTheOrder!(r)'
  BY <1>1, <1>2 DEF NoResult, Response, OrderId
<1> QED
  BY <1>3, <1>4, <1>5 DEF Own

\* Only a transaction that has created its order reports it.
LEMMA AcceptedOwn ==
    ASSUME TelemetryInv, NEW r \in Requests, RecordCheckoutAccepted(r)
    PROVE  Own(r)'
<1> USE DEF TelemetryInv
<1>1. /\ stage[r] = "created" /\ stage'[r] = "reported"
      /\ outcome'[r] = "accepted"
      /\ UNCHANGED <<vars, context>>
  BY DEF RecordCheckoutAccepted, SetOutcome, AtStage, TelemetryTypeOK
<1>2. /\ pc[r] = "reserving" /\ reserved[r] = ProductsOf(r)
      /\ Storable(Total(r)) /\ KeyIsFree(r) /\ context[r] = OrderId(r)
  BY <1>1 DEF ReportsAhead
<1>3. /\ pc'[r] = "reserving" /\ reserved'[r] = ProductsOf(r) /\ KeyIsFree(r)'
      /\ OrderId(r)' = OrderId(r) /\ result'[r] = result[r]
  BY <1>1, <1>2 DEF vars, store, request, KeyIsFree, OrderId
<1>4. ReportsAhead!(r)'
  BY <1>1, <1>2, <1>3
<1>5. OutcomesHaveReasons!(r)'
  BY <1>1, <1>3 DEF InTransaction
<1>6. SpansNameTheOrder!(r)'
  <2>1. result[r] = NoResult
    BY <1>2 DEF CoreInv, UnansweredBeforeCommit, InTransaction
  <2> QED
    BY <1>1, <1>2, <1>3, <2>1 DEF NoResult, Response, OrderId
<1> QED
  BY <1>4, <1>5, <1>6 DEF Own

\* The commit answers what has been reported.
LEMMA CommitOwn ==
    ASSUME TelemetryInv, NEW r \in Requests, CommitReported(r)
    PROVE  Own(r)'
<1> USE DEF TelemetryInv
<1>1. /\ stage[r] = "reported" /\ stage'[r] = "none"
      /\ UNCHANGED <<outcome, context>>
  BY DEF CommitReported, AtStage, TelemetryTypeOK
<1>2. CASE Replay(r)
  <2>1. /\ outcome[r] = "idempotent" /\ context[r] = OrderId(Existing(r).orderId)
        /\ Existing(r).orderId \in orders
        /\ KeyOf[Existing(r).orderId] = KeyOf[r]
    BY <1>1, <1>2, ExistingIsOrder DEF ReportsAhead, Replay, InTransaction
  <2>2. /\ pc'[r] = "invalidating" /\ UNCHANGED attempt
        /\ result'[r] = Response(200, Existing(r).orderId, "none")
    BY <1>2 DEF Replay, Goto, CoreInv, TypeOK
  <2>3. result'[r].status = 200 /\ result'[r].order = Existing(r).orderId
    BY <2>2 DEF Response
  <2>4. OutcomeIsTruthful(r)'
    BY <1>1, <2>1, <2>3 DEF OutcomeIsTruthful
  <2>5. SpansNameTheOrder!(r)'
    BY <1>1, <2>1, <2>2, <2>3 DEF OrderId
  <2> QED
    BY <1>1, <2>2, <2>4, <2>5 DEF Own, InTransaction
<1>3. CASE Commit(r)
  <2>1. outcome[r] = "accepted" /\ context[r] = OrderId(r)
    BY <1>1, <1>3 DEF ReportsAhead, Commit, ReadyToInsert
  <2>2. /\ pc'[r] = "invalidating" /\ UNCHANGED attempt
        /\ result'[r] = Response(202, r, "none")
    BY <1>3 DEF Commit, Goto, CoreInv, TypeOK
  <2>3. result'[r].status = 202 /\ result'[r].order = r
    BY <2>2 DEF Response
  <2>4. OutcomeIsTruthful(r)'
    BY <1>1, <2>1, <2>3 DEF OutcomeIsTruthful
  <2>5. SpansNameTheOrder!(r)'
    BY <1>1, <2>1, <2>2, <2>3 DEF OrderId
  <2> QED
    BY <1>1, <2>2, <2>4, <2>5 DEF Own, InTransaction
<1> QED
  BY <1>2, <1>3 DEF CommitReported

\* A step that reports nothing is taken before anything is reported, or after the
\* transaction.
LEMMA SilentOwn ==
    ASSUME TelemetryInv, NEW r \in Requests,
           StartReported(r) \/ RejectReported(r) \/ Silent(r)
    PROVE  Own(r)'
<1> USE DEF TelemetryInv
<1>1. UNCHANGED <<outcome, context, stage>>
  BY DEF StartReported, RejectReported, Silent, telemetry, reports
<1>2. stage[r] = "none"
  BY OnlyTheCommitIsLeft DEF StartReported, Start, TelemetryTypeOK
<1>3. stage'[r] = "none" /\ TypeOK
  BY <1>1, <1>2 DEF CoreInv
<1>4. pc[r] \in {"idle", "begin"} \/ InTransaction(r) => result[r] = NoResult
  BY DEF CoreInv, UnansweredBeforeCommit
<1>5. CASE Start(r) \/ Begin(r) \/ AcquireLock(r) \/ AcceptLines(r) \/ ReserveLine(r)
  <2>1. UNCHANGED <<attempt, result>> /\ pc'[r] \in {"begin", "locking", "deciding", "reserving"}
        /\ (pc[r] \in {"idle", "begin"} \/ InTransaction(r))
    BY <1>3, <1>5 DEF Start, Begin, AcquireLock, AcceptLines, ReserveLine, Goto, TypeOK,
       InTransaction
  <2>2. OutcomesHaveReasons!(r)'
    BY <1>1, <1>2, <2>1 DEF OutcomesHaveReasons, InTransaction
  <2>3. SpansNameTheOrder!(r)'
    BY <1>1, <1>4, <2>1 DEF SpansNameTheOrder, NoResult, Response
  <2> QED
    BY <1>3, <2>2, <2>3 DEF Own
<1>6. CASE Refuse(r)
  <2>1. outcome[r] = "error" /\ pc'[r] = "done" /\ result'[r] = Response(400, None, "invalid")
    BY <1>3, <1>6 DEF OutcomesHaveReasons, Refuse, Answer, Goto, TypeOK
  <2>2. result'[r].status = 400
    BY <2>1 DEF Response
  <2>3. SpansNameTheOrder!(r)'
    BY <1>1, <2>2 DEF SpansNameTheOrder
  <2> QED
    BY <1>1, <1>3, <2>1, <2>2, <2>3 DEF Own, OutcomeIsTruthful, InTransaction
<1>7. CASE \/ RejectUnavailable(r) \/ RejectUnpriced(r) \/ RejectInsufficient(r)
           \/ RejectReusedKey(r) \/ Overflow(r)
  BY <1>1, <1>2, <1>3, <1>7, AbortOwn DEF RejectUnavailable, RejectUnpriced,
     RejectInsufficient, RejectReusedKey, Overflow, ReadyToInsert, InTransaction
<1>8. CASE WriteConflict(r) \/ DuplicateKey(r)
  BY <1>1, <1>2, <1>3, <1>8, AbortOwn, RetryOwn DEF WriteConflict, DuplicateKey,
     ReadyToInsert, InTransaction
<1>9. CASE DeadlockVictim(r)
  BY <1>1, <1>2, <1>3, <1>9, AbortOwn, RetryOwn DEF DeadlockVictim, InLockCycle,
     InTransaction
<1>10. CASE Respond(r)
  <2>1. /\ pc[r] = "invalidating" /\ pc'[r] = "done"
        /\ UNCHANGED <<store, attempt, result>>
    BY <1>3, <1>10 DEF Respond, Goto, TypeOK
  <2>2. OutcomeIsTruthful(r)'
    BY <1>1, <2>1 DEF OutcomesHaveReasons, OutcomeIsTruthful
  <2>3. SpansNameTheOrder!(r)'
    BY <1>1, <2>1 DEF SpansNameTheOrder, OrderId
  <2> QED
    BY <1>3, <2>1, <2>2, <2>3 DEF Own, InTransaction
<1>11. CASE InvalidationFailure(r)
  <2>1. pc'[r] = "done" /\ result'[r] = Response(500, None, "invalidation")
    BY <1>3, <1>11 DEF InvalidationFailure, Answer, Goto, TypeOK
  <2>2. result'[r].status = 500 /\ result'[r].cause = "invalidation"
    BY <2>1 DEF Response
  <2>3. SpansNameTheOrder!(r)'
    BY <1>1, <2>2 DEF SpansNameTheOrder
  <2> QED
    BY <1>3, <2>1, <2>2, <2>3 DEF Own, OutcomeIsTruthful, InTransaction
<1> QED
  BY <1>5, <1>6, <1>7, <1>8, <1>9, <1>10, <1>11 DEF StartReported, RejectReported, Silent

\* A rollback from outside may come after the report.
LEMMA RolledBackOwn ==
    ASSUME TelemetryInv, NEW r \in Requests, RolledBack(r)
    PROVE  Own(r)'
<1>1. UNCHANGED <<outcome, context>> /\ stage'[r] = "none"
  BY DEF RolledBack, AtStage, TelemetryInv, TelemetryTypeOK
<1>2. CASE SerializationFailure(r)
  BY <1>1, <1>2, RetryOwn DEF SerializationFailure, InTransaction
<1>3. CASE TransactionTimeout(r)
  BY <1>1, <1>3, AbortOwn DEF TransactionTimeout
<1> QED
  BY <1>2, <1>3 DEF RolledBack

\* Counters, labels and order ids are of their kinds, and a transaction that has
\* created or reported something is open.
LEMMA ReportTypes ==
    ASSUME TelemetryInv, CoreInv', NEW r \in Requests, Step(r), Own(r)'
    PROVE  TelemetryTypeOK'
<1> USE DEF TelemetryInv
<1>1. /\ counters \in [{"started", "accepted", "duplicates", "outOfStock"} -> Nat]
      /\ DOMAIN Zero = {"started", "accepted", "duplicates", "outOfStock"}
  BY DEF TelemetryTypeOK, Zero
<1>2. counters' \in [DOMAIN Zero -> Nat]
  BY <1>1 DEF Step, StartReported, RecordIdempotencyDuplicate, RejectReported, CreateOrder,
     RecordCheckoutAccepted, CommitReported, Silent, RolledBack, Count, telemetry, reports
<1>3. /\ outcome' \in [Requests -> {"error", "accepted", "idempotent"}]
      /\ stage' \in [Requests -> {"none", "created", "reported"}]
  BY DEF Step, StartReported, RecordIdempotencyDuplicate, RejectReported, CreateOrder,
     RecordCheckoutAccepted, CommitReported, Silent, RolledBack, SetOutcome, AtStage,
     telemetry, reports, TelemetryTypeOK
<1>4. context' \in [Requests -> OrderIds \union {None}]
  <2>1. CASE RecordIdempotencyDuplicate(r)
    <3>1. Existing(r).orderId \in Requests
      BY <2>1, ExistingIsOrder DEF RecordIdempotencyDuplicate, InTransaction, CoreInv, TypeOK
    <3>2. OrderId(Existing(r).orderId) \in OrderIds
      BY <3>1 DEF OrderId, OrderIds, CoreInv, TypeOK
    <3> QED
      BY <2>1, <3>2 DEF RecordIdempotencyDuplicate, SetOrderId, TelemetryTypeOK
  <2>2. CASE CreateOrder(r)
    <3>1. OrderId(r) \in OrderIds
      BY DEF OrderId, OrderIds, CoreInv, TypeOK
    <3> QED
      BY <2>2, <3>1 DEF CreateOrder, SetOrderId, TelemetryTypeOK
  <2>3. CASE UNCHANGED context
    BY <2>3 DEF TelemetryTypeOK
  <2> QED
    BY <2>1, <2>2, <2>3 DEF Step, StartReported, RejectReported, RecordCheckoutAccepted,
       CommitReported, Silent, RolledBack, telemetry, reports
<1>5. \A q \in Requests : stage'[q] # "none" => pc'[q] \in {"deciding", "reserving"}
  <2>1. ReportsAhead!(r)' => (stage'[r] # "none" => pc'[r] \in {"deciding", "reserving"})
    OBVIOUS
  <2> QED
    BY <2>1, OthersKeep DEF TelemetryTypeOK, Own
<1>6. received' \in SUBSET Requests
  BY DEF Step, StartReported, RecordIdempotencyDuplicate, RejectReported, CreateOrder,
     RecordCheckoutAccepted, CommitReported, Silent, RolledBack, telemetry, history,
     TelemetryTypeOK
<1> QED
  BY <1>2, <1>3, <1>4, <1>5, <1>6 DEF TelemetryTypeOK, CoreInv

\* Nothing is measured, and no order is named, before the first call.
LEMMA TelemetryInitInv == TelemetryInit => TelemetryInv
<1> SUFFICES ASSUME TelemetryInit PROVE TelemetryInv
  OBVIOUS
<1>1. CoreInv
  BY InitCore DEF TelemetryInit
<1>2. TelemetryTypeOK
  BY <1>1 DEF TelemetryInit, TelemetryTypeOK, CoreInv, Zero
<1> QED
  BY <1>1, <1>2 DEF TelemetryInit, Init, TelemetryInv, ReportsAhead, OutcomesHaveReasons,
     SpansNameTheOrder, InTransaction

\* The contexts end with the process, and no transaction is left open.
LEMMA CrashTelemetry ==
    ASSUME TelemetryInv, CoreInv', CrashReported PROVE TelemetryInv'
<1> USE DEF TelemetryInv, CrashReported
<1>1. \A r \in Requests : /\ stage'[r] = "none" /\ context'[r] = None
                          /\ outcome'[r] = outcome[r]
                          /\ attempt'[r] = attempt[r]
  BY DEF Crash
<1>2. \A r \in Requests : \/ pc'[r] = "lost"
                          \/ /\ pc[r] \in {"idle", "done", "lost"}
                             /\ pc'[r] = pc[r] /\ result'[r] = result[r]
  BY DEF Crash, InFlight, InTransaction, CoreInv, TypeOK
<1>3. TelemetryTypeOK'
  BY <1>1 DEF TelemetryTypeOK, CoreInv, Zero
<1>4. ReportsAhead' /\ SpansNameTheOrder'
  BY <1>1 DEF ReportsAhead, SpansNameTheOrder
<1>5. OutcomesHaveReasons'
  BY <1>1, <1>2 DEF OutcomesHaveReasons, OutcomeIsTruthful, InTransaction
<1> QED
  BY <1>3, <1>4, <1>5

\* Every step keeps outcomes and spans true.
LEMMA TelemetryStep == TelemetryInv /\ [TelemetryNext]_telemetryVars => TelemetryInv'
<1> SUFFICES ASSUME TelemetryInv, [TelemetryNext]_telemetryVars PROVE TelemetryInv'
  OBVIOUS
<1>1. CoreInv'
  BY ReportingIsCheckout, CoreStep DEF TelemetryInv
<1>2. ASSUME NEW r \in Requests, Step(r) PROVE TelemetryInv'
  <2>1. Own(r)'
    BY <1>2, DuplicateOwn, CreateOwn, AcceptedOwn, CommitOwn, SilentOwn, RolledBackOwn
       DEF Step
  <2>2. \A q \in Requests \ {r} : Own(q)'
    BY <1>2, OthersStayTrue DEF Own
  <2>3. \A q \in Requests : Own(q)'
    BY <2>1, <2>2
  <2>4. ReportsAhead' /\ OutcomesHaveReasons' /\ SpansNameTheOrder'
    BY <2>3 DEF Own, ReportsAhead, OutcomesHaveReasons, SpansNameTheOrder
  <2>5. TelemetryTypeOK'
    BY <1>1, <1>2, <2>1, ReportTypes
  <2> QED
    BY <1>1, <2>4, <2>5 DEF TelemetryInv
<1>3. CASE UNCHANGED telemetryVars
  <2>1. /\ pc' = pc /\ snap' = snap /\ reserved' = reserved /\ attempt' = attempt
        /\ result' = result /\ idem' = idem
        /\ counters' = counters /\ outcome' = outcome /\ context' = context
        /\ stage' = stage /\ received' = received
    BY <1>3 DEF telemetryVars, telemetry, reports, history, vars, store, request
  <2>2. TelemetryTypeOK'
    BY <1>1, <2>1 DEF TelemetryInv, TelemetryTypeOK, CoreInv
  <2>3. OutcomesHaveReasons'
    <3>1. \A r \in Requests : /\ OutcomeIsTruthful(r)' = OutcomeIsTruthful(r)
                              /\ InTransaction(r)' = InTransaction(r)
      BY <2>1 DEF OutcomeIsTruthful, InTransaction
    <3> QED
      BY <2>1, <3>1 DEF TelemetryInv, OutcomesHaveReasons
  <2>4. ReportsAhead'
    <3>1. \A r \in Requests : /\ Existing(r)' = Existing(r) /\ SamePayload(r)' = SamePayload(r)
                              /\ KeyIsFree(r)' = KeyIsFree(r)
      BY <2>1 DEF Existing, SamePayload, KeyIsFree
    <3> QED
      BY <2>1, <3>1 DEF TelemetryInv, ReportsAhead, OrderId
  <2>5. SpansNameTheOrder'
    BY <2>1 DEF TelemetryInv, SpansNameTheOrder, OrderId
  <2> QED
    BY <1>1, <2>2, <2>3, <2>4, <2>5 DEF TelemetryInv
<1>4. CASE AllFinished /\ UNCHANGED telemetry
  BY <1>3, <1>4 DEF AllFinished, telemetryVars
<1> QED
  BY <1>1, <1>2, <1>3, <1>4, CrashTelemetry DEF TelemetryNext, Step

\* The instrumented checkout is a checkout: every theorem about Checkout holds of it.
THEOREM ReportingKeepsCheckout == TelemetrySpec => Spec
<1>1. TelemetryInit => Init
  BY DEF TelemetryInit
<1> QED
  BY <1>1, ReportingIsCheckout, PTL DEF TelemetrySpec, Spec

\* A transaction that has reported can only be committed as it was reported, or be
\* rolled back from outside, whatever the calls, retries, crashes and conflicts.
THEOREM TelemetryInvariance == TelemetrySpec => []TelemetryInv
BY TelemetryInitInv, TelemetryStep, PTL DEF TelemetrySpec

\* The outcome that labels the duration of a call is the one of its answer, except
\* where a report was rolled back.
THEOREM OutcomesTrue == TelemetrySpec => []OutcomesAreTruthful
<1>1. TelemetryInv => OutcomesAreTruthful
  BY DEF TelemetryInv, TelemetryTypeOK, OutcomesHaveReasons, OutcomesAreTruthful
<1> QED
  BY <1>1, TelemetryInvariance, PTL

\* The span of a call that has bought, or repeated, an order names that order.
THEOREM SpansTrue == TelemetrySpec => []SpansNameTheOrder
<1>1. TelemetryInv => SpansNameTheOrder
  BY DEF TelemetryInv
<1> QED
  BY <1>1, TelemetryInvariance, PTL

-----------------------------------------------------------------------------
(* Counters *)

\* The sum of what calls have used is the number of the units they have used.
LEMMA SumIsCount ==
    ASSUME NEW S, IsFiniteSet(S), NEW w, \A x \in S : w[x] \in Nat
    PROVE  IsFiniteSet(Units(S, w)) /\ Sum(w, S) = Cardinality(Units(S, w))
<1> DEFINE Makes(sum) == sum = [s \in SUBSET S |->
                                  IF s = {} THEN 0
                                  ELSE LET x == CHOOSE x \in s : TRUE
                                       IN  w[x] + sum[s \ {x}]]
           total == CHOOSE sum : Makes(sum)
<1>1. Sum(w, S) = total[S]
  BY Zenon DEF Sum, MapThenSumSet, MapThenFoldSet
<1>2. ASSUME NEW sum PROVE Makes(sum) <=> SumsUp(sum, S, w)
  BY DEF SumsUp, Some
<1>3. \E sum : SumsUp(sum, S, w)
  BY CountSumsUp
<1>4. SumsUp(total, S, w)
  <2> HIDE DEF Makes
  <2> QED
    BY <1>2, <1>3, Zenon
<1> HIDE DEF total
<1>5. total[S] = Cardinality(Units(S, w))
  BY <1>4, SumsAreCounts
<1> QED
  BY <1>1, <1>5, FiniteUnits

\* A sum over more calls is not smaller.
LEMMA SumGrows ==
    ASSUME NEW S, IsFiniteSet(S), NEW x, NEW w, \A y \in S \union {x} : w[y] \in Nat
    PROVE  /\ Sum(w, S) \in Nat
           /\ Sum(w, S \union {x}) \in Nat
           /\ Sum(w, S \union {x}) = Sum(w, S) + (IF x \in S THEN 0 ELSE w[x])
<1>1. IsFiniteSet(S \union {x})
  BY FS_AddElement
<1>2. IsFiniteSet(Units(S, w)) /\ Sum(w, S) = Cardinality(Units(S, w))
  BY SumIsCount
<1>3. /\ IsFiniteSet(Units(S \union {x}, w))
      /\ Sum(w, S \union {x}) = Cardinality(Units(S \union {x}, w))
  BY <1>1, SumIsCount
<1>4. Sum(w, S) \in Nat /\ Sum(w, S \union {x}) \in Nat
  BY <1>2, <1>3, FS_CardinalityType
<1>5. CASE x \in S
  <2>1. S \union {x} = S
    BY <1>5
  <2>2. Sum(w, S \union {x}) = Sum(w, S)
    BY <2>1, Zenon
  <2> QED
    BY <1>4, <1>5, <2>2
<1>6. CASE x \notin S
  <2>1. w[x] \in Nat
    OBVIOUS
  <2>2. Cardinality(Units(S \union {x}, w)) = Cardinality(Units(S, w)) + w[x]
    BY <1>2, <1>6, <2>1, OneMore
  <2> QED
    BY <1>2, <1>3, <1>4, <1>6, <2>2
<1> QED
  BY <1>4, <1>5, <1>6

\* It counts only the calls it is over.
LEMMA SumsAgree ==
    ASSUME NEW S, IsFiniteSet(S), NEW w, NEW v, \A x \in S : w[x] \in Nat /\ v[x] = w[x]
    PROVE  Sum(v, S) = Sum(w, S)
<1>1. Units(S, v) = Units(S, w)
  BY DEF Units
<1>2. Sum(v, S) = Cardinality(Units(S, v)) /\ Sum(w, S) = Cardinality(Units(S, w))
  BY SumIsCount
<1> QED
  BY <1>1, <1>2

\* It is the sum over the others, and what the call has used.
LEMMA SumWithout ==
    ASSUME NEW S, IsFiniteSet(S), NEW x \in S, NEW w, \A y \in S : w[y] \in Nat
    PROVE  Sum(w, S \ {x}) \in Nat /\ Sum(w, S) = Sum(w, S \ {x}) + w[x]
<1> DEFINE rest == S \ {x}
<1>1. IsFiniteSet(rest) /\ x \notin rest
  BY FS_RemoveElement
<1>2. \A y \in rest \union {x} : w[y] \in Nat
  OBVIOUS
<1>3. S = rest \union {x}
  OBVIOUS
<1> HIDE DEF rest
<1>4. /\ Sum(w, rest) \in Nat
      /\ Sum(w, rest \union {x}) = Sum(w, rest) + (IF x \in rest THEN 0 ELSE w[x])
  BY <1>1, <1>2, SumGrows
<1>5. Sum(w, S) = Sum(w, rest) + w[x]
  BY <1>1, <1>3, <1>4, Zenon
<1> QED
  BY <1>4, <1>5 DEF rest

\* A retry adds one.
LEMMA SumAddsRetry ==
    ASSUME NEW S, IsFiniteSet(S), NEW w, NEW v, NEW x \in S, NEW more \in Nat,
           \A y \in S : w[y] \in Nat, v[x] = w[x] + more,
           \A y \in S \ {x} : v[y] = w[y]
    PROVE  Sum(w, S) \in Nat /\ Sum(v, S) = Sum(w, S) + more
<1>1. \A y \in S : v[y] \in Nat
  OBVIOUS
<1>2. IsFiniteSet(S \ {x})
  BY FS_RemoveElement
<1>3. Sum(v, S \ {x}) = Sum(w, S \ {x})
  BY <1>2, SumsAgree
<1>4. Sum(w, S \ {x}) \in Nat /\ Sum(w, S) = Sum(w, S \ {x}) + w[x]
  BY SumWithout
<1>5. Sum(v, S) = Sum(v, S \ {x}) + v[x]
  BY <1>1, SumWithout
<1>6. w[x] \in Nat
  OBVIOUS
<1> QED
  BY <1>3, <1>4, <1>5, <1>6

\* What a step that counts no purchase and no replay may do to its call: what is
\* sold or repeated was reported, and an attempt starts over only as a retry.
Quiet(r) ==
    /\ pc'[r] # "idle"
    /\ InFlight(r)' => r \in received'
    /\ pc'[r] = "invalidating" => result'[r].status \in {200, 202}
    /\ stage'[r] # "reported"
    /\ \/ orders' = orders
       \/ orders' = orders \union {r} /\ stage[r] = "reported" /\ outcome[r] = "accepted"
    /\ result'[r].status = 200 =>
         result[r].status = 200 \/ (stage[r] = "reported" /\ outcome[r] = "idempotent")
    /\ \/ attempt'[r] = attempt[r] /\ (Working(r)' => Working(r) \/ pc[r] = "idle")
       \/ attempt'[r] = attempt[r] + 1 /\ InTransaction(r)

\* An error that ends the transaction is such a step.
LEMMA AbortIsQuiet ==
    ASSUME TelemetryInv, NEW r \in Requests, pc[r] = "begin" \/ InTransaction(r),
           NEW status \in {409, 422, 500}, NEW cause, Abort(r, status, cause),
           stage'[r] # "reported"
    PROVE  /\ Quiet(r) /\ result[r].status = 0
           /\ result'[r].status = status /\ result'[r].cause = cause
<1>1. /\ pc'[r] = "done" /\ result'[r] = Response(status, None, cause)
      /\ UNCHANGED <<attempt, orders>>
  BY DEF TelemetryInv, CoreInv, TypeOK, Abort, Answer, Goto, store
<1>2. result'[r].status = status /\ result'[r].cause = cause
  BY <1>1 DEF Response
<1>3. result[r] = NoResult
  BY DEF TelemetryInv, CoreInv, UnansweredBeforeCommit
<1>4. result[r].status = 0
  BY <1>3 DEF NoResult, Response
<1>5. ~InFlight(r)' /\ ~Working(r)'
  BY <1>1 DEF InFlight, Working, InTransaction
<1> QED
  BY <1>1, <1>2, <1>4, <1>5 DEF Quiet

\* So is a retry.
LEMMA RetryIsQuiet ==
    ASSUME TelemetryInv, CallsAreReceived, NEW r \in Requests, InTransaction(r), NEW cause,
           RetryOrGiveUp(r, cause), stage'[r] # "reported", UNCHANGED received
    PROVE  Quiet(r) /\ result'[r].status # 422 /\ result[r].status = 0
<1>1. CASE Abort(r, 500, cause)
  <2>1. Quiet(r) /\ result'[r].status = 500 /\ result[r].status = 0
    BY <1>1, AbortIsQuiet
  <2> QED
    BY <2>1
<1>2. CASE /\ attempt' = [attempt EXCEPT ![r] = @ + 1]
           /\ Goto(r, "begin") /\ UNCHANGED <<store, result>>
  <2>1. /\ pc'[r] = "begin" /\ attempt'[r] = attempt[r] + 1
        /\ UNCHANGED <<orders, result>>
    BY <1>2 DEF TelemetryInv, CoreInv, TypeOK, Goto, store
  <2>2. result[r].status = 0
    <3>1. result[r] = NoResult
      BY DEF TelemetryInv, CoreInv, UnansweredBeforeCommit
    <3> QED
      BY <3>1 DEF NoResult, Response
  <2>3. r \in received'
    BY DEF CallsAreReceived, InFlight
  <2> QED
    BY <2>1, <2>2, <2>3 DEF Quiet
<1> QED
  BY <1>1, <1>2 DEF RetryOrGiveUp

\* Every step of a call but the two that report a purchase or a replay.
LEMMA OthersAreQuiet ==
    ASSUME TelemetryInv, CallsAreReceived, NEW r \in Requests,
           \/ StartReported(r) \/ CreateOrder(r) \/ CommitReported(r)
           \/ Silent(r) \/ RolledBack(r)
    PROVE  Quiet(r) /\ (OutOfStock(r)' <=> OutOfStock(r))
<1> USE DEF TelemetryInv, OutOfStock
<1>0. TypeOK /\ TelemetryTypeOK
  BY DEF CoreInv
<1>1. stage'[r] # "reported"
  <2>1. CASE StartReported(r)
    BY <1>0, <2>1 DEF StartReported, Start, TelemetryTypeOK
  <2>2. CASE Silent(r)
    BY <2>2, OnlyTheCommitIsLeft DEF Silent, telemetry, reports
  <2>3. CASE CreateOrder(r) \/ CommitReported(r) \/ RolledBack(r)
    BY <1>0, <2>3 DEF CreateOrder, CommitReported, RolledBack, AtStage, TelemetryTypeOK
  <2> QED
    BY <2>1, <2>2, <2>3
<1>2. InFlight(r) => r \in received
  BY DEF CallsAreReceived
<1>3. ASSUME pc[r] \in {"idle", "begin"} \/ InTransaction(r) PROVE result[r].status = 0
  <2>1. result[r] = NoResult
    BY <1>3 DEF CoreInv, UnansweredBeforeCommit
  <2> QED
    BY <2>1 DEF NoResult, Response
<1>4. CASE StartReported(r)
  <2>1. /\ pc[r] = "idle" /\ pc'[r] = "begin" /\ r \in received'
        /\ UNCHANGED <<attempt, result, orders>>
    BY <1>0, <1>4 DEF StartReported, Start, Goto, TypeOK, store
  <2> QED
    BY <1>1, <2>1 DEF Quiet
<1>5. ASSUME /\ pc[r] = "begin" \/ InTransaction(r)
             /\ pc'[r] \in {"locking", "deciding", "reserving"}
             /\ stage[r] # "reported"
             /\ UNCHANGED <<attempt, result, orders, received>>
      PROVE  Quiet(r) /\ (OutOfStock(r)' <=> OutOfStock(r))
  <2>1. r \in received' /\ Working(r)
    BY <1>2, <1>5 DEF InFlight, Working
  <2> QED
    BY <1>1, <1>5, <2>1 DEF Quiet
<1>6. CASE CreateOrder(r)
  <2>1. /\ pc[r] = "reserving" /\ stage[r] # "reported"
        /\ UNCHANGED <<pc, attempt, result, orders, received>>
    BY <1>6 DEF CreateOrder, ReadyToInsert, vars, store, request, history
  <2> QED
    BY <1>5, <2>1 DEF InTransaction
<1>7. CASE CommitReported(r)
  <2>1. /\ stage[r] = "reported" /\ pc[r] \in {"deciding", "reserving"}
        /\ UNCHANGED received
    BY <1>0, <1>7 DEF CommitReported, history, TelemetryTypeOK
  <2>2. r \in received /\ result[r].status = 0
    BY <1>2, <1>3, <2>1 DEF InFlight, InTransaction
  <2>3. CASE Replay(r)
    <3>1. /\ pc'[r] = "invalidating" /\ UNCHANGED <<orders, attempt>>
          /\ result'[r] = Response(200, Existing(r).orderId, "none")
      BY <1>0, <2>3 DEF Replay, Goto, TypeOK, store
    <3>2. result'[r].status = 200
      BY <3>1 DEF Response
    <3>3. outcome[r] = "idempotent"
      BY <2>1, <2>3 DEF Replay, ReportsAhead
    <3>4. ~Working(r)'
      BY <3>1 DEF Working, InTransaction
    <3> QED
      BY <1>1, <2>1, <2>2, <3>1, <3>2, <3>3, <3>4 DEF Quiet
  <2>4. CASE Commit(r)
    <3>1. /\ pc'[r] = "invalidating" /\ UNCHANGED attempt
          /\ orders' = orders \union {r}
          /\ result'[r] = Response(202, r, "none")
      BY <1>0, <2>4 DEF Commit, Goto, TypeOK
    <3>2. result'[r].status = 202
      BY <3>1 DEF Response
    <3>3. outcome[r] = "accepted"
      BY <2>1, <2>4 DEF Commit, ReadyToInsert, ReportsAhead
    <3>4. ~Working(r)'
      BY <3>1 DEF Working, InTransaction
    <3> QED
      BY <1>1, <2>1, <2>2, <3>1, <3>2, <3>3, <3>4 DEF Quiet
  <2> QED
    BY <1>7, <2>3, <2>4 DEF CommitReported
<1>8. CASE RolledBack(r)
  <2>1. UNCHANGED received
    BY <1>8 DEF RolledBack, history
  <2>2. CASE SerializationFailure(r)
    <3>1. InTransaction(r) /\ RetryOrGiveUp(r, "write_conflict")
      BY <2>2 DEF SerializationFailure, InTransaction
    <3> QED
      BY <1>1, <2>1, <3>1, RetryIsQuiet
  <2>3. CASE TransactionTimeout(r)
    <3>1. (pc[r] = "begin" \/ InTransaction(r)) /\ Abort(r, 500, "timeout")
      BY <2>3 DEF TransactionTimeout
    <3> QED
      BY <1>1, <3>1, AbortIsQuiet
  <2> QED
    BY <1>8, <2>2, <2>3 DEF RolledBack
<1>9. CASE Silent(r)
  <2>1. stage[r] = "none" /\ UNCHANGED received
    BY <1>9, OnlyTheCommitIsLeft DEF Silent, telemetry, history
  <2>2. CASE Begin(r) \/ AcquireLock(r) \/ AcceptLines(r) \/ ReserveLine(r)
    <3>1. /\ pc[r] = "begin" \/ InTransaction(r)
          /\ pc'[r] \in {"locking", "deciding", "reserving"}
          /\ UNCHANGED <<attempt, result, orders>>
      BY <1>0, <2>2 DEF Begin, AcquireLock, AcceptLines, ReserveLine, Goto, TypeOK,
         InTransaction, store
    <3> QED
      BY <1>5, <2>1, <3>1
  <2>3. CASE RejectReusedKey(r) \/ RejectUnpriced(r) \/ Overflow(r)
    <3>1. InTransaction(r)
      BY <2>3 DEF RejectReusedKey, RejectUnpriced, Overflow, ReadyToInsert, InTransaction
    <3>2. \/ Abort(r, 409, "reused_key") \/ Abort(r, 422, "unpriced")
          \/ Abort(r, 500, "overflow")
      BY <2>3 DEF RejectReusedKey, RejectUnpriced, Overflow
    <3> QED
      BY <1>1, <3>1, <3>2, AbortIsQuiet
  <2>4. CASE WriteConflict(r) \/ DuplicateKey(r) \/ DeadlockVictim(r)
    <3>1. InTransaction(r)
      BY <2>4 DEF WriteConflict, DuplicateKey, ReadyToInsert, DeadlockVictim, InLockCycle,
         InTransaction
    <3>2. CASE \E cause : Abort(r, 500, cause)
      BY <1>1, <3>1, <3>2, AbortIsQuiet
    <3>3. CASE \E cause : RetryOrGiveUp(r, cause)
      BY <1>1, <2>1, <3>1, <3>3, RetryIsQuiet
    <3> QED
      BY <2>4, <3>2, <3>3 DEF WriteConflict, DuplicateKey, DeadlockVictim
  <2>5. CASE Refuse(r)
    <3>1. /\ pc[r] = "idle" /\ pc'[r] = "done"
          /\ result'[r] = Response(400, None, "invalid")
          /\ UNCHANGED <<attempt, orders>>
      BY <1>0, <2>5 DEF Refuse, Answer, Goto, TypeOK, store
    <3>2. result'[r].status = 400 /\ result[r].status = 0
      BY <1>3, <3>1 DEF Response
    <3>3. ~InFlight(r)' /\ ~Working(r)'
      BY <3>1 DEF InFlight, Working, InTransaction
    <3> QED
      BY <1>1, <3>1, <3>2, <3>3 DEF Quiet
  <2>6. CASE Respond(r)
    <3>1. pc'[r] = "done" /\ UNCHANGED <<attempt, orders, result>>
      BY <1>0, <2>6 DEF Respond, Goto, TypeOK, store
    <3>2. ~InFlight(r)' /\ ~Working(r)'
      BY <3>1 DEF InFlight, Working, InTransaction
    <3> QED
      BY <1>1, <3>1, <3>2 DEF Quiet
  <2>7. CASE InvalidationFailure(r)
    <3>1. /\ pc[r] = "invalidating" /\ pc'[r] = "done"
          /\ result'[r] = Response(500, None, "invalidation")
          /\ UNCHANGED <<attempt, orders>>
      BY <1>0, <2>7 DEF InvalidationFailure, Answer, Goto, TypeOK, store
    <3>2. result'[r].status = 500
      BY <3>1 DEF Response
    <3>3. result[r].status # 422
      BY <3>1 DEF CallsAreReceived
    <3>4. ~InFlight(r)' /\ ~Working(r)'
      BY <3>1 DEF InFlight, Working, InTransaction
    <3> QED
      BY <1>1, <3>1, <3>2, <3>3, <3>4 DEF Quiet
  <2> QED
    BY <1>9, <2>2, <2>3, <2>4, <2>5, <2>6, <2>7 DEF Silent
<1> QED
  BY <1>4, <1>6, <1>7, <1>8, <1>9

\* A refusal is one, and it is the only step that tells a customer of a sold out product.
LEMMA RejectionIsQuiet ==
    ASSUME TelemetryInv, CallsAreReceived, NEW r \in Requests, RejectReported(r)
    PROVE  /\ Quiet(r) /\ r \in received
           /\ OutOfStock(r)' /\ ~OutOfStock(r)
<1>1. InTransaction(r)
  BY DEF RejectReported, RejectUnavailable, RejectInsufficient, InTransaction
<1>2. stage'[r] # "reported"
  BY OnlyTheCommitIsLeft DEF RejectReported
<1>3. Abort(r, 422, "unavailable") \/ Abort(r, 422, "insufficient")
  BY DEF RejectReported, RejectUnavailable, RejectInsufficient
<1>4. Quiet(r) /\ OutOfStock(r)' /\ ~OutOfStock(r)
  BY <1>1, <1>2, <1>3, AbortIsQuiet DEF OutOfStock
<1> QED
  BY <1>1, <1>4 DEF CallsAreReceived, InFlight

\* The calls that were told 200 are those whose answer has it.
LEMMA ToldIsAnswered ==
    TelemetryInv => Told({200}) = {q \in received : result[q].status = 200}
<1> SUFFICES ASSUME TelemetryInv
             PROVE  Told({200}) = {r \in received : result[r].status = 200}
  OBVIOUS
<1>1. ASSUME NEW r \in Requests, pc[r] = "begin" PROVE result[r].status = 0
  <2>1. result[r] = NoResult
    BY <1>1 DEF TelemetryInv, CoreInv, UnansweredBeforeCommit
  <2> QED
    BY <2>1 DEF NoResult, Response
<1>2. received \subseteq Requests
  BY DEF TelemetryInv, TelemetryTypeOK
<1> QED
  BY <1>1, <1>2 DEF Told

\* Who counts is among the calls the process has received, which are finitely many.
LEMMA CountsAreFinite ==
    ASSUME TelemetryInv, CallsAreReceived, NEW label \in {"accepted", "idempotent"}
    PROVE  /\ IsFiniteSet(Earned(label)) /\ IsFiniteSet(Announced(label))
           /\ IsFiniteSet(Spent(label)) /\ IsFiniteSet(Earned(label) \union Announced(label))
           /\ Retries \in Nat
<1>1. IsFiniteSet(received)
  BY DEF CallsAreReceived
<1>2. /\ Earned(label) \subseteq received /\ Announced(label) \subseteq received
      /\ Spent(label) \subseteq received
  BY DEF Earned, Announced, Spent, Told, CallsAreReceived
<1>3. Earned(label) \union Announced(label) \subseteq received
  BY <1>2
<1>4. \A part \in SUBSET received : IsFiniteSet(part)
  BY <1>1, FS_Subset
<1>5. \A r \in received : attempt[r] \in Nat
  BY DEF TelemetryInv, CoreInv, TypeOK, TelemetryTypeOK
<1>6. Retries \in Nat
  BY <1>1, <1>5, SumIsCount, FS_CardinalityType DEF Retries
<1> QED
  BY <1>2, <1>3, <1>4, <1>6

\* A quiet step adds nobody to those who count, whatever the label.
LEMMA QuietAddsNobody ==
    ASSUME TelemetryInv, TelemetryInv', CallsAreReceived, NEW r \in Requests, Step(r),
           Quiet(r), UNCHANGED <<outcome, before>>,
           UNCHANGED received \/ (pc[r] = "idle" /\ received' = received \union {r}),
           NEW label \in {"accepted", "idempotent"}
    PROVE  (Earned(label) \union Announced(label))' \subseteq Earned(label) \union Announced(label)
<1>1. \A q \in Requests \ {r} : result'[q] = result[q] /\ stage'[q] = stage[q]
  BY OthersKeep
<1>2. received \subseteq Requests /\ received' \subseteq Requests
  BY DEF TelemetryInv, TelemetryTypeOK
<1>3. stage[r] = "reported" => r \in received /\ pc[r] # "idle"
  BY DEF TelemetryInv, TelemetryTypeOK, CallsAreReceived, InFlight, InTransaction
<1>4. pc[r] = "idle" => result[r].status = 0
  <2>1. pc[r] = "idle" => result[r] = NoResult
    BY DEF TelemetryInv, CoreInv, UnansweredBeforeCommit
  <2> QED
    BY <2>1 DEF NoResult, Response
<1>5. Announced(label)' \subseteq Announced(label)
  BY <1>1, <1>2 DEF Announced, Quiet
<1>6. CASE label = "accepted"
  <2>1. Earned(label)' = orders' \ before' /\ Earned(label) = orders \ before
    BY <1>6 DEF Earned
  <2>2. stage[r] = "reported" /\ outcome[r] = label => r \in Announced(label)
    BY <1>3 DEF Announced
  <2> QED
    BY <1>5, <1>6, <2>1, <2>2 DEF Quiet
<1>7. CASE label = "idempotent"
  <2>1. Earned(label) = {q \in received : result[q].status = 200}
    BY <1>7, ToldIsAnswered DEF Earned
  <2>2. (Told({200}) = {q \in received : result[q].status = 200})'
    BY ToldIsAnswered, PTL
  <2>3. Earned(label)' = {q \in received' : result'[q].status = 200}
    BY <1>7, <2>2 DEF Earned
  <2>4. stage[r] = "reported" /\ outcome[r] = label => r \in Announced(label)
    BY <1>3 DEF Announced
  <2>5. ASSUME NEW q \in Earned(label)' PROVE q \in Earned(label) \union Announced(label)
    <3>1. CASE q = r
      BY <1>3, <1>4, <1>7, <2>1, <2>3, <2>4, <2>5, <3>1 DEF Quiet
    <3>2. CASE q # r
      BY <1>1, <1>2, <2>1, <2>3, <2>5, <3>2
    <3> QED
      BY <3>1, <3>2
  <2> QED
    BY <1>5, <2>5
<1> QED
  BY <1>6, <1>7

\* It takes nobody off those who spent an attempt but for a retry, which is counted.
LEMMA QuietSpendsNothing ==
    ASSUME TelemetryInv, TelemetryInv', CallsAreReceived, CallsAreReceived',
           NEW r \in Requests, Step(r), Quiet(r), UNCHANGED outcome,
           UNCHANGED received \/ (pc[r] = "idle" /\ received' = received \union {r}),
           NEW label \in {"accepted", "idempotent"}
    PROVE  Retries + Cardinality(Spent(label)) <= Retries' + Cardinality(Spent(label)')
<1>1. \A q \in Requests \ {r} : attempt'[q] = attempt[q] /\ (Working(q)' <=> Working(q))
  <2>1. \A q \in Requests \ {r} : pc'[q] = pc[q] /\ stage'[q] = stage[q]
    BY OthersKeep
  <2> QED
    BY <2>1, OthersKeep DEF Working, InTransaction
<1>2. /\ received \subseteq Requests /\ received \subseteq received'
      /\ pc[r] = "idle" => r \notin received
      /\ IsFiniteSet(received) /\ IsFiniteSet(received')
  BY DEF TelemetryInv, TelemetryTypeOK, CallsAreReceived
<1>3. /\ \A q \in Requests : attempt[q] \in Nat
      /\ \A q \in Requests : attempt'[q] \in Nat
  BY DEF TelemetryInv, CoreInv, TypeOK
<1>4. /\ IsFiniteSet(Spent(label)) /\ IsFiniteSet(Spent(label)')
      /\ Cardinality(Spent(label)) \in Nat /\ Cardinality(Spent(label)') \in Nat
  <2>1. Spent(label) \subseteq received /\ Spent(label)' \subseteq received'
    BY DEF Spent
  <2>2. IsFiniteSet(Spent(label)) /\ IsFiniteSet(Spent(label)')
    BY <1>2, <2>1, FS_Subset
  <2> QED
    BY <2>2, FS_CardinalityType
<1>5. Retries = Sum(attempt, received) /\ Retries' = Sum(attempt', received')
  BY DEF Retries
<1>6. Spent(label) \ {r} \subseteq Spent(label)'
  BY <1>1, <1>2 DEF Spent
<1>7. CASE attempt'[r] = attempt[r] /\ (Working(r)' => Working(r) \/ pc[r] = "idle")
  <2>1. Spent(label) \subseteq Spent(label)'
    BY <1>2, <1>6, <1>7 DEF Spent
  <2>2. Cardinality(Spent(label)) <= Cardinality(Spent(label)')
    BY <1>4, <2>1, FS_Subset
  <2>3. \A q \in received : attempt[q] \in Nat /\ attempt'[q] = attempt[q]
    BY <1>1, <1>2, <1>3, <1>7
  <2>4. Sum(attempt', received) = Sum(attempt, received) /\ Sum(attempt, received) \in Nat
    <3>1. Sum(attempt', received) = Sum(attempt, received)
      BY <1>2, <2>3, SumsAgree
    <3>2. IsFiniteSet(Units(received, attempt))
          /\ Sum(attempt, received) = Cardinality(Units(received, attempt))
      BY <1>2, <2>3, SumIsCount
    <3> QED
      BY <3>1, <3>2, FS_CardinalityType
  <2>5. Retries' \in Nat /\ Retries' >= Retries
    <3>1. CASE UNCHANGED received
      BY <1>5, <2>4, <3>1
    <3>2. CASE received' = received \union {r}
      <4>1. \A q \in received \union {r} : attempt'[q] \in Nat
        BY <1>3, <2>3
      <4>2. /\ Sum(attempt', received \union {r}) \in Nat
            /\ Sum(attempt', received \union {r})
                 = Sum(attempt', received) + (IF r \in received THEN 0 ELSE attempt'[r])
        BY <1>2, <4>1, SumGrows
      <4>3. attempt'[r] \in Nat
        BY <1>3
      <4>4. Retries' = Sum(attempt', received \union {r})
        BY <1>5, <3>2, Zenon
      <4> QED
        BY <1>5, <2>4, <4>2, <4>3, <4>4
    <3> QED
      BY <3>1, <3>2
  <2>6. Retries \in Nat
    BY <1>5, <2>4
  <2> QED
    BY <1>4, <2>2, <2>5, <2>6
<1>8. CASE attempt'[r] = attempt[r] + 1 /\ InTransaction(r)
  <2>1. r \in received /\ UNCHANGED received
    BY <1>8 DEF CallsAreReceived, InFlight, InTransaction
  <2>2. Sum(attempt, received) \in Nat
        /\ Sum(attempt', received) = Sum(attempt, received) + 1
    <3>1. /\ \A q \in received : attempt[q] \in Nat
          /\ \A q \in received \ {r} : attempt'[q] = attempt[q]
      BY <1>1, <1>2, <1>3
    <3> QED
      BY <1>2, <1>8, <2>1, <3>1, SumAddsRetry
  <2>3. Retries \in Nat /\ Retries' = Retries + 1
    BY <1>5, <2>1, <2>2
  <2>4. Cardinality(Spent(label)) <= Cardinality(Spent(label)') + 1
    <3>1. /\ IsFiniteSet(Spent(label) \ {r})
          /\ Cardinality(Spent(label) \ {r}) = IF r \in Spent(label)
                                               THEN Cardinality(Spent(label)) - 1
                                               ELSE Cardinality(Spent(label))
      BY <1>4, FS_RemoveElement
    <3>2. Cardinality(Spent(label) \ {r}) <= Cardinality(Spent(label)')
      BY <1>4, <1>6, FS_Subset
    <3> QED
      BY <1>4, <3>1, <3>2
  <2> QED
    BY <1>4, <2>3, <2>4
<1> QED
  BY <1>7, <1>8 DEF Quiet

\* What the two reports have in common: the outcome is set, once in the attempt.
Reports(r, label) ==
    /\ stage[r] # "reported" /\ stage' = [stage EXCEPT ![r] = "reported"]
    /\ outcome' = [outcome EXCEPT ![r] = label]
    /\ counters' = [counters EXCEPT ![Metric[label]] = @ + 1]
    /\ InTransaction(r)
    /\ UNCHANGED <<vars, history>>

\* A report adds its call to those who spent an attempt, and one to its counter.
LEMMA ReportCounts ==
    ASSUME TelemetryInv, CountInv, TelemetryInv', NEW r \in Requests,
           NEW label \in {"accepted", "idempotent"}, Reports(r, label)
    PROVE  CountInv'
<1> USE DEF CountInv
<1>0. /\ counters \in [{"started", "accepted", "duplicates", "outOfStock"} -> Nat]
      /\ outcome \in [Requests -> {"error", "accepted", "idempotent"}]
      /\ stage \in [Requests -> {"none", "created", "reported"}]
      /\ received \subseteq Requests
  BY DEF TelemetryInv, TelemetryTypeOK, Zero
<1>1. UNCHANGED <<pc, attempt, result, orders, received, before>>
  BY DEF Reports, vars, store, request, history
<1>2. /\ outcome'[r] = label /\ stage'[r] = "reported"
      /\ \A q \in Requests \ {r} : outcome'[q] = outcome[q] /\ stage'[q] = stage[q]
  BY <1>0 DEF Reports
<1>3. CallsAreReceived'
  BY <1>1 DEF CallsAreReceived, InFlight, InTransaction
<1>4. r \in received /\ Working(r)
  BY DEF CallsAreReceived, InFlight, Working, Reports
<1>5. \A l \in {"accepted", "idempotent"} : Earned(l)' = Earned(l)
  BY <1>1 DEF Earned, Told
<1>6. Retries' = Retries
  BY <1>1 DEF Retries
<1>7. SoldOut' = SoldOut
  BY <1>1 DEF SoldOut, OutOfStock
<1>8. Announced(label)' = Announced(label) \union {r}
  BY <1>0, <1>1, <1>2, <1>4 DEF Announced
<1>9. Spent(label)' = Spent(label) \union {r} /\ r \notin Spent(label)
  <2>1. ~Working(r)'
    BY <1>2 DEF Working
  <2>2. \A q \in Requests \ {r} : Working(q)' <=> Working(q)
    BY <1>1, <1>2 DEF Working, InTransaction
  <2> QED
    BY <1>0, <1>1, <1>2, <1>4, <2>1, <2>2 DEF Spent
<1>10. /\ IsFiniteSet(Earned(label) \union Announced(label)) /\ IsFiniteSet(Spent(label))
       /\ Retries \in Nat
       /\ Cardinality(Earned(label) \union Announced(label)) \in Nat
       /\ Cardinality(Spent(label)) \in Nat
  BY CountsAreFinite, FS_CardinalityType
<1>11. Metric[label] \in {"accepted", "duplicates"}
  BY DEF Metric
<1>12. /\ counters'[Metric[label]] = counters[Metric[label]] + 1
       /\ \A m \in {"started", "accepted", "duplicates", "outOfStock"} \ {Metric[label]} :
            counters'[m] = counters[m]
  BY <1>0, <1>11 DEF Reports
<1>13. counters[Metric[label]] \in Nat
  BY <1>0, <1>11
<1>14. counters'[Metric[label]] >= Cardinality((Earned(label) \union Announced(label))')
  <2>1. (Earned(label) \union Announced(label))'
          = (Earned(label) \union Announced(label)) \union {r}
    BY <1>5, <1>8
  <2>2. Cardinality((Earned(label) \union Announced(label)) \union {r})
          <= Cardinality(Earned(label) \union Announced(label)) + 1
    <3> DEFINE counted == Earned(label) \union Announced(label)
    <3>1. IsFiniteSet(counted) /\ Cardinality(counted) \in Nat
      BY <1>10
    <3> HIDE DEF counted
    <3>2. Cardinality(counted \union {r})
            = IF r \in counted THEN Cardinality(counted) ELSE Cardinality(counted) + 1
      BY <3>1, FS_AddElement, Zenon
    <3>3. Cardinality(counted \union {r}) <= Cardinality(counted) + 1
      BY <3>1, <3>2
    <3> QED
      BY <3>3 DEF counted
  <2>3. counters[Metric[label]] >= Cardinality(Earned(label) \union Announced(label))
    BY DEF ReportsAreCounted
  <2>4. Cardinality((Earned(label) \union Announced(label))')
          <= Cardinality(Earned(label) \union Announced(label)) + 1
    BY <2>1, <2>2, Zenon
  <2>5. Cardinality((Earned(label) \union Announced(label))') \in Nat
    <3>1. IsFiniteSet((Earned(label) \union Announced(label)) \union {r})
      BY <1>10, FS_AddElement
    <3>2. IsFiniteSet((Earned(label) \union Announced(label))')
      BY <2>1, <3>1, Zenon
    <3> QED
      BY <3>2, FS_CardinalityType
  <2> QED
    BY <1>10, <1>12, <1>13, <2>3, <2>4, <2>5
<1>15. counters'[Metric[label]] <= Retries' + Cardinality(Spent(label)')
  <2>1. Cardinality(Spent(label) \union {r}) = Cardinality(Spent(label)) + 1
    BY <1>9, <1>10, FS_AddElement
  <2>2. Cardinality(Spent(label)') = Cardinality(Spent(label)) + 1
    BY <1>9, <2>1, Zenon
  <2>3. counters[Metric[label]] <= Retries + Cardinality(Spent(label))
    BY DEF ReportsAreCounted
  <2> QED
    BY <1>6, <1>10, <1>12, <1>13, <2>2, <2>3
<1>16. ASSUME NEW other \in {"accepted", "idempotent"}, other # label
       PROVE  /\ counters'[Metric[other]] >= Cardinality((Earned(other) \union Announced(other))')
              /\ counters'[Metric[other]] <= Retries' + Cardinality(Spent(other)')
  <2>1. Announced(other)' = Announced(other)
    <3>1. r \notin Announced(other) /\ r \notin Announced(other)'
      BY <1>2, <1>16 DEF Announced, Reports
    <3>2. \A q \in received \ {r} : q \in Announced(other) <=> q \in Announced(other)'
      BY <1>0, <1>1, <1>2 DEF Announced
    <3>3. Announced(other) \subseteq received /\ Announced(other)' \subseteq received
      BY <1>1 DEF Announced
    <3> QED
      BY <3>1, <3>2, <3>3
  <2>2. Spent(other)' = Spent(other)
    <3>1. \A q \in Requests \ {r} : Working(q)' <=> Working(q)
      BY <1>1, <1>2 DEF Working, InTransaction
    <3> QED
      BY <1>0, <1>1, <1>2, <1>4, <1>16, <3>1 DEF Spent
  <2>3. counters'[Metric[other]] = counters[Metric[other]]
    BY <1>12, <1>16 DEF Metric
  <2>4. (Earned(other) \union Announced(other))' = Earned(other) \union Announced(other)
    BY <1>5, <2>1
  <2> QED
    <3>1. /\ counters[Metric[other]] >= Cardinality(Earned(other) \union Announced(other))
          /\ counters[Metric[other]] <= Retries + Cardinality(Spent(other))
      BY DEF ReportsAreCounted
    <3> QED
      BY <1>6, <2>2, <2>3, <2>4, <3>1, Zenon
<1>17. counters'.started = counters.started /\ counters'.outOfStock = counters.outOfStock
  BY <1>11, <1>12
<1>18. ReportsAreCounted'
  BY <1>1, <1>7, <1>14, <1>15, <1>16, <1>17 DEF ReportsAreCounted
<1> QED
  BY <1>3, <1>18

\* Every step of a call that reports no purchase and no replay keeps the counters right.
LEMMA QuietCounts ==
    ASSUME TelemetryInv, CountInv, TelemetryInv', NEW r \in Requests,
           Step(r), Quiet(r), UNCHANGED <<outcome, before>>,
           \/ /\ UNCHANGED <<counters, received>>
              /\ OutOfStock(r)' <=> OutOfStock(r)
           \/ RejectReported(r) \/ StartReported(r)
    PROVE  CountInv'
<1> USE DEF CountInv
<1>0. /\ counters \in [{"started", "accepted", "duplicates", "outOfStock"} -> Nat]
      /\ received \subseteq Requests /\ IsFiniteSet(received)
  BY DEF TelemetryInv, TelemetryTypeOK, Zero, CallsAreReceived
<1>1. \/ UNCHANGED received
      \/ pc[r] = "idle" /\ r \notin received /\ received' = received \union {r}
  BY DEF RejectReported, StartReported, Start, history, CallsAreReceived
<1>2. \A q \in Requests \ {r} : /\ pc'[q] = pc[q] /\ result'[q] = result[q]
                                /\ stage'[q] = stage[q]
  BY OthersKeep
<1>3. CallsAreReceived'
  <2>1. IsFiniteSet(received')
    BY <1>0, <1>1, FS_AddElement
  <2>2. orders' \ before' \subseteq received'
    <3>1. stage[r] = "reported" => r \in received
      BY DEF TelemetryInv, TelemetryTypeOK, CallsAreReceived, InFlight, InTransaction
    <3> QED
      BY <1>1, <3>1 DEF Quiet, CallsAreReceived
  <2>3. \A q \in Requests \ {r} : InFlight(q)' <=> InFlight(q)
    BY <1>2 DEF InFlight, InTransaction
  <2>4. \A q \in Requests \ {r} : q \in received' <=> q \in received
    BY <1>1
  <2>5. ASSUME NEW q \in Requests
        PROVE  /\ pc'[q] = "idle" => q \notin received'
               /\ InFlight(q)' => q \in received'
               /\ pc'[q] = "invalidating" => result'[q].status \in {200, 202}
    <3>1. CASE q = r
      BY <3>1 DEF Quiet
    <3>2. CASE q # r
      BY <1>2, <2>3, <2>4, <3>2 DEF CallsAreReceived
    <3> QED
      BY <3>1, <3>2
  <2> QED
    BY <2>1, <2>2, <2>5 DEF CallsAreReceived
<1>4. \A q : q \in SoldOut <=> q \in received /\ OutOfStock(q)
  BY DEF SoldOut
<1>5. \A q : q \in SoldOut' <=> q \in received' /\ OutOfStock(q)'
  BY DEF SoldOut
<1>6. IsFiniteSet(SoldOut) /\ Cardinality(SoldOut) \in Nat
  <2>1. IsFiniteSet(SoldOut)
    BY <1>0, FS_Subset DEF SoldOut
  <2> QED
    BY <2>1, FS_CardinalityType
<1>7. /\ counters'.accepted = counters.accepted
      /\ counters'.duplicates = counters.duplicates
  BY <1>0 DEF RejectReported, StartReported, Count
<1>8. ASSUME NEW label \in {"accepted", "idempotent"}
      PROVE  /\ counters'[Metric[label]] >= Cardinality((Earned(label) \union Announced(label))')
             /\ counters'[Metric[label]] <= Retries' + Cardinality(Spent(label)')
  <2> DEFINE counted == Earned(label) \union Announced(label)
             now     == (Earned(label) \union Announced(label))'
  <2>1. /\ IsFiniteSet(counted) /\ IsFiniteSet(Spent(label)) /\ IsFiniteSet(Spent(label)')
        /\ Retries \in Nat /\ Retries' \in Nat
    <3>1. /\ IsFiniteSet(counted) /\ IsFiniteSet(Spent(label)) /\ Retries \in Nat
      BY CountsAreFinite
    <3>2. \A q \in received' : attempt'[q] \in Nat
      BY DEF TelemetryInv, CoreInv, TypeOK, TelemetryTypeOK
    <3>3. IsFiniteSet(received') /\ Spent(label)' \subseteq received'
      BY <1>3 DEF CallsAreReceived, Spent
    <3>4. Retries' = Sum(attempt', received')
      BY DEF Retries
    <3>5. IsFiniteSet(Units(received', attempt'))
          /\ Sum(attempt', received') = Cardinality(Units(received', attempt'))
      BY <3>2, <3>3, SumIsCount
    <3>6. IsFiniteSet(Spent(label)')
      BY <3>3, FS_Subset
    <3> QED
      BY <3>1, <3>4, <3>5, <3>6, FS_CardinalityType
  <2>2. now \subseteq counted
    BY <1>1, QuietAddsNobody
  <2>3. Retries + Cardinality(Spent(label)) <= Retries' + Cardinality(Spent(label)')
    BY <1>1, <1>3, QuietSpendsNothing
  <2>4. /\ counters[Metric[label]] >= Cardinality(counted)
        /\ counters[Metric[label]] <= Retries + Cardinality(Spent(label))
    BY DEF ReportsAreCounted
  <2>5. counters'[Metric[label]] = counters[Metric[label]] /\ counters[Metric[label]] \in Nat
    BY <1>0, <1>7 DEF Metric
  <2> HIDE DEF counted, now
  <2>6. IsFiniteSet(now) /\ Cardinality(now) <= Cardinality(counted)
    BY <2>1, <2>2, FS_Subset
  <2>7. /\ Cardinality(now) \in Nat /\ Cardinality(counted) \in Nat
        /\ Cardinality(Spent(label)) \in Nat /\ Cardinality(Spent(label)') \in Nat
    BY <2>1, <2>6, FS_CardinalityType
  <2>8. counters'[Metric[label]] >= Cardinality(now)
    BY <2>4, <2>5, <2>6, <2>7
  <2>9. counters'[Metric[label]] <= Retries' + Cardinality(Spent(label)')
    BY <2>1, <2>3, <2>4, <2>5, <2>7
  <2> QED
    BY <2>8, <2>9 DEF now
<1>9. /\ counters'.started = Cardinality(received')
      /\ counters'.outOfStock = Cardinality(SoldOut')
  <2>1. CASE /\ UNCHANGED <<counters, received>>
             /\ OutOfStock(r)' <=> OutOfStock(r)
    <3>1. SoldOut' = SoldOut
      <4>1. ASSUME NEW q \in received PROVE OutOfStock(q)' <=> OutOfStock(q)
        <5>1. CASE q = r
          BY <2>1, <5>1
        <5>2. CASE q # r
          <6>1. result'[q] = result[q]
            BY <1>0, <1>2, <5>2
          <6> QED
            BY <6>1 DEF OutOfStock
        <5> QED
          BY <5>1, <5>2
      <4>2. received' = received
        BY <2>1
      <4>3. \A q : q \in SoldOut' <=> q \in SoldOut
        BY <1>4, <1>5, <4>1, <4>2
      <4> QED
        BY <4>3
    <3> QED
      BY <2>1, <3>1 DEF ReportsAreCounted
  <2>2. CASE RejectReported(r)
    <3>1. r \in received /\ OutOfStock(r)' /\ ~OutOfStock(r)
      BY <2>2, RejectionIsQuiet
    <3>2. UNCHANGED received /\ counters'.started = counters.started
          /\ counters'.outOfStock = counters.outOfStock + 1
      BY <1>0, <2>2 DEF RejectReported, Count, history
    <3>3. SoldOut' = SoldOut \union {r} /\ r \notin SoldOut
      <4>1. \A q \in received \ {r} : OutOfStock(q)' <=> OutOfStock(q)
        BY <1>0, <1>2 DEF OutOfStock
      <4>2. r \in SoldOut'
        BY <1>5, <3>1, <3>2
      <4>3. ASSUME NEW q, q # r PROVE q \in SoldOut' <=> q \in SoldOut
        BY <1>4, <1>5, <3>2, <4>1, <4>3
      <4> QED
        BY <1>4, <3>1, <4>2, <4>3
    <3>4. Cardinality(SoldOut \union {r}) = Cardinality(SoldOut) + 1
      <4> DEFINE told == SoldOut
      <4>1. IsFiniteSet(told) /\ r \notin told
        BY <1>6, <3>3
      <4> HIDE DEF told
      <4> QED
        BY <4>1, FS_AddElement DEF told
    <3>5. Cardinality(SoldOut') = Cardinality(SoldOut) + 1
      BY <3>3, <3>4, Zenon
    <3> QED
      BY <3>2, <3>5 DEF ReportsAreCounted
  <2>3. CASE StartReported(r)
    <3>1. /\ pc[r] = "idle" /\ UNCHANGED result
          /\ received' = received \union {r} /\ r \notin received
          /\ counters'.outOfStock = counters.outOfStock
          /\ counters'.started = counters.started + 1
      BY <1>0, <2>3 DEF StartReported, Start, Count, CallsAreReceived
    <3>2. result[r].status = 0
      <4>1. result[r] = NoResult
        BY <3>1 DEF TelemetryInv, CoreInv, UnansweredBeforeCommit
      <4> QED
        BY <4>1 DEF NoResult, Response
    <3>3. SoldOut' = SoldOut
      <4>1. \A q : q \in SoldOut' <=> q \in SoldOut
        BY <1>4, <1>5, <3>1, <3>2 DEF OutOfStock
      <4> QED
        BY <4>1
    <3>4. Cardinality(received \union {r}) = Cardinality(received) + 1
      BY <1>0, <3>1, FS_AddElement
    <3>5. Cardinality(received') = Cardinality(received) + 1
      BY <3>1, <3>4, Zenon
    <3> QED
      BY <3>1, <3>3, <3>5 DEF ReportsAreCounted
  <2> QED
    BY <2>1, <2>2, <2>3
<1>10. ReportsAreCounted'
  BY <1>8, <1>9 DEF ReportsAreCounted
<1> QED
  BY <1>3, <1>10

\* A process starts with nothing counted and nobody to count.
LEMMA NothingCounted ==
    ASSUME received' = {}, counters' = Zero, orders' \subseteq before',
           \A r \in Requests : ~InFlight(r)'
    PROVE  CountInv'
<1>1. IsFiniteSet({}) /\ Cardinality({}) = 0
  BY FS_EmptySet
<1>2. CallsAreReceived'
  <2>1. \A r \in Requests : pc'[r] # "invalidating"
    BY DEF InFlight
  <2> QED
    BY <1>1, <2>1 DEF CallsAreReceived
<1>3. /\ counters'.started = 0 /\ counters'.outOfStock = 0
      /\ counters'.accepted = 0 /\ counters'.duplicates = 0
  BY DEF Zero
<1>4. SoldOut' = {} /\ Told({200})' = {}
  BY DEF Told, SoldOut
<1>5. Retries' = 0
  <2>1. Retries' = Sum(attempt', {})
    BY DEF Retries
  <2>2. Sum(attempt', {}) = Cardinality(Units({}, attempt'))
    BY <1>1, SumIsCount
  <2>3. Units({}, attempt') = {}
    BY DEF Units
  <2> QED
    BY <1>1, <2>1, <2>2, <2>3
<1>6. ASSUME NEW label \in {"accepted", "idempotent"}
      PROVE  /\ counters'[Metric[label]] = 0
             /\ (Earned(label) \union Announced(label))' = {}
             /\ Spent(label)' = {}
  <2>1. Earned(label)' = {}
    BY <1>4 DEF Earned
  <2>2. Announced(label)' = {} /\ Spent(label)' = {}
    BY DEF Announced, Spent
  <2> QED
    BY <1>3, <2>1, <2>2 DEF Metric
<1>7. \A label \in {"accepted", "idempotent"} :
        /\ Cardinality((Earned(label) \union Announced(label))') = 0
        /\ Cardinality(Spent(label)') = 0
  BY <1>1, <1>6, Zenon
<1>8. ReportsAreCounted'
  BY <1>1, <1>3, <1>4, <1>5, <1>6, <1>7 DEF ReportsAreCounted
<1> QED
  BY <1>2, <1>8 DEF CountInv

\* Nothing happens to the counts while nothing happens.
LEMMA StutterCounts == CountInv /\ UNCHANGED telemetryVars => CountInv'
<1> SUFFICES ASSUME CountInv, UNCHANGED telemetryVars PROVE CountInv'
  OBVIOUS
<1>1. UNCHANGED <<pc, attempt, result, orders, counters, outcome, stage, received, before>>
  BY DEF telemetryVars, telemetry, reports, history, vars, store, request
<1>2. CallsAreReceived'
  BY <1>1 DEF CountInv, CallsAreReceived, InFlight, InTransaction
<1>3. SoldOut' = SoldOut /\ Told({200})' = Told({200}) /\ Retries' = Retries
  BY <1>1 DEF Told, SoldOut, OutOfStock, Retries
<1>4. \A label \in {"accepted", "idempotent"} :
        /\ Earned(label)' = Earned(label) /\ Announced(label)' = Announced(label)
        /\ Spent(label)' = Spent(label)
  <2>1. \A r : Working(r)' <=> Working(r)
    BY <1>1 DEF Working, InTransaction
  <2>2. \A label : Spent(label)' = Spent(label)
    BY <1>1, <2>1 DEF Spent
  <2>3. \A label : Announced(label)' = Announced(label)
    BY <1>1 DEF Announced
  <2>4. \A label : Earned(label)' = Earned(label)
    BY <1>1, <1>3 DEF Earned
  <2> QED
    BY <2>2, <2>3, <2>4
<1>5. ReportsAreCounted'
  <2>1. ReportsAreCounted /\ counters' = counters /\ received' = received
    BY <1>1 DEF CountInv
  <2>2. counters'.started = Cardinality(received') /\ counters'.outOfStock = Cardinality(SoldOut')
    BY <1>3, <2>1 DEF ReportsAreCounted
  <2>3. ASSUME NEW label \in {"accepted", "idempotent"}
        PROVE  /\ counters'[Metric[label]] >= Cardinality((Earned(label) \union Announced(label))')
               /\ counters'[Metric[label]] <= Retries' + Cardinality(Spent(label)')
    <3>1. /\ counters[Metric[label]] >= Cardinality(Earned(label) \union Announced(label))
          /\ counters[Metric[label]] <= Retries + Cardinality(Spent(label))
      BY <2>1 DEF ReportsAreCounted
    <3>2. /\ Earned(label)' = Earned(label) /\ Announced(label)' = Announced(label)
          /\ Spent(label)' = Spent(label) /\ Retries' = Retries
      BY <1>3, <1>4
    <3> QED
      BY <2>1, <3>1, <3>2, Zenon
  <2> QED
    BY <2>2, <2>3 DEF ReportsAreCounted
<1> QED
  BY <1>2, <1>5 DEF CountInv

\* Every step keeps the counters right.
LEMMA CountStep ==
    TelemetryInv /\ TelemetryInv' /\ CountInv /\ [TelemetryNext]_telemetryVars => CountInv'
<1> SUFFICES ASSUME TelemetryInv, TelemetryInv', CountInv, [TelemetryNext]_telemetryVars
             PROVE  CountInv'
  OBVIOUS
<1>1. ASSUME NEW r \in Requests, Step(r) PROVE CountInv'
  <2>1. CASE RecordIdempotencyDuplicate(r)
    <3>1. Reports(r, "idempotent")
      BY <2>1 DEF RecordIdempotencyDuplicate, Reports, Count, SetOutcome, AtStage, Metric,
         InTransaction
    <3> QED
      BY <3>1, ReportCounts
  <2>2. CASE RecordCheckoutAccepted(r)
    <3>1. InTransaction(r)
      BY <2>2 DEF RecordCheckoutAccepted, TelemetryInv, TelemetryTypeOK, InTransaction
    <3>2. Reports(r, "accepted")
      BY <2>2, <3>1 DEF RecordCheckoutAccepted, Reports, Count, SetOutcome, AtStage, Metric
    <3> QED
      BY <3>2, ReportCounts
  <2>3. CASE RejectReported(r)
    <3>1. Quiet(r)
      BY <2>3, RejectionIsQuiet DEF CountInv
    <3>2. UNCHANGED <<outcome, before>>
      BY <2>3 DEF RejectReported, history
    <3> QED
      BY <1>1, <2>3, <3>1, <3>2, QuietCounts
  <2>4. CASE StartReported(r)
    <3>1. Quiet(r)
      BY <2>4, OthersAreQuiet DEF CountInv
    <3>2. UNCHANGED <<outcome, before>>
      BY <2>4 DEF StartReported
    <3> QED
      BY <1>1, <2>4, <3>1, <3>2, QuietCounts
  <2>5. CASE CreateOrder(r) \/ CommitReported(r) \/ Silent(r) \/ RolledBack(r)
    <3>1. Quiet(r) /\ (OutOfStock(r)' <=> OutOfStock(r))
      BY <2>5, OthersAreQuiet DEF CountInv
    <3>2. UNCHANGED <<outcome, before, counters, received>>
      BY <2>5 DEF CreateOrder, CommitReported, Silent, RolledBack, telemetry, reports,
         history
    <3> QED
      BY <1>1, <3>1, <3>2, QuietCounts
  <2> QED
    BY <1>1, <2>1, <2>2, <2>3, <2>4, <2>5 DEF Step
<1>2. CASE CrashReported
  <2>1. \A r \in Requests : ~InFlight(r)'
    BY <1>2 DEF CrashReported, Crash, InFlight, InTransaction, TelemetryInv, CoreInv, TypeOK
  <2>2. orders' \subseteq before'
    BY <1>2 DEF CrashReported, Crash, store
  <2> QED
    BY <1>2, <2>1, <2>2, NothingCounted DEF CrashReported
<1>3. CASE (AllFinished /\ UNCHANGED telemetry) \/ UNCHANGED telemetryVars
  BY <1>3, StutterCounts DEF AllFinished, telemetryVars
<1> QED
  BY <1>1, <1>2, <1>3 DEF TelemetryNext, Step

\* Nothing is counted before the first call.
LEMMA CountInit == TelemetryInit => CountInv
<1> SUFFICES ASSUME TelemetryInit PROVE CountInv
  OBVIOUS
<1>1. IsFiniteSet({}) /\ Cardinality({}) = 0
  BY FS_EmptySet
<1>2. /\ received = {} /\ orders = {} /\ before = {} /\ pc = [r \in Requests |-> "idle"]
      /\ counters = Zero
  BY DEF TelemetryInit, Init
<1>3. CallsAreReceived
  BY <1>1, <1>2 DEF CallsAreReceived, InFlight, InTransaction
<1>4. SoldOut = {} /\ Told({200}) = {}
  BY <1>2 DEF Told, SoldOut
<1>5. \A label \in {"accepted", "idempotent"} :
        Earned(label) \union Announced(label) = {} /\ Spent(label) = {}
  BY <1>2, <1>4 DEF Earned, Announced, Spent
<1>6. Retries = 0
  <2>1. Sum(attempt, {}) = Cardinality(Units({}, attempt))
    BY <1>1, SumIsCount
  <2>2. Units({}, attempt) = {}
    BY DEF Units
  <2> QED
    BY <1>1, <1>2, <2>1, <2>2 DEF Retries
<1>7. \A label \in {"accepted", "idempotent"} : counters[Metric[label]] = 0
  BY <1>2 DEF Metric, Zero
<1>8. counters.started = 0 /\ counters.outOfStock = 0
  BY <1>2 DEF Zero
<1>9. ReportsAreCounted
  <2>1. \A label \in {"accepted", "idempotent"} :
          /\ Cardinality(Earned(label) \union Announced(label)) = 0
          /\ Cardinality(Spent(label)) = 0
    BY <1>1, <1>5, Zenon
  <2> QED
    BY <1>1, <1>2, <1>4, <1>6, <1>7, <1>8, <2>1 DEF ReportsAreCounted
<1> QED
  BY <1>3, <1>9 DEF CountInv

\* What a counter has in excess is in reach of the calls that are not done right.
LEMMA CountsBound == TelemetryInv /\ CountInv => CountersAreBounded
<1> SUFFICES ASSUME TelemetryInv, CountInv PROVE CountersAreBounded
  OBVIOUS
<1> USE DEF CountInv
<1>0. counters \in [{"started", "accepted", "duplicates", "outOfStock"} -> Nat]
  BY DEF TelemetryInv, TelemetryTypeOK, Zero
<1>1. ASSUME NEW label \in {"accepted", "idempotent"}
      PROVE  /\ counters[Metric[label]] >= Cardinality(Earned(label))
             /\ counters[Metric[label]] <= Cardinality(Earned(label)) + Retries
                                             + Cardinality(Unearned(label, Earned(label)))
  <2> DEFINE earned == Earned(label)
             counted == Earned(label) \union Announced(label)
             unearned == Unearned(label, Earned(label))
  <2>1. IsFiniteSet(earned) /\ IsFiniteSet(counted) /\ IsFiniteSet(Spent(label))
        /\ Retries \in Nat
    BY CountsAreFinite
  <2>2. IsFiniteSet(unearned)
    <3>1. unearned \subseteq received
      BY DEF Unearned
    <3> QED
      BY <3>1, FS_Subset DEF CallsAreReceived
  <2>3. earned \subseteq counted /\ Spent(label) \subseteq earned \union unearned
    BY DEF Spent, Unearned
  <2>4. earned \intersect unearned = {}
    BY DEF Unearned
  <2>5. counters[Metric[label]] >= Cardinality(counted)
        /\ counters[Metric[label]] <= Retries + Cardinality(Spent(label))
    BY DEF ReportsAreCounted
  <2>6. counters[Metric[label]] \in Nat
    BY <1>0 DEF Metric
  <2> HIDE DEF earned, counted, unearned
  <2>7. Cardinality(earned) <= Cardinality(counted)
    BY <2>1, <2>3, FS_Subset
  <2>8. /\ IsFiniteSet(earned \union unearned)
        /\ Cardinality(earned \union unearned)
             = Cardinality(earned) + Cardinality(unearned) - Cardinality(earned \intersect unearned)
    BY <2>1, <2>2, FS_Union, Zenon
  <2>9. Cardinality(Spent(label)) <= Cardinality(earned \union unearned)
    BY <2>3, <2>8, FS_Subset, Zenon
  <2>10. /\ Cardinality(earned) \in Nat /\ Cardinality(unearned) \in Nat
         /\ Cardinality(counted) \in Nat /\ Cardinality(Spent(label)) \in Nat
         /\ Cardinality(earned \union unearned) \in Nat
    BY <2>1, <2>2, <2>8, FS_CardinalityType, Zenon
  <2>11. Cardinality(earned \intersect unearned) = 0
    BY <2>4, FS_EmptySet, Zenon
  <2>12. counters[Metric[label]] >= Cardinality(earned)
    BY <2>5, <2>6, <2>7, <2>10
  <2>13. counters[Metric[label]] <= Cardinality(earned) + Retries + Cardinality(unearned)
    <3>1. Cardinality(earned \union unearned) = Cardinality(earned) + Cardinality(unearned)
      BY <2>8, <2>10, <2>11
    <3> QED
      BY <2>1, <2>5, <2>6, <2>9, <2>10, <3>1
  <2> QED
    BY <2>12, <2>13 DEF earned, unearned
<1>2. Metric["accepted"] = "accepted" /\ Metric["idempotent"] = "duplicates"
  BY DEF Metric
<1>3. Earned("accepted") = orders \ before /\ Earned("idempotent") = Told({200})
  BY DEF Earned
<1>4. /\ counters["accepted"] >= Cardinality(Earned("accepted"))
      /\ counters["accepted"] <= Cardinality(Earned("accepted")) + Retries
                                  + Cardinality(Unearned("accepted", Earned("accepted")))
      /\ counters["duplicates"] >= Cardinality(Earned("idempotent"))
      /\ counters["duplicates"] <= Cardinality(Earned("idempotent")) + Retries
                                  + Cardinality(Unearned("idempotent", Earned("idempotent")))
  BY <1>1, <1>2
<1>5. counters.started = Cardinality(received) /\ counters.outOfStock = Cardinality(SoldOut)
  BY DEF ReportsAreCounted
<1> QED
  BY <1>3, <1>4, <1>5 DEF CountersAreBounded

\* The inductive invariants together.
THEOREM TelemetryInvariants == TelemetrySpec => []TelemetryProofInvariants
<1> DEFINE Inv == TelemetryInv /\ CountInv
<1>1. Inv /\ [TelemetryNext]_telemetryVars => Inv'
  BY TelemetryStep, CountStep
<1>2. TelemetryInit => Inv
  BY TelemetryInitInv, CountInit
<1>3. Inv => TelemetryProofInvariants
  BY DEF TelemetryInv, TelemetryProofInvariants
<1> QED
  BY <1>1, <1>2, <1>3, PTL DEF TelemetrySpec

\* A counter never misses what was sold, repeated or refused for want of stock; beyond
\* that it has one for each retry and for each call whose reported attempt came to
\* nothing, or is open.
THEOREM CountersRight == TelemetrySpec => []CountersAreBounded
<1> DEFINE Inv == TelemetryInv /\ CountInv
<1>1. Inv /\ [TelemetryNext]_telemetryVars => Inv'
  BY TelemetryStep, CountStep
<1>2. TelemetryInit => Inv
  BY TelemetryInitInv, CountInit
<1>3. Inv => CountersAreBounded
  BY CountsBound
<1> QED
  BY <1>1, <1>2, <1>3, PTL DEF TelemetrySpec
=============================================================================
