----------------------------- MODULE Telemetry ------------------------------
(***************************************************************************)
(* What the API reports about the checkouts of module Checkout: the        *)
(* counters of MetricsService, the outcome that labels the duration of a   *)
(* call, and the order id in the context of a call's span                  *)
(* (libs/observability, checkout.service.ts).                              *)
(*                                                                         *)
(* Counters, outcome and context are set INSIDE the transaction callback,  *)
(* which the retry loop may run again, and before the COMMIT, which may    *)
(* fail: what they say of an attempt is not undone by its rollback.        *)
(*                                                                         *)
(* Every attempt creates an order with a fresh id; here, the request and   *)
(* the number of the attempt.                                              *)
(***************************************************************************)
EXTENDS Checkout

VARIABLES
    counters,  \* orders_accepted_total and the like, of the running process
    outcome,   \* the local variable of the call, the label of its duration
    context,   \* orderId of the span's context, or None
    stage,     \* how far the open transaction has created and reported
    received,  \* history: the calls the running process has started
    before     \* history: the orders that are older than the running process

reports == <<counters, outcome, context, stage>>
history == <<received, before>>
telemetry == <<reports, history>>
telemetryVars == <<vars, telemetry>>

Zero == [started |-> 0, accepted |-> 0, duplicates |-> 0, outOfStock |-> 0]

OrderId(r) == <<r, attempt[r]>>

TelemetryInit ==
    /\ Init
    /\ counters = Zero
    /\ outcome = [r \in Requests |-> "error"]
    /\ context = [r \in Requests |-> None]
    /\ stage = [r \in Requests |-> "none"]
    /\ received = {}
    /\ before = {}

Count(metric) == counters' = [counters EXCEPT ![metric] = @ + 1]

\* Mutant: the first order id is kept.
SetOrderIdOnce(r, id) ==
    context' = IF context[r] = None THEN [context EXCEPT ![r] = id] ELSE context

\* The context startSpan has made for the call, not the one of the HTTP request.
SetOrderId(r, id) == context' = [context EXCEPT ![r] = id]

\* Mutant: the outcome an earlier attempt has set is kept.
SetOutcomeOnce(r, label) ==
    outcome' = IF outcome[r] = "error" THEN [outcome EXCEPT ![r] = label] ELSE outcome

SetOutcome(r, label) == outcome' = [outcome EXCEPT ![r] = label]

AtStage(r, s) == stage' = [stage EXCEPT ![r] = s]

-----------------------------------------------------------------------------
(* Steps of a call that report something *)

StartReported(r) ==
    /\ Start(r)
    /\ Count("started")
    /\ received' = received \union {r}
    /\ UNCHANGED <<outcome, context, stage, before>>

\* Mutant: a replay is counted as an accepted order.
RecordReplayAsAccepted(r) ==
    /\ pc[r] = "deciding" /\ stage[r] = "none"
    /\ Existing(r) # None /\ SamePayload(r)
    /\ Count("accepted")
    /\ SetOutcome(r, "idempotent")
    /\ SetOrderId(r, OrderId(Existing(r).orderId))
    /\ AtStage(r, "reported")
    /\ UNCHANGED <<vars, history>>

\* The replay is reported, and the callback returns: the COMMIT is next.
RecordIdempotencyDuplicate(r) ==
    /\ pc[r] = "deciding" /\ stage[r] = "none"
    /\ Existing(r) # None /\ SamePayload(r)
    /\ Count("duplicates")
    /\ SetOutcome(r, "idempotent")
    /\ SetOrderId(r, OrderId(Existing(r).orderId))
    /\ AtStage(r, "reported")
    /\ UNCHANGED <<vars, history>>

\* tx.order.create has returned; the event and the key's row are next.
CreateOrder(r) ==
    /\ ReadyToInsert(r) /\ stage[r] = "none"
    /\ Storable(Total(r)) /\ KeyIsFree(r)
    /\ SetOrderId(r, OrderId(r))
    /\ AtStage(r, "created")
    /\ UNCHANGED <<vars, counters, outcome, history>>

\* All rows are written, and the callback returns: the COMMIT is next.
RecordCheckoutAccepted(r) ==
    /\ stage[r] = "created"
    /\ Count("accepted")
    /\ SetOutcome(r, "accepted")
    /\ AtStage(r, "reported")
    /\ UNCHANGED <<vars, context, history>>

\* The COMMIT of a transaction that has reported.
CommitReported(r) ==
    /\ stage[r] = "reported"
    /\ Commit(r) \/ Replay(r)
    /\ AtStage(r, "none")
    /\ UNCHANGED <<counters, outcome, context, history>>

\* Mutant: a refusal for want of a price is counted too.
RejectAnyReported(r) ==
    /\ RejectUnavailable(r) \/ RejectUnpriced(r) \/ RejectInsufficient(r)
    /\ Count("outOfStock")
    /\ UNCHANGED <<outcome, context, stage, history>>

RejectReported(r) ==
    /\ RejectUnavailable(r) \/ RejectInsufficient(r)
    /\ Count("outOfStock")
    /\ UNCHANGED <<outcome, context, stage, history>>

-----------------------------------------------------------------------------
(* Steps that report nothing *)

Silent(r) ==
    /\ \/ Refuse(r) \/ Begin(r) \/ AcquireLock(r) \/ DeadlockVictim(r)
       \/ RejectReusedKey(r) \/ RejectUnpriced(r) \/ AcceptLines(r)
       \/ ReserveLine(r) \/ WriteConflict(r) \/ Overflow(r)
       \/ DuplicateKey(r)
       \/ Respond(r) \/ InvalidationFailure(r)
    /\ UNCHANGED telemetry

\* The transaction is rolled back wherever it is: nothing is taken back.
RolledBack(r) ==
    /\ SerializationFailure(r) \/ TransactionTimeout(r)
    /\ AtStage(r, "none")
    /\ UNCHANGED <<counters, outcome, context, history>>

\* Counters and contexts are in memory: the process that is started next has
\* neither.
CrashReported ==
    /\ Crash
    /\ counters' = Zero
    /\ context' = [r \in Requests |-> None]
    /\ stage' = [r \in Requests |-> "none"]
    /\ received' = {}
    /\ before' = orders
    /\ UNCHANGED outcome

TelemetryNext ==
    \/ \E r \in Requests :
        \/ StartReported(r) \/ RecordIdempotencyDuplicate(r) \/ RejectReported(r)
        \/ CreateOrder(r) \/ RecordCheckoutAccepted(r) \/ CommitReported(r)
        \/ Silent(r) \/ RolledBack(r)
    \/ CrashReported
    \/ AllFinished /\ UNCHANGED telemetry

TelemetrySpec == TelemetryInit /\ [][TelemetryNext]_telemetryVars
-----------------------------------------------------------------------------
(* Properties *)

OrderIds == Requests \X (0 .. MaxAttempts - 1)

\* Checkout's own type invariant, and reports the code can make; a transaction
\* has created or reported something only while it is open.
TelemetryTypeOK ==
    /\ TypeOK
    /\ counters \in [DOMAIN Zero -> Nat]
    /\ outcome \in [Requests -> {"error", "accepted", "idempotent"}]
    /\ context \in [Requests -> OrderIds \union {None}]
    /\ stage \in [Requests -> {"none", "created", "reported"}]
    /\ received \in SUBSET Requests
    /\ \A r \in Requests : stage[r] # "none" => pc[r] \in {"deciding", "reserving"}

\* Retries of the calls this process has received.
Sum(used, calls) == MapThenSumSet(LAMBDA r : used[r], calls)
Retries == Sum(attempt, received)

Told(statuses) == {r \in received : pc[r] # "begin" /\ result[r].status \in statuses}

\* The calls that were refused for want of stock: a 422 for a product without a price
\* is not reported as one.
OutOfStock(r) == result[r].status = 422 /\ result[r].cause # "unpriced"
SoldOut == {r \in received : OutOfStock(r)}

\* The measured calls that did not get what their outcome says.
Unearned(label, earned) == {r \in received \ earned : outcome[r] = label}

\* orders_accepted_total and idempotency_duplicate_total never miss a purchase or
\* a replay, and exceed them by at most one for each retry and for each call whose
\* last attempt was rolled back or is still open; orders_rejected_out_of_stock_total
\* is the number of refusals for stock (metrics.service.ts:41-61).
CountersAreBounded ==
    /\ counters.started = Cardinality(received)
    /\ LET bought == orders \ before IN
        /\ counters.accepted >= Cardinality(bought)
        /\ counters.accepted <= Cardinality(bought) + Retries
                                 + Cardinality(Unearned("accepted", bought))
    /\ LET replayed == Told({200}) IN
        /\ counters.duplicates >= Cardinality(replayed)
        /\ counters.duplicates <= Cardinality(replayed) + Retries
                                   + Cardinality(Unearned("idempotent", replayed))
    /\ counters.outOfStock = Cardinality(SoldOut)

\* The label is the one of the answer, but for an error after a reported commit or
\* a rolled back report.
OutcomeIsTruthful(r) == LET res == result[r] IN
    /\ res.status = 202 => outcome[r] = "accepted"
    /\ res.status = 200 => outcome[r] = "idempotent"
    /\ (res.status >= 400 /\ outcome[r] # "error") =>
         \/ res.cause \in {"invalidation", "write_conflict", "timeout"}
         \/ attempt[r] > 0

\* The outcome that labels a call's duration is the one of its answer; a call that
\* is answered an error is measured as a success only when the cache could not
\* be invalidated, or when an attempt that had reported was rolled back.
OutcomesAreTruthful == \A r \in received : pc[r] = "done" => OutcomeIsTruthful(r)

\* A span that ends well names the order of the answer, whatever an earlier attempt
\* had written there; and no span ever names the order of another key.
SpansNameTheOrder ==
    \A r \in Requests : context[r] # None =>
        /\ KeyOf[context[r][1]] = KeyOf[r]
        /\ result[r].status \in {200, 202} => context[r] = OrderId(result[r].order)
-----------------------------------------------------------------------------
(* The inductive invariants behind the properties *)

\* A transaction that has reported something can only do what it has reported.
ReportsAhead ==
    \A r \in Requests : stage[r] # "none" =>
        \/ /\ pc[r] = "deciding" /\ stage[r] = "reported"
           /\ Existing(r) # None /\ SamePayload(r)
           /\ outcome[r] = "idempotent"
           /\ context[r] = OrderId(Existing(r).orderId)
        \/ /\ pc[r] = "reserving" /\ reserved[r] = ProductsOf(r)
           /\ Storable(Total(r)) /\ KeyIsFree(r)
           /\ stage[r] = "reported" => outcome[r] = "accepted"
           /\ context[r] = OrderId(r)

\* An outcome is there because the transaction has reported it, or an earlier one had.
OutcomesHaveReasons ==
    \A r \in Requests :
        /\ pc[r] = "idle" => outcome[r] = "error"
        /\ (pc[r] = "begin" \/ InTransaction(r)) /\ stage[r] # "reported" =>
             outcome[r] = "error" \/ attempt[r] > 0
        /\ pc[r] \in {"invalidating", "done"} => OutcomeIsTruthful(r)

\* What makes each step keep outcomes and spans true.
TelemetryInv ==
    /\ CoreInv
    /\ TelemetryTypeOK
    /\ ReportsAhead
    /\ OutcomesHaveReasons
    /\ SpansNameTheOrder

\* A call whose current attempt has still to report.
Working(r) == (pc[r] = "begin" \/ InTransaction(r)) /\ stage[r] # "reported"

\* The counter of an outcome, the calls that got it, those that have reported it
\* ahead of their commit, and those whose current attempt may have counted it.
Metric           == [accepted |-> "accepted", idempotent |-> "duplicates"]
Earned(label)    == IF label = "accepted" THEN orders \ before ELSE Told({200})
Announced(label) == {r \in received : stage[r] = "reported" /\ outcome[r] = label}
Spent(label)     == {r \in received : outcome[r] = label /\ ~Working(r)}

\* The process has received every call that is in flight and every one that bought.
CallsAreReceived ==
    /\ IsFiniteSet(received)
    /\ orders \ before \subseteq received
    /\ \A r \in Requests :
        /\ pc[r] = "idle" => r \notin received
        /\ InFlight(r) => r \in received
        /\ pc[r] = "invalidating" => result[r].status \in {200, 202}

\* A purchase or a replay was counted when it was reported, and an attempt counts
\* once: whatever a counter has beyond that, a retry has left there.
ReportsAreCounted ==
    /\ counters.started = Cardinality(received)
    /\ counters.outOfStock = Cardinality(SoldOut)
    /\ \A label \in {"accepted", "idempotent"} :
        /\ counters[Metric[label]] >= Cardinality(Earned(label) \union Announced(label))
        /\ counters[Metric[label]] <= Retries + Cardinality(Spent(label))

\* What makes the counters right.
CountInv == CallsAreReceived /\ ReportsAreCounted

\* What the inductive invariants say of the reports, for the model checker.
TelemetryProofInvariants ==
    TelemetryTypeOK /\ ReportsAhead /\ OutcomesHaveReasons /\ CountInv
=============================================================================
