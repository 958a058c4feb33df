------------------------------- MODULE Billing ------------------------------
(***************************************************************************)
(* From a committed order to its invoice: the outbox publisher             *)
(* (apps/outbox-worker), the RabbitMQ queues (libs/queue), the billing     *)
(* consumer (apps/order-worker), the fake ERP (apps/fake-erp) and the      *)
(* order reconciliation (apps/reconciliation-worker).                      *)
(*                                                                         *)
(* Queues are bags: without a prefetch limit every message of the queue is *)
(* delivered at once, and the handlers of all of them interleave at their  *)
(* awaits.  A handler is a job, known by its message and the await it is   *)
(* at; its message stays unacknowledged, and comes back when the worker    *)
(* dies or its channel does.  Two copies of a message are two jobs.        *)
(*                                                                         *)
(* Each worker opens one channel and keeps it for ever (getChannel).  When *)
(* an operator restarts the broker the connection is closed in an orderly  *)
(* way: the channel is dead, every call on it throws, and the process goes *)
(* on with it.  (A connection that breaks raises an error event nobody     *)
(* listens to, which ends the process: OutboxCrash, WorkerCrash.)  A       *)
(* process that ended is started again, sooner or later, by its operators. *)
(***************************************************************************)
EXTENDS Integers, FiniteSets

CONSTANTS
    Orders,     \* the orders that may be accepted
    Flushes,    \* publishPending calls that may overlap (setInterval)
    MaxTries,   \* the attempt that goes to the dead letter queue (4 in the code)
    Faults,     \* which failures the instance allows
    MaxFaults,  \* bound on crashes, restarts and lost messages
    MaxRuns,    \* bound on the calls of reconcileOrders
    None        \* no value

ASSUME BillingAssumption ==
    /\ MaxTries \in Nat \ {0}
    /\ MaxFaults \in Nat
    /\ MaxRuns \in Nat
    /\ None \notin Orders
    /\ Faults \subseteq {"erp", "restart", "outbox", "worker", "broker", "mark", "lost", "db"}

VARIABLES
    \* PostgreSQL
    status,    \* Order.status, "none" before the checkout committed it
    invoice,   \* the orders with an erpInvoiceId
    event,     \* OutboxEvent.status of each order
    attempts,  \* IntegrationAttempt rows, unique per order and attemptNumber
    \* RabbitMQ
    main,      \* orders.billing.q: copies of each message ready for delivery
    retry,     \* orders.billing.retry.q
    dlq,       \* orders.billing.dlq, by order
    \* processes
    channel,   \* RabbitService.channel of each worker: none, open or dead
    consuming, \* order-worker: consumerStarted
    jobs,      \* order-worker: handlers in progress
    batch,     \* outbox-worker: the events each flush has read and not handled
    sent,      \* outbox-worker: the event each flush has published, or None
    billed,    \* fake ERP: billingByKey, the receipts it has in memory
    todo,      \* reconcileOrders: the orders it has read and not checked
    found,     \* reconcileOrders: the order whose invoice it has found, or None
    runs,      \* calls of reconcileOrders so far
    faults,    \* crashes, restarts and losses so far
    \* history
    issued,    \* the receipts the ERP has made out for each order
    forgotten, \* the orders whose receipt a restart of the ERP has lost
    cut,       \* the orders one of whose failed tries was never followed up
    owed       \* the invoices the last reconcileOrders had to find

database == <<status, invoice, event, attempts>>
broker   == <<main, retry, dlq>>
outboxWorker == <<batch, sent>>
links    == <<channel, consuming>>
erp      == <<billed, issued, forgotten>>
recon    == <<todo, found, runs, owed>>
vars     == <<database, broker, links, jobs, outboxWorker, erp, recon, cut, faults>>

Tries    == 1 .. MaxTries
Messages == Orders \X Tries
Workers  == {"outbox", "order"}
Awaits   == {"read", "bill", "save", "record", "fail", "dead", "again", "ack"}
Jobs     == Orders \X Tries \X Awaits

Empty(S) == [x \in S |-> 0]
Plus(bag, x)  == [bag EXCEPT ![x] = @ + 1]
Minus(bag, x) == [bag EXCEPT ![x] = @ - 1]

Init ==
    /\ status = [o \in Orders |-> "none"]
    /\ invoice = {}
    /\ event = [o \in Orders |-> "none"]
    /\ attempts = {}
    /\ main = Empty(Messages)
    /\ retry = Empty(Messages)
    /\ dlq = Empty(Orders)
    /\ channel = [w \in Workers |-> "none"]
    /\ consuming = FALSE
    /\ jobs = Empty(Jobs)
    /\ batch = [f \in Flushes |-> {}]
    /\ sent = [f \in Flushes |-> None]
    /\ billed = {}
    /\ todo = {}
    /\ found = None
    /\ runs = 0
    /\ faults = 0
    /\ issued = Empty(Orders)
    /\ forgotten = {}
    /\ cut = {}
    /\ owed = {}

Fault(kind) ==
    /\ kind \in Faults
    /\ faults < MaxFaults
    /\ faults' = faults + 1

-----------------------------------------------------------------------------
(* Checkout commits the order and its outbox event in one transaction. *)

Accept(o) ==
    /\ status[o] = "none"
    /\ status' = [status EXCEPT ![o] = "PENDING_ERP"]
    /\ event' = [event EXCEPT ![o] = "PENDING"]
    /\ UNCHANGED <<invoice, attempts, broker, links, jobs, outboxWorker, erp, recon, cut, faults>>

-----------------------------------------------------------------------------
(* RabbitService: one channel per process *)

Usable(w) == channel[w] # "dead"

-----------------------------------------------------------------------------
(* outbox-worker: publishPending *)

Pending == {o \in Orders : event[o] = "PENDING"}

\* ensureTopology opens the channel or finds it open, and throws on a dead one:
\* the cycle then fails before it has read anything.
ReadPending(f) ==
    /\ batch[f] = {}
    /\ sent[f] = None
    /\ Usable("outbox")
    /\ channel' = [channel EXCEPT !["outbox"] = "open"]
    /\ batch' = [batch EXCEPT ![f] = Pending]
    /\ UNCHANGED <<database, broker, consuming, jobs, sent, erp, recon, cut, faults>>

\* Mutant: the event stays the one that was published.
HandledButKept(f, o, outcome) ==
    /\ event' = [event EXCEPT ![o] = outcome]
    /\ batch' = [batch EXCEPT ![f] = @ \ {o}]
    /\ UNCHANGED <<status, invoice, attempts, links, jobs, sent, erp, recon, cut>>

\* The event is finished: the flush goes on with the next one.
Handled(f, o, outcome) ==
    /\ event' = [event EXCEPT ![o] = outcome]
    /\ batch' = [batch EXCEPT ![f] = @ \ {o}]
    /\ sent' = [sent EXCEPT ![f] = None]
    /\ UNCHANGED <<status, invoice, attempts, links, jobs, erp, recon, cut>>

\* channel.publish returns without a confirmation of the broker.
Publish(f, o) ==
    /\ sent[f] = None
    /\ o \in batch[f]
    /\ Usable("outbox")
    /\ sent' = [sent EXCEPT ![f] = o]
    /\ \/ main' = Plus(main, <<o, 1>>) /\ UNCHANGED faults
       \/ Fault("lost") /\ UNCHANGED main
    /\ UNCHANGED <<database, retry, dlq, links, jobs, batch, erp, recon, cut>>

\* The channel has died since the flush began: publish throws.
PublishFails(f, o) ==
    /\ sent[f] = None
    /\ o \in batch[f]
    /\ ~Usable("outbox")
    /\ Handled(f, o, "FAILED")
    /\ UNCHANGED <<broker, faults>>

MarkPublished(f, o) ==
    /\ sent[f] = o
    /\ Handled(f, o, "PUBLISHED")
    /\ UNCHANGED <<broker, faults>>

\* The update to PUBLISHED throws: the catch clause marks a sent event FAILED.
MarkFails(f, o) ==
    /\ sent[f] = o
    /\ Fault("mark")
    /\ Handled(f, o, "FAILED")
    /\ UNCHANGED broker

\* In the catch clause, the update to FAILED throws as well: the cycle ends, and
\* what it has read stays PENDING, a sent event included.
FlushFails(f) ==
    /\ sent[f] # None \/ (batch[f] # {} /\ ~Usable("outbox"))
    /\ Fault("mark")
    /\ batch' = [batch EXCEPT ![f] = {}]
    /\ sent' = [sent EXCEPT ![f] = None]
    /\ UNCHANGED <<database, broker, links, jobs, erp, recon, cut>>

OutboxCrash ==
    /\ channel["outbox"] # "none"
    /\ Fault("outbox")
    /\ channel' = [channel EXCEPT !["outbox"] = "none"]
    /\ batch' = [f \in Flushes |-> {}]
    /\ sent' = [f \in Flushes |-> None]
    /\ UNCHANGED <<database, broker, consuming, jobs, erp, recon, cut>>

-----------------------------------------------------------------------------
(* order-worker: ensureBillingConsumerStarted, at the start and on each heartbeat *)

EnsureTopology ==
    /\ ~consuming
    /\ channel["order"] = "none"
    /\ channel' = [channel EXCEPT !["order"] = "open"]
    /\ UNCHANGED <<database, broker, consuming, jobs, outboxWorker, erp, recon, cut, faults>>

StartConsumer ==
    /\ ~consuming
    /\ channel["order"] = "open"
    /\ consuming' = TRUE
    /\ UNCHANGED <<database, broker, channel, jobs, outboxWorker, erp, recon, cut, faults>>

-----------------------------------------------------------------------------
(* RabbitMQ *)

\* A dead channel is delivered nothing, and consumerStarted stays true.
Deliver(m) ==
    /\ consuming
    /\ channel["order"] = "open"
    /\ main[m] > 0
    /\ main' = Minus(main, m)
    /\ jobs' = Plus(jobs, <<m[1], m[2], "read">>)
    /\ UNCHANGED <<database, retry, dlq, links, outboxWorker, erp, recon, cut, faults>>

\* The message TTL of the retry queue dead-letters it to the main queue.
Expire(m) ==
    /\ retry[m] > 0
    /\ retry' = Minus(retry, m)
    /\ main' = Plus(main, m)
    /\ UNCHANGED <<database, dlq, links, jobs, outboxWorker, erp, recon, cut, faults>>

Handlers(o, n) ==
    LET count(await) == jobs[<<o, n, await>>]
    IN  count("read") + count("bill") + count("save") + count("record")
        + count("fail") + count("dead") + count("again") + count("ack")

\* The handlers of a dead channel go on, but their messages are back in the queue.
Unacked(o, n) == IF channel["order"] = "open" THEN Handlers(o, n) ELSE 0

Redelivered == [m \in Messages |-> main[m] + Unacked(m[1], m[2])]

\* Queues and messages are durable; what was not acknowledged is delivered again.
BrokerRestart ==
    /\ \E w \in Workers : channel[w] = "open"
    /\ Fault("broker")
    /\ channel' = [w \in Workers |-> IF channel[w] = "open" THEN "dead" ELSE channel[w]]
    /\ main' = Redelivered
    /\ UNCHANGED <<database, retry, dlq, consuming, jobs, outboxWorker, erp, recon, cut>>

-----------------------------------------------------------------------------
(* order-worker: the handler of worker-runner around processWithRetry *)

At(o, n, await) == jobs[<<o, n, await>>] > 0

GoOn(o, n, from, to) ==
    jobs' = Plus(Minus(jobs, <<o, n, from>>), <<o, n, to>>)

\* processMessage
ReadOrder(o, n) ==
    /\ At(o, n, "read")
    /\ GoOn(o, n, "read", IF status[o] = "BILLED" THEN "ack" ELSE "bill")
    /\ UNCHANGED <<database, broker, links, outboxWorker, erp, recon, cut, faults>>

\* Mutant: the ERP does not look the billing key up.
NoReceipt(o) == TRUE

NewToErp(o) == o \notin billed

\* The ERP gives the same receipt to the same billing key, while it lives.
MakeOut(o) ==
    /\ billed' = billed \union {o}
    /\ issued' = IF NewToErp(o) THEN Plus(issued, o) ELSE issued
    /\ UNCHANGED forgotten

BillOrder(o, n) ==
    /\ At(o, n, "bill")
    /\ MakeOut(o)
    /\ GoOn(o, n, "bill", "save")
    /\ UNCHANGED <<database, broker, links, outboxWorker, recon, cut, faults>>

\* The ERP refuses, or its answer is lost after it has billed.
BillOrderFails(o, n) ==
    /\ "erp" \in Faults
    /\ At(o, n, "bill")
    /\ MakeOut(o) \/ UNCHANGED erp
    /\ GoOn(o, n, "bill", "record")
    /\ UNCHANGED <<database, broker, links, outboxWorker, recon, cut, faults>>

SaveInvoice(o, n) ==
    /\ At(o, n, "save")
    /\ status' = [status EXCEPT ![o] = "BILLED"]
    /\ invoice' = invoice \union {o}
    /\ GoOn(o, n, "save", "ack")
    /\ UNCHANGED <<event, attempts, broker, links, outboxWorker, erp, recon, cut, faults>>

\* processWithRetry, in its catch clause
\* Mutant: no unique constraint on the attempts.
NeverRecorded(o, n) == FALSE

Recorded(o, n) == <<o, n>> \in attempts

\* Mutants: one try short, nothing published for a retry, no ERP_FAILED.
AfterFailureEarly(n)   == IF n >= MaxTries - 1 THEN "fail" ELSE "again"
AfterFailureNoRetry(n) == IF n >= MaxTries THEN "fail" ELSE "ack"
AfterFailureSilent(n)  == IF n >= MaxTries THEN "dead" ELSE "again"

AfterFailure(n) == IF n >= MaxTries THEN "fail" ELSE "again"

RecordAttempt(o, n) ==
    /\ At(o, n, "record")
    /\ ~Recorded(o, n)
    /\ attempts' = attempts \union {<<o, n>>}
    /\ GoOn(o, n, "record", AfterFailure(n))
    /\ UNCHANGED <<status, invoice, event, broker, links, outboxWorker, erp, recon, cut, faults>>

\* The unique constraint throws out of the catch clause: nothing is published.
AlreadyRecorded(o, n) ==
    /\ At(o, n, "record")
    /\ Recorded(o, n)
    /\ GoOn(o, n, "record", "ack")
    /\ UNCHANGED <<database, broker, links, outboxWorker, erp, recon, cut, faults>>

MarkErpFailed(o, n) ==
    /\ At(o, n, "fail")
    /\ status' = [status EXCEPT ![o] = "ERP_FAILED"]
    /\ GoOn(o, n, "fail", "dead")
    /\ UNCHANGED <<invoice, event, attempts, broker, links, outboxWorker, erp, recon, cut, faults>>

PublishToDlq(o, n) ==
    /\ At(o, n, "dead")
    /\ Usable("order")
    /\ dlq' = Plus(dlq, o)
    /\ GoOn(o, n, "dead", "ack")
    /\ UNCHANGED <<database, main, retry, links, outboxWorker, erp, recon, cut, faults>>

PublishToRetry(o, n) ==
    /\ At(o, n, "again")
    /\ Usable("order")
    /\ retry' = Plus(retry, <<o, n + 1>>)
    /\ GoOn(o, n, "again", "ack")
    /\ UNCHANGED <<database, main, dlq, links, outboxWorker, erp, recon, cut, faults>>

\* ensureTopology throws on a dead channel, out of the catch clause.
FollowUpFails(o, n) ==
    /\ ~Usable("order")
    /\ \E from \in {"dead", "again"} : At(o, n, from) /\ GoOn(o, n, from, "ack")
    /\ cut' = cut \union {o}
    /\ UNCHANGED <<database, broker, links, outboxWorker, erp, recon, faults>>

\* A statement of processMessage throws and is caught; one of the catch clause
\* throws out of it and the message is acknowledged.
StatementFails(o, n) ==
    /\ Fault("db")
    /\ \/ \E from \in {"read", "save"} :
            At(o, n, from) /\ GoOn(o, n, from, "record") /\ UNCHANGED cut
       \/ \E from \in {"record", "fail"} :
            At(o, n, from) /\ GoOn(o, n, from, "ack") /\ cut' = cut \union {o}
    /\ UNCHANGED <<database, broker, links, outboxWorker, erp, recon>>

Ack(o, n) ==
    /\ At(o, n, "ack")
    /\ Usable("order")
    /\ jobs' = Minus(jobs, <<o, n, "ack">>)
    /\ UNCHANGED <<database, broker, links, outboxWorker, erp, recon, cut, faults>>

\* The orders whose handlers have recorded a failure they have not followed up.
Interrupted ==
    {o \in Orders : \E n \in Tries, await \in {"fail", "dead", "again"} : At(o, n, await)}

OrderWorkerEnds ==
    /\ channel' = [channel EXCEPT !["order"] = "none"]
    /\ consuming' = FALSE
    /\ jobs' = Empty(Jobs)
    /\ cut' = cut \union Interrupted
    /\ main' = Redelivered
    /\ UNCHANGED <<database, retry, dlq, outboxWorker, erp, recon>>

\* On a dead channel ack throws, in consumeJson's catch clause nack throws as
\* well, and the unhandled rejection ends the process.
AckFails(o, n) ==
    /\ At(o, n, "ack")
    /\ ~Usable("order")
    /\ OrderWorkerEnds
    /\ UNCHANGED faults

WorkerCrash ==
    /\ channel["order"] # "none"
    /\ Fault("worker")
    /\ OrderWorkerEnds

-----------------------------------------------------------------------------
(* fake ERP: it keeps its receipts in memory *)

ErpRestart ==
    /\ billed # {}
    /\ Fault("restart")
    /\ billed' = {}
    /\ forgotten' = forgotten \union billed
    /\ owed' = {}
    /\ UNCHANGED <<database, broker, links, jobs, outboxWorker, issued, todo, found, runs, cut>>

-----------------------------------------------------------------------------
(* POST /admin/reconcile: reconcileOrders *)

\* Mutant: only the orders that were given up.
GivenUp(o) == status[o] = "ERP_FAILED"

Unsettled(o) == status[o] \in {"PENDING_ERP", "ERP_FAILED"}

StartReconcile ==
    /\ todo = {} /\ found = None
    /\ runs < MaxRuns
    /\ runs' = runs + 1
    /\ todo' = {o \in Orders : Unsettled(o)}
    /\ owed' = {o \in billed : status[o] # "BILLED"}
    /\ UNCHANGED <<database, broker, links, jobs, outboxWorker, erp, found, cut, faults>>

\* Mutant: any answer of the ERP counts as an invoice.
HasAnswer(o) == TRUE

HasInvoice(o) == o \in billed

CheckInvoice(o) ==
    /\ found = None
    /\ o \in todo
    /\ todo' = todo \ {o}
    /\ found' = IF HasInvoice(o) THEN o ELSE None
    /\ UNCHANGED <<database, broker, links, jobs, outboxWorker, erp, runs, owed, cut, faults>>

Repair ==
    /\ found # None
    /\ status' = [status EXCEPT ![found] = "BILLED"]
    /\ invoice' = invoice \union {found}
    /\ found' = None
    /\ UNCHANGED <<event, attempts, broker, links, jobs, outboxWorker, erp, todo, runs, owed,
                   cut, faults>>

\* The ERP cannot be asked: the call throws and the rest is not reconciled.
ReconcileFails ==
    /\ "erp" \in Faults
    /\ todo # {} /\ found = None
    /\ todo' = {}
    /\ owed' = {}
    /\ UNCHANGED <<database, broker, links, jobs, outboxWorker, erp, found, runs, cut, faults>>

-----------------------------------------------------------------------------
(* Behaviours *)

Flush(f) ==
    \/ ReadPending(f)
    \/ \E o \in Orders : Publish(f, o) \/ PublishFails(f, o) \/ MarkPublished(f, o)

Heartbeat == EnsureTopology \/ StartConsumer

Handle(o, n) ==
    \/ ReadOrder(o, n) \/ BillOrder(o, n) \/ BillOrderFails(o, n) \/ SaveInvoice(o, n)
    \/ RecordAttempt(o, n) \/ AlreadyRecorded(o, n) \/ MarkErpFailed(o, n)
    \/ PublishToDlq(o, n) \/ PublishToRetry(o, n) \/ FollowUpFails(o, n)
    \/ Ack(o, n) \/ AckFails(o, n)

Reconcile == StartReconcile \/ (\E o \in Orders : CheckInvoice(o)) \/ Repair \/ ReconcileFails

Next ==
    \/ \E o \in Orders : Accept(o)
    \/ \E f \in Flushes : Flush(f)
    \/ \E f \in Flushes : FlushFails(f) \/ \E o \in Orders : MarkFails(f, o)
    \/ Heartbeat
    \/ \E m \in Messages : Deliver(m) \/ Expire(m)
    \/ \E o \in Orders, n \in Tries : Handle(o, n) \/ StatementFails(o, n)
    \/ Reconcile
    \/ OutboxCrash
    \/ WorkerCrash
    \/ BrokerRestart
    \/ ErpRestart

Spec == Init /\ [][Next]_vars

\* The flush and the start of the consumer are repeated on timers, the broker
\* delivers and expires, handlers go on.  Nobody has to accept an order or to
\* call the reconciliation, and a call to the ERP is answered one way or the other.
FairSpec ==
    /\ Spec
    /\ \A f \in Flushes : WF_vars(Flush(f))
    /\ WF_vars(Heartbeat)
    /\ \A m \in Messages : WF_vars(Deliver(m)) /\ WF_vars(Expire(m))
    /\ \A o \in Orders, n \in Tries : WF_vars(Handle(o, n))

-----------------------------------------------------------------------------
(* Properties *)

\* Statuses are those of the schema, no message is consumed twice, a flush has
\* published at most one event it has not marked yet, and handlers and consumers
\* need a channel.
TypeOK ==
    /\ status \in [Orders -> {"none", "PENDING_ERP", "BILLED", "ERP_FAILED"}]
    /\ invoice \subseteq Orders
    /\ event \in [Orders -> {"none", "PENDING", "PUBLISHED", "FAILED"}]
    /\ attempts \subseteq Messages
    /\ main \in [Messages -> Nat]
    /\ retry \in [Messages -> Nat]
    /\ dlq \in [Orders -> Nat]
    /\ channel \in [Workers -> {"none", "open", "dead"}]
    /\ consuming \in BOOLEAN
    /\ jobs \in [Jobs -> Nat]
    /\ channel["order"] = "none" => ~consuming /\ jobs = Empty(Jobs)
    /\ batch \in [Flushes -> SUBSET Orders]
    /\ sent \in [Flushes -> Orders \union {None}]
    /\ \A f \in Flushes : sent[f] \in batch[f] \union {None}
    /\ billed \subseteq Orders
    /\ issued \in [Orders -> Nat]
    /\ forgotten \subseteq Orders
    /\ cut \subseteq Orders
    /\ todo \subseteq Orders
    /\ owed \subseteq Orders
    /\ found \in Orders \union {None}
    /\ runs \in 0 .. MaxRuns
    /\ faults \in 0 .. MaxFaults

\* A message about the order is queued, or being handled.
InMotion(o) ==
    \E n \in Tries : main[<<o, n>>] > 0 \/ retry[<<o, n>>] > 0 \/ Handlers(o, n) > 0

\* An order that waits for its invoice has an event to publish (or one marked
\* FAILED for the operators) or a message that will be handled.  The one way out
\* is a failed try whose worker ended, whose channel was dead or one of whose
\* statements threw before its follow-up was published.
NoOrderForgotten ==
    \A o \in Orders : status[o] = "PENDING_ERP" =>
        event[o] \in {"PENDING", "FAILED"} \/ InMotion(o) \/ o \in cut

\* An order is billed in the store only if the ERP has made out a receipt, and an
\* invoice that is known is never forgotten with a failed status in its place
\* unless the attempts were used up as well.
BilledIsInvoiced ==
    \A o \in Orders :
        /\ status[o] = "BILLED" => o \in invoice
        /\ o \in invoice => issued[o] > 0
        /\ (o \in invoice /\ status[o] # "BILLED") => <<o, MaxTries>> \in attempts

\* However often a message is published, delivered and retried, the order gets a
\* second receipt only if the ERP has forgotten the first one.
InvoicedOnce == \A o \in Orders : issued[o] <= 1 \/ o \in forgotten

\* Whatever is redelivered or duplicated, an order is dead-lettered at most once,
\* and only after MaxTries failures.
DeadLettersAreEarned ==
    \A o \in Orders :
        /\ dlq[o] <= 1
        /\ dlq[o] = 1 \/ status[o] = "ERP_FAILED" => <<o, MaxTries>> \in attempts

\* One try is one message: the unique attempt keeps duplicates of the first
\* message from multiplying in the retry queue.
RetriesAreNotMultiplied ==
    \A o \in Orders, n \in Tries : n > 1 => main[<<o, n>>] + retry[<<o, n>>] + Unacked(o, n) <= 1

\* A reconciliation that was not cut off has found every invoice the ERP had for
\* an open order when it began (the design's step 3), although the orders were
\* read before the ERP was asked and the consumer went on next to it.
ReconcileFindsInvoices ==
    todo = {} /\ found = None => owed \subseteq invoice

\* Every accepted order is settled, unless its event is FAILED, its last try was
\* cut off, or a worker holds a dead channel: nothing else keeps an order waiting.
Stalled == \E w \in Workers : channel[w] = "dead"

EveryOrderSettles ==
    \A o \in Orders : status[o] = "PENDING_ERP" ~>
        status[o] \in {"BILLED", "ERP_FAILED"} \/ event[o] = "FAILED" \/ o \in cut \/ Stalled

\* What the desk of InvoiceDesk knows of each order.
Stage(o) ==
    CASE status[o] = "none" -> "none"
      [] status[o] = "PENDING_ERP" -> "waiting"
      [] status[o] = "BILLED" -> "billed"
      [] status[o] = "ERP_FAILED" -> "failed"

Stages   == [o \in Orders |-> Stage(o)]
Receipts == {o \in Orders : issued[o] > 0}
Failures == [o \in Orders |-> {n \in Tries : Recorded(o, n)}]

Desk == INSTANCE InvoiceDesk WITH
    stage <- Stages, receipts <- Receipts, failures <- Failures

\* Seen order by order, the outbox, the queues and the workers with all their
\* duplicates and crashes are a desk that bills or gives up, and never in
\* the wrong order (design:451-482, 503-506).
ImplementsInvoiceDesk == Desk!Spec

\* README.md:119: "Transactional outbox prevents a committed order from losing
\* its billing event."
OutboxNeverLosesEvent == NoOrderForgotten

\* docs/superpowers/specs/2026-05-28-casecellshop-backend-design.md:476-478: a
\* temporary failure goes to orders.billing.retry.q and, "apos o limite de
\* tentativas", the order is recorded as failed and sent to orders.billing.dlq.
FailuresAreQueued ==
    \A o \in Orders : status[o] # "BILLED" /\ (\E n \in Tries : Recorded(o, n)) =>
        InMotion(o) \/ dlq[o] > 0
-----------------------------------------------------------------------------
(* The inductive invariants behind the safety properties *)

\* An event, a message, a handler or a receipt is about an order that was accepted.
AcceptedFirst ==
    \A o \in Orders :
        /\ status[o] = "none" <=> event[o] = "none"
        /\ status[o] = "none" =>
             /\ \A f \in Flushes : o \notin batch[f]
             /\ \A n \in Tries : main[<<o, n>>] = 0 /\ retry[<<o, n>>] = 0 /\ Handlers(o, n) = 0
             /\ issued[o] = 0

\* What is saved or repaired was made out; the ERP knows what it has not forgotten.
ReceiptsAreKnown ==
    /\ \A o \in Orders :
        /\ o \in billed => issued[o] > 0
        /\ issued[o] > 0 => o \in billed \union forgotten
        /\ \A n \in Tries : At(o, n, "save") => issued[o] > 0
    /\ found # None => issued[found] > 0

Settled(o) == status[o] \in {"BILLED", "ERP_FAILED"}

\* A failure is followed up only once it is recorded, and a try comes after the
\* failure of the one before it; what a dead channel has delivered is queued again.
TriesHaveReasons ==
    \A o \in Orders, n \in Tries :
        /\ At(o, n, "again") => n < MaxTries /\ Recorded(o, n)
        /\ At(o, n, "fail") => n = MaxTries /\ Recorded(o, n)
        /\ At(o, n, "dead") => n = MaxTries /\ Recorded(o, n) /\ Settled(o)
        /\ n > 1 /\ (main[<<o, n>>] > 0 \/ retry[<<o, n>>] > 0 \/ Handlers(o, n) > 0) =>
             Recorded(o, n - 1)
        /\ channel["order"] = "dead" /\ Handlers(o, n) > 0 => main[<<o, n>>] > 0

\* A recorded failure has one follow-up at most, and an unrecorded one has none.
FollowUp(o, n) ==
    IF n = MaxTries THEN dlq[o] + jobs[<<o, n, "fail">>] + jobs[<<o, n, "dead">>]
    ELSE jobs[<<o, n, "again">>] + retry[<<o, n + 1>>] + main[<<o, n + 1>>] + Unacked(o, n + 1)

FollowUpsAreSingle ==
    \A o \in Orders, n \in Tries : FollowUp(o, n) <= IF Recorded(o, n) THEN 1 ELSE 0

\* What the reconciliation owes it has found, is about to check, or holds.
OwedIsChecked ==
    /\ owed \subseteq billed
    /\ owed \subseteq invoice \union todo \union {found}

\* What makes each step keep receipts, invoices and dead letters in order.
BillingInv ==
    /\ TypeOK
    /\ AcceptedFirst
    /\ ReceiptsAreKnown
    /\ TriesHaveReasons
    /\ FollowUpsAreSingle
    /\ OwedIsChecked
    /\ BilledIsInvoiced
    /\ InvoicedOnce
    /\ DeadLettersAreEarned

\* The order has its outcome, or something that will lead to one, or was cut off.
CaredFor(o) == Settled(o) \/ InMotion(o) \/ o \in cut

\* What was published is cared for.
PublishedIsCaredFor ==
    \A o \in Orders :
        /\ event[o] = "PUBLISHED" => CaredFor(o)
        /\ \A f \in Flushes : sent[f] = o => CaredFor(o)

\* A message is acknowledged only when its order is settled, when its follow-up was
\* cut off, or when its failure is recorded.
AcksAreEarned ==
    \A o \in Orders, n \in Tries :
        At(o, n, "ack") => Settled(o) \/ o \in cut \/ Recorded(o, n)

\* The try is queued, or has no outcome yet.
Underway(o, n) ==
    \/ main[<<o, n>>] > 0 \/ retry[<<o, n>>] > 0
    \/ \E await \in {"read", "bill", "save", "record"} : At(o, n, await)

\* The last recorded failure of an open order has its follow-up.
LastFailureIsFollowedUp ==
    \A o \in Orders, n \in Tries : Recorded(o, n) /\ ~Recorded(o, n + 1) =>
        \/ Settled(o) \/ o \in cut
        \/ \E await \in {"fail", "dead", "again"} : At(o, n, await)
        \/ n < MaxTries /\ Underway(o, n + 1)

\* What keeps every accepted order in motion, if no published message is lost.
CareInv ==
    /\ PublishedIsCaredFor
    /\ AcksAreEarned
    /\ LastFailureIsFollowedUp

\* The inductive invariants of the proofs, for the model checker.
ProofInvariants == BillingInv /\ ("lost" \notin Faults => CareInv)
=============================================================================
