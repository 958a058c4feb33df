------------------------- MODULE InvoiceDeskProofs --------------------------
(* Billing implements InvoiceDesk, and forgets no order, for every set of  *)
(* orders and flushes.                                                     *)
EXTENDS BillingProofs, WellFoundedInduction

USE BillingAssumption DEF BillingAssumption

-----------------------------------------------------------------------------
(* The desk *)

\* What a status is at the desk.
LEMMA StageNames ==
    ASSUME NEW o \in Orders
    PROVE  /\ status[o] = "none" => Stages[o] = "none"
           /\ status[o] = "PENDING_ERP" => Stages[o] = "waiting"
           /\ status[o] = "BILLED" => Stages[o] = "billed"
           /\ status[o] = "ERP_FAILED" => Stages[o] = "failed"
BY DEF Stages, Stage

\* An accepted order has a stage.
LEMMA StageExists ==
    ASSUME TypeOK, NEW o \in Orders, status[o] # "none"
    PROVE  Stages[o] # "none"
BY DEF TypeOK, Stages, Stage

\* The desk sees an order change its status.
LEMMA StageChanges ==
    ASSUME TypeOK, NEW o \in Orders
    PROVE  /\ status' = [status EXCEPT ![o] = "PENDING_ERP"] =>
                Stages' = [Stages EXCEPT ![o] = "waiting"]
           /\ status' = [status EXCEPT ![o] = "BILLED"] =>
                Stages' = [Stages EXCEPT ![o] = "billed"]
           /\ status' = [status EXCEPT ![o] = "ERP_FAILED"] =>
                Stages' = [Stages EXCEPT ![o] = "failed"]
<1> DEFINE updated(s) == \A p \in Orders : status'[p] = IF p = o THEN s ELSE status[p]
           seen(name) == \A p \in Orders : Stages'[p] = IF p = o THEN name ELSE Stages[p]
<1>1. \A s \in {"PENDING_ERP", "BILLED", "ERP_FAILED"} :
        status' = [status EXCEPT ![o] = s] => updated(s)
  BY DEF TypeOK
<1>2. \A name : seen(name) => Stages' = [Stages EXCEPT ![o] = name]
  BY DEF Stages
<1>3. updated("PENDING_ERP") => seen("waiting")
  BY DEF Stages, Stage, TypeOK
<1>4. updated("BILLED") => seen("billed")
  BY DEF Stages, Stage, TypeOK
<1>5. updated("ERP_FAILED") => seen("failed")
  BY DEF Stages, Stage, TypeOK
<1> QED
  BY <1>1, <1>2, <1>3, <1>4, <1>5

\* The desk sees nothing of a step that leaves orders, receipts and attempts alone.
LEMMA DeskRests ==
    ASSUME UNCHANGED <<status, issued, attempts>>
    PROVE  UNCHANGED Desk!vars
BY DEF Desk!vars, Stages, Stage, Receipts, Failures, Recorded

\* The desk has no order at first.
LEMMA DeskInit == Init => Desk!Init
<1> SUFFICES ASSUME Init PROVE Desk!Init
  OBVIOUS
<1>1. Stages = [o \in Orders |-> "none"]
  BY DEF Init, Stages, Stage
<1>2. Receipts = {}
  <2>1. \A o \in Orders : issued[o] = 0
    BY DEF Init, Empty
  <2> QED
    BY <2>1 DEF Receipts
<1>3. Failures = [o \in Orders |-> {}]
  BY DEF Init, Failures, Recorded
<1> QED
  BY <1>1, <1>2, <1>3 DEF Desk!Init

\* A receipt made out is an invoice of the desk.
LEMMA MakeOutDesk ==
    ASSUME BillingInv, NEW o \in Orders, status[o] # "none", MakeOut(o),
           UNCHANGED <<status, attempts>>
    PROVE  Desk!Invoice(o)
<1>1. \A p \in Orders : issued'[p] > 0 <=> issued[p] > 0 \/ p = o
  <2>1. \A p \in Orders : issued[p] \in Nat
    BY DEF BillingInv, TypeOK
  <2>2. CASE NewToErp(o)
    BY <2>1, <2>2 DEF MakeOut, Plus, BillingInv, TypeOK
  <2>3. CASE ~NewToErp(o)
    BY <2>3 DEF MakeOut, NewToErp, BillingInv, ReceiptsAreKnown
  <2> QED
    BY <2>2, <2>3
<1>2. Receipts' = Receipts \union {o}
  BY <1>1 DEF Receipts
<1>3. UNCHANGED <<Stages, Failures>>
  BY DEF Stages, Stage, Failures, Recorded
<1>4. Stages[o] # "none"
  BY StageExists DEF BillingInv
<1> QED
  BY <1>2, <1>3, <1>4 DEF Desk!Invoice

\* What the reconciliation or a handler saves is billed at the desk.
LEMMA SaveDesk ==
    ASSUME BillingInv, NEW o \in Orders, issued[o] > 0,
           status' = [status EXCEPT ![o] = "BILLED"], UNCHANGED <<issued, attempts>>
    PROVE  Desk!Bill(o)
<1>1. status[o] # "none"
  <2>1. ~(0 > 0)
    OBVIOUS
  <2> QED
    BY <2>1 DEF BillingInv, AcceptedFirst
<1>2. Stages[o] # "none"
  BY <1>1, StageExists DEF BillingInv
<1>3. Stages' = [Stages EXCEPT ![o] = "billed"]
  BY StageChanges DEF BillingInv
<1>4. UNCHANGED <<Receipts, Failures>>
  BY DEF Receipts, Failures, Recorded
<1>5. o \in Receipts
  BY DEF Receipts
<1> QED
  BY <1>2, <1>3, <1>4, <1>5 DEF Desk!Bill

\* A recorded attempt is a failed try, after the one before it.
LEMMA RecordDesk ==
    ASSUME BillingInv, NEW o \in Orders, NEW n \in Tries, RecordAttempt(o, n)
    PROVE  Desk!FailTry(o)
<1>1. /\ At(o, n, "record") /\ attempts' = attempts \union {<<o, n>>}
      /\ UNCHANGED <<status, issued>>
  BY DEF RecordAttempt, erp
<1>2. Stages[o] # "none" /\ Handlers(o, n) > 0
  BY <1>1, AwaitNames, HandlerExists, StageExists DEF BillingInv
<1>3. n = 1 \/ n - 1 \in Failures[o]
  <2> SUFFICES ASSUME n # 1 PROVE n - 1 \in Failures[o]
    OBVIOUS
  <2>1. n > 1 /\ n - 1 \in Tries
    BY DEF Tries
  <2>2. Recorded(o, n - 1)
    BY <1>2, <2>1 DEF BillingInv, TriesHaveReasons
  <2> QED
    BY <2>1, <2>2 DEF Failures
<1>4. Failures' = [Failures EXCEPT ![o] = @ \union {n}]
  <2>1. \A p \in Orders, m \in Tries : Recorded(p, m)' <=> Recorded(p, m) \/ (p = o /\ m = n)
    BY <1>1 DEF Recorded
  <2> QED
    BY <2>1 DEF Failures
<1>5. UNCHANGED <<Stages, Receipts>>
  BY <1>1 DEF Stages, Stage, Receipts
<1> QED
  BY <1>2, <1>3, <1>4, <1>5 DEF Desk!FailTry, Tries

\* An order marked ERP_FAILED is given up, after its last try.
LEMMA MarkDesk ==
    ASSUME BillingInv, NEW o \in Orders, NEW n \in Tries, MarkErpFailed(o, n)
    PROVE  Desk!GiveUp(o)
<1>1. /\ At(o, n, "fail") /\ status' = [status EXCEPT ![o] = "ERP_FAILED"]
      /\ UNCHANGED <<attempts, issued>>
  BY DEF MarkErpFailed, erp
<1>2. Stages[o] # "none"
  BY <1>1, AwaitNames, HandlerExists, StageExists DEF BillingInv
<1>3. MaxTries \in Failures[o]
  BY <1>1 DEF BillingInv, TriesHaveReasons, Failures
<1>4. Stages' = [Stages EXCEPT ![o] = "failed"]
  BY <1>1, StageChanges DEF BillingInv
<1>5. UNCHANGED <<Receipts, Failures>>
  BY <1>1 DEF Receipts, Failures, Recorded
<1> QED
  BY <1>2, <1>3, <1>4, <1>5 DEF Desk!GiveUp

\* An accepted order waits at the desk.
LEMMA AcceptDesk ==
    ASSUME BillingInv, NEW o \in Orders, Accept(o)
    PROVE  Desk!Accept(o)
<1>1. /\ status[o] = "none" /\ status' = [status EXCEPT ![o] = "PENDING_ERP"]
      /\ UNCHANGED <<attempts, issued>>
  BY DEF Accept, erp
<1>2. Stages[o] = "none"
  BY <1>1, StageNames
<1>3. Stages' = [Stages EXCEPT ![o] = "waiting"]
  BY <1>1, StageChanges DEF BillingInv
<1>4. UNCHANGED <<Receipts, Failures>>
  BY <1>1 DEF Receipts, Failures, Recorded
<1> QED
  BY <1>2, <1>3, <1>4 DEF Desk!Accept

\* A handler's step is one of the desk, or none.
LEMMA HandlerDesk ==
    ASSUME BillingInv, NEW o \in Orders, NEW n \in Tries, Handle(o, n) \/ StatementFails(o, n)
    PROVE  Desk!Next \/ UNCHANGED Desk!vars
<1>1. CASE BillOrder(o, n) \/ BillOrderFails(o, n)
  <2>1. At(o, n, "bill") /\ UNCHANGED <<status, attempts>>
    BY <1>1 DEF BillOrder, BillOrderFails, database
  <2>2. status[o] # "none"
    BY <2>1, AwaitNames, HandlerExists DEF BillingInv
  <2>3. CASE MakeOut(o)
    BY <2>1, <2>2, <2>3, MakeOutDesk DEF Desk!Next
  <2>4. CASE UNCHANGED erp
    BY <2>1, <2>4, DeskRests DEF erp
  <2> QED
    BY <1>1, <2>3, <2>4 DEF BillOrder, BillOrderFails
<1>2. CASE SaveInvoice(o, n)
  <2>1. issued[o] > 0
    BY <1>2 DEF SaveInvoice, BillingInv, ReceiptsAreKnown
  <2> QED
    BY <1>2, <2>1, SaveDesk DEF SaveInvoice, erp, Desk!Next
<1>3. CASE RecordAttempt(o, n)
  BY <1>3, RecordDesk DEF Desk!Next
<1>4. CASE MarkErpFailed(o, n)
  BY <1>4, MarkDesk DEF Desk!Next
<1>5. CASE \/ ReadOrder(o, n) \/ AlreadyRecorded(o, n) \/ PublishToDlq(o, n)
           \/ PublishToRetry(o, n) \/ FollowUpFails(o, n) \/ Ack(o, n) \/ AckFails(o, n)
           \/ StatementFails(o, n)
  <2>1. UNCHANGED <<status, issued, attempts>>
    BY <1>5 DEF ReadOrder, AlreadyRecorded, PublishToDlq, PublishToRetry, FollowUpFails, Ack,
       AckFails, OrderWorkerEnds, StatementFails, database, erp
  <2> QED
    BY <2>1, DeskRests
<1> QED
  BY <1>1, <1>2, <1>3, <1>4, <1>5 DEF Handle

\* Every step of the billing is one of the desk, or none.
LEMMA DeskStep == BillingInv /\ [Next]_vars => [Desk!Next]_Desk!vars
<1> SUFFICES ASSUME BillingInv, [Next]_vars PROVE Desk!Next \/ UNCHANGED Desk!vars
  OBVIOUS
<1>1. ASSUME NEW o \in Orders, Accept(o) PROVE Desk!Next
  BY <1>1, AcceptDesk DEF Desk!Next
<1>2. ASSUME NEW f \in Flushes,
             Flush(f) \/ FlushFails(f) \/ \E o \in Orders : MarkFails(f, o)
      PROVE  UNCHANGED <<status, issued, attempts>>
  BY <1>2 DEF Flush, ReadPending, Publish, PublishFails, MarkPublished, FlushFails, MarkFails,
     Handled, database, erp
<1>3. CASE Heartbeat \/ OutboxCrash \/ WorkerCrash \/ BrokerRestart \/ ErpRestart
  <2>1. UNCHANGED <<status, issued, attempts>>
    BY <1>3 DEF Heartbeat, EnsureTopology, StartConsumer, OutboxCrash, WorkerCrash,
       OrderWorkerEnds, BrokerRestart, ErpRestart, database, erp
  <2> QED
    BY <2>1, DeskRests
<1>4. ASSUME NEW m \in Messages, Deliver(m) \/ Expire(m)
      PROVE  UNCHANGED <<status, issued, attempts>>
  BY <1>4 DEF Deliver, Expire, database, erp
<1>5. ASSUME NEW o \in Orders, NEW n \in Tries, Handle(o, n) \/ StatementFails(o, n)
      PROVE  Desk!Next \/ UNCHANGED Desk!vars
  BY <1>5, HandlerDesk
<1>6. CASE Reconcile
  <2>1. CASE Repair
    <3>1. found \in Orders /\ issued[found] > 0
      BY <2>1 DEF Repair, BillingInv, TypeOK, ReceiptsAreKnown
    <3> QED
      BY <2>1, <3>1, SaveDesk DEF Repair, erp, Desk!Next
  <2>2. CASE StartReconcile \/ (\E o \in Orders : CheckInvoice(o)) \/ ReconcileFails
    <3>1. UNCHANGED <<status, issued, attempts>>
      BY <2>2 DEF StartReconcile, CheckInvoice, ReconcileFails, database, erp
    <3> QED
      BY <3>1, DeskRests
  <2> QED
    BY <1>6, <2>1, <2>2 DEF Reconcile
<1>7. CASE UNCHANGED vars
  BY <1>7, DeskRests DEF vars, database, erp
<1> QED
  BY <1>1, <1>2, <1>3, <1>4, <1>5, <1>6, <1>7, DeskRests DEF Next

\* Seen order by order, outbox, queues and workers are a desk that bills or gives up.
THEOREM DeskRefinement == Spec => ImplementsInvoiceDesk
<1>1. Init => Desk!Init
  BY DeskInit
<1>2. BillingInv /\ [Next]_vars => [Desk!Next]_Desk!vars
  BY DeskStep
<1>3. Spec => []BillingInv
  BY BillingInvariance
<1> QED
  BY <1>1, <1>2, <1>3, PTL DEF Spec, ImplementsInvoiceDesk, Desk!Spec

-----------------------------------------------------------------------------
(* No order is forgotten, if no published message is lost *)

\* The least-number principle.
LEMMA LeastNumber ==
    ASSUME NEW S \in SUBSET Nat, NEW s \in S
    PROVE  \E k \in S : \A j \in S : k <= j
<1> DEFINE R == OpToRel(<, Nat)
<1>1. IsWellFoundedOn(R, Nat)
  BY NatLessThanWellFounded
<1>2. \A x, y \in Nat : <<x, y>> \in R <=> x < y
  BY DEF OpToRel
<1> HIDE DEF R
<1>3. PICK k \in S : \A j \in S : ~(<<j, k>> \in R)
  <2>1. \E k \in S : \A j \in S : ~(<<j, k>> \in R)
    BY <1>1, WFMin
  <2> QED
    BY <2>1
<1>4. \A j \in S : k \in Nat /\ j \in Nat /\ ~(j < k)
  BY <1>2, <1>3
<1>5. \A j \in S : k <= j
  BY <1>4
<1> QED
  BY <1>5

\* Of the failures recorded there is a last one.
LEMMA LastFailure ==
    ASSUME TypeOK, NEW o \in Orders, NEW n \in Tries, Recorded(o, n)
    PROVE  \E k \in Tries : Recorded(o, k) /\ ~Recorded(o, k + 1)
<1> DEFINE S == {j \in Nat : MaxTries - j \in Tries /\ Recorded(o, MaxTries - j)}
<1>1. MaxTries - n \in S
  <2>1. MaxTries - n \in Nat /\ MaxTries - (MaxTries - n) = n
    BY DEF Tries
  <2> QED
    BY <2>1
<1>2. PICK k \in S : \A j \in S : k <= j
  <2>1. S \in SUBSET Nat
    OBVIOUS
  <2> HIDE DEF S
  <2> QED
    BY <1>1, <2>1, LeastNumber
<1> DEFINE last == MaxTries - k
<1>3. /\ last \in Tries /\ Recorded(o, last) /\ k \in Nat /\ last \in Nat
      /\ k = MaxTries - last
  BY DEF Tries
<1>4. ~Recorded(o, last + 1)
  <2> SUFFICES ASSUME Recorded(o, last + 1) PROVE FALSE
    OBVIOUS
  <2>1. last + 1 \in Tries
    BY DEF Recorded, TypeOK, Messages
  <2>2. k - 1 \in Nat /\ MaxTries - (k - 1) = last + 1
    BY <1>3, <2>1 DEF Tries
  <2>3. k - 1 \in S
    BY <2>1, <2>2
  <2> QED
    BY <1>2, <1>3, <2>3
<1> QED
  BY <1>3, <1>4

\* An order stays cared for if its tries go on, are settled, or are cut off.
LEMMA CareMoves ==
    ASSUME CareInv, attempts \subseteq attempts', cut \subseteq cut',
           \A p \in Orders : Settled(p) => Settled(p)',
           \A p \in Orders, m \in Tries :
              Recorded(p, m)' => Recorded(p, m) \/ At(p, m, "fail")' \/ At(p, m, "again")',
           \A p \in Orders :
              event'[p] = "PUBLISHED" \/ (\E f \in Flushes : sent'[f] = p) =>
                 CaredFor(p) \/ CaredFor(p)',
           \A p \in Orders, m \in Tries :
              Underway(p, m) => Recorded(p, m)' \/ Settled(p)' \/ p \in cut' \/ Underway(p, m)',
           \A p \in Orders : InMotion(p) => CaredFor(p)',
           \A p \in Orders, m \in Tries, await \in {"fail", "dead", "again"} :
              At(p, m, await) => \/ At(p, m, await)' \/ At(p, m, "dead")'
                                 \/ Settled(p)' \/ p \in cut'
                                 \/ (m < MaxTries /\ Underway(p, m + 1)'),
           \A p \in Orders, m \in Tries :
              At(p, m, "ack")' => \/ At(p, m, "ack") \/ Settled(p)' \/ p \in cut'
                                  \/ Recorded(p, m)'
    PROVE  CareInv'
<1>1. \A p, m : Recorded(p, m) => Recorded(p, m)'
  BY DEF Recorded
<1>2. PublishedIsCaredFor'
  <2>1. \A p \in Orders : CaredFor(p) => CaredFor(p)'
    BY DEF CaredFor
  <2> QED
    BY <2>1 DEF PublishedIsCaredFor
<1>3. AcksAreEarned'
  BY <1>1 DEF CareInv, AcksAreEarned
<1>4. LastFailureIsFollowedUp'
  <2> SUFFICES ASSUME NEW p \in Orders, NEW m \in Tries, Recorded(p, m)', ~Recorded(p, m + 1)'
               PROVE  \/ Settled(p)' \/ p \in cut'
                      \/ \E await \in {"fail", "dead", "again"} : At(p, m, await)'
                      \/ m < MaxTries /\ Underway(p, m + 1)'
    BY DEF LastFailureIsFollowedUp
  <2>1. CASE At(p, m, "fail")' \/ At(p, m, "again")'
    BY <2>1
  <2>2. CASE Recorded(p, m)
    <3>1. ~Recorded(p, m + 1)
      BY <1>1
    <3>2. \/ Settled(p) \/ p \in cut
          \/ \E await \in {"fail", "dead", "again"} : At(p, m, await)
          \/ m < MaxTries /\ Underway(p, m + 1)
      BY <2>2, <3>1 DEF CareInv, LastFailureIsFollowedUp
    <3>3. CASE m < MaxTries /\ Underway(p, m + 1)
      <4>1. m + 1 \in Tries
        BY <3>3 DEF Tries
      <4> QED
        BY <3>3, <4>1
    <3>4. CASE \E await \in {"fail", "dead", "again"} : At(p, m, await)
      <4>1. PICK await \in {"fail", "dead", "again"} : At(p, m, await)
        BY <3>4
      <4> QED
        BY <4>1
    <3> QED
      BY <3>2, <3>3, <3>4
  <2> QED
    BY <2>1, <2>2
<1> QED
  BY <1>2, <1>3, <1>4 DEF CareInv

\* Where no message moves and nothing else is published, orders stay cared for.
LEMMA CareRests ==
    ASSUME CareInv, UNCHANGED <<main, retry, jobs, attempts, cut>>,
           \A p \in Orders : Settled(p) => Settled(p)',
           \A p \in Orders :
              event'[p] = "PUBLISHED" \/ (\E f \in Flushes : sent'[f] = p) =>
                 event[p] = "PUBLISHED" \/ (\E f \in Flushes : sent[f] = p)
    PROVE  CareInv'
<1>1. \A p, m : /\ Recorded(p, m)' <=> Recorded(p, m)
                /\ Underway(p, m)' <=> Underway(p, m)
                /\ \A await : At(p, m, await)' <=> At(p, m, await)
  BY Resting DEF Recorded, Underway
<1>2. \A p \in Orders : InMotion(p) => CaredFor(p)'
  BY Resting DEF InMotion, CaredFor
<1>3. \A p \in Orders :
        event'[p] = "PUBLISHED" \/ (\E f \in Flushes : sent'[f] = p) => CaredFor(p)
  BY DEF CareInv, PublishedIsCaredFor
<1> QED
  BY <1>1, <1>2, <1>3, CareMoves

\* The checkout, the flushes and the reconciliation leave orders cared for.
LEMMA StoreCare ==
    ASSUME BillingInv, CareInv,
           \/ \E o \in Orders : Accept(o)
           \/ \E f \in Flushes : ReadPending(f) \/ FlushFails(f)
           \/ \E f \in Flushes, o \in Orders :
                PublishFails(f, o) \/ MarkPublished(f, o) \/ MarkFails(f, o)
           \/ OutboxCrash \/ Heartbeat \/ ErpRestart \/ Reconcile
           \/ UNCHANGED vars
    PROVE  CareInv'
<1> USE DEF BillingInv
<1>1. UNCHANGED <<main, retry, jobs, attempts, cut>>
  BY DEF Accept, ReadPending, PublishFails, MarkPublished, MarkFails, Handled, FlushFails,
     OutboxCrash, Heartbeat, EnsureTopology, StartConsumer, ErpRestart, Reconcile,
     StartReconcile, CheckInvoice, Repair, ReconcileFails, vars, database, broker
<1>2. \A p \in Orders : Settled(p) => Settled(p)'
  <2>1. UNCHANGED status \/ Repair \/ \E o \in Orders : Accept(o)
    BY DEF ReadPending, PublishFails, MarkPublished, MarkFails, Handled, FlushFails,
       OutboxCrash, Heartbeat, EnsureTopology, StartConsumer, ErpRestart, Reconcile,
       StartReconcile, CheckInvoice, ReconcileFails, vars, database
  <2> QED
    BY <2>1 DEF Repair, Accept, Settled, TypeOK
<1>3. \A p \in Orders :
        event'[p] = "PUBLISHED" \/ (\E f \in Flushes : sent'[f] = p) =>
           event[p] = "PUBLISHED" \/ (\E f \in Flushes : sent[f] = p)
  <2>1. CASE UNCHANGED <<event, sent>>
    BY <2>1
  <2>2. ASSUME NEW o \in Orders, Accept(o) PROVE <1>3
    BY <2>2 DEF Accept, TypeOK, outboxWorker
  <2>3. ASSUME NEW f \in Flushes, FlushFails(f) PROVE <1>3
    BY <2>3 DEF FlushFails, TypeOK, database
  <2>4. ASSUME NEW f \in Flushes, NEW o \in Orders,
               PublishFails(f, o) \/ MarkPublished(f, o) \/ MarkFails(f, o)
        PROVE  <1>3
    <3>1. /\ event'[o] = "PUBLISHED" => sent[f] = o
          /\ \A p \in Orders \ {o} : event'[p] = event[p]
          /\ sent' = [sent EXCEPT ![f] = None]
      BY <2>4 DEF PublishFails, MarkPublished, MarkFails, Handled, TypeOK
    <3> QED
      BY <3>1 DEF TypeOK
  <2>5. CASE OutboxCrash
    BY <2>5 DEF OutboxCrash, database
  <2> QED
    BY <2>1, <2>2, <2>3, <2>4, <2>5 DEF ReadPending, Heartbeat, EnsureTopology, StartConsumer,
       ErpRestart, Reconcile, StartReconcile, CheckInvoice, Repair, ReconcileFails, vars,
       database, outboxWorker
<1> QED
  BY <1>1, <1>2, <1>3, CareRests

\* Where messages only move and none is acknowledged, orders stay cared for.
LEMMA CareTravels ==
    ASSUME BillingInv, CareInv, UNCHANGED <<status, event, sent, attempts>>, cut \subseteq cut',
           \A p \in Orders, m \in Tries :
              /\ Present(p, m) => Present(p, m)'
              /\ Underway(p, m) => Underway(p, m)'
              /\ At(p, m, "ack")' => At(p, m, "ack"),
           \A p \in Orders, m \in Tries, await \in {"fail", "dead", "again"} :
              At(p, m, await) => At(p, m, await)' \/ p \in cut'
    PROVE  CareInv'
<1>1. \A p \in Orders : InMotion(p) => CaredFor(p)'
  BY DEF InMotion, CaredFor, Present
<1>2. \A p \in Orders :
        event'[p] = "PUBLISHED" \/ (\E f \in Flushes : sent'[f] = p) => CaredFor(p)
  BY DEF CareInv, PublishedIsCaredFor
<1>3. \A p, m : Recorded(p, m)' <=> Recorded(p, m)
  BY DEF Recorded
<1>4. \A p \in Orders : Settled(p) => Settled(p)'
  BY DEF Settled
<1> QED
  BY <1>1, <1>2, <1>3, <1>4, CareMoves

\* A published event cares for its order, if it is not lost.
LEMMA PublishCare ==
    ASSUME BillingInv, CareInv, "lost" \notin Faults, NEW f \in Flushes, NEW o \in Orders,
           Publish(f, o)
    PROVE  CareInv'
<1> USE DEF BillingInv
<1>1. /\ UNCHANGED <<status, event, attempts, cut, jobs, retry>>
      /\ main' = Plus(main, <<o, 1>>) /\ sent' = [sent EXCEPT ![f] = o]
  BY DEF Publish, Fault, database
<1>2. \A p \in Orders, m \in Tries :
        /\ main[<<p, m>>] > 0 => main'[<<p, m>>] > 0
        /\ p = o /\ m = 1 => main'[<<p, m>>] > 0
  <2> SUFFICES ASSUME NEW p \in Orders, NEW m \in Tries
               PROVE  /\ main[<<p, m>>] > 0 => main'[<<p, m>>] > 0
                      /\ p = o /\ m = 1 => main'[<<p, m>>] > 0
    OBVIOUS
  <2>1. main[<<p, m>>] \in Nat /\ <<p, m>> \in Messages
    BY Numbers DEF Messages
  <2>2. main'[<<p, m>>] = IF <<p, m>> = <<o, 1>> THEN main[<<p, m>>] + 1 ELSE main[<<p, m>>]
    BY <1>1, <2>1 DEF Plus, TypeOK
  <2> QED
    BY <2>1, <2>2
<1>3. \A p \in Orders, m \in Tries :
        /\ Underway(p, m) => Underway(p, m)'
        /\ Present(p, m) => Present(p, m)'
        /\ \A await : At(p, m, await)' <=> At(p, m, await)
  BY <1>1, <1>2, Resting DEF Underway, Present
<1>4. \A p \in Orders : InMotion(p) => CaredFor(p)'
  BY <1>3 DEF InMotion, CaredFor, Present
<1>5. CaredFor(o)'
  <2>1. 1 \in Tries
    BY DEF Tries
  <2> QED
    BY <1>2, <2>1 DEF CaredFor, InMotion
<1>6. \A p \in Orders :
        event'[p] = "PUBLISHED" \/ (\E g \in Flushes : sent'[g] = p) => CaredFor(p) \/ CaredFor(p)'
  BY <1>1, <1>5 DEF CareInv, PublishedIsCaredFor, TypeOK
<1>7. \A p, m : Recorded(p, m)' <=> Recorded(p, m)
  BY <1>1 DEF Recorded
<1>8. \A p \in Orders : Settled(p) => Settled(p)'
  BY <1>1 DEF Settled
<1> QED
  BY <1>1, <1>3, <1>4, <1>6, <1>7, <1>8, CareMoves

\* A try that is not over is present.
LEMMA UnderwayIsPresent ==
    ASSUME TypeOK, AcceptedFirst, NEW o \in Orders, NEW n \in Tries, Underway(o, n)
    PROVE  Present(o, n)
<1>1. CASE main[<<o, n>>] > 0 \/ retry[<<o, n>>] > 0
  BY <1>1 DEF Present
<1>2. ASSUME NEW await \in {"read", "bill", "save", "record"}, At(o, n, await)
      PROVE  Present(o, n)
  <2>1. await \in Awaits
    BY DEF Awaits
  <2> QED
    BY <1>2, <2>1, HandlerExists DEF Present
<1> QED
  BY <1>1, <1>2 DEF Underway

\* Delivery hands a message over to a handler that has just begun.
LEMMA DeliverCare ==
    ASSUME BillingInv, CareInv, NEW o \in Orders, NEW n \in Tries, Deliver(<<o, n>>)
    PROVE  CareInv'
<1> USE DEF BillingInv
<1>1. /\ UNCHANGED <<status, event, sent, attempts, cut, retry>>
      /\ main' = Minus(main, <<o, n>>) /\ jobs' = Plus(jobs, <<o, n, "read">>)
  BY DEF Deliver, database, outboxWorker
<1>2. jobs \in [Jobs -> Nat]
  BY DEF TypeOK
<1>3. \A p \in Orders, m \in Tries, a \in Awaits :
        jobs'[<<p, m, a>>] = jobs[<<p, m, a>>] + (IF p = o /\ m = n /\ a = "read" THEN 1 ELSE 0)
  <2>1. \A p \in Orders, m \in Tries, a \in Awaits :
          ~(p = o /\ m = n /\ a = "read") => jobs'[<<p, m, a>>] = jobs[<<p, m, a>>]
    BY <1>1, <1>2 DEF Plus, Jobs
  <2>2. jobs'[<<o, n, "read">>] = jobs[<<o, n, "read">>] + 1
    BY <1>1, <1>2, AwaitNames DEF Plus, Jobs
  <2> SUFFICES ASSUME NEW p \in Orders, NEW m \in Tries, NEW a \in Awaits PROVE <1>3!(p, m, a)
    OBVIOUS
  <2>3. jobs[<<p, m, a>>] \in Nat
    BY <1>2 DEF Jobs
  <2>4. CASE p = o /\ m = n /\ a = "read"
    BY <2>2, <2>4
  <2>5. CASE ~(p = o /\ m = n /\ a = "read")
    BY <2>1, <2>3, <2>5
  <2> QED
    BY <2>4, <2>5
<1>4. \A p \in Orders, m \in Tries, a \in Awaits :
        /\ At(p, m, a) => At(p, m, a)'
        /\ a # "read" /\ At(p, m, a)' => At(p, m, a)
        /\ p = o /\ m = n => At(p, m, "read")'
  <2> SUFFICES ASSUME NEW p \in Orders, NEW m \in Tries, NEW a \in Awaits PROVE <1>4!(p, m, a)
    OBVIOUS
  <2>1. jobs[<<p, m, a>>] \in Nat /\ jobs[<<p, m, "read">>] \in Nat
    BY Numbers, AwaitNames
  <2>2. jobs'[<<p, m, "read">>] =
          jobs[<<p, m, "read">>] + (IF p = o /\ m = n THEN 1 ELSE 0)
    BY <1>3, AwaitNames
  <2>3. jobs'[<<p, m, a>>] =
          jobs[<<p, m, a>>] + (IF p = o /\ m = n /\ a = "read" THEN 1 ELSE 0)
    BY <1>3
  <2> QED
    BY <2>1, <2>2, <2>3 DEF At
<1>5. \A p \in Orders, m \in Tries : main'[<<p, m>>] = main[<<p, m>>] \/ (p = o /\ m = n)
  BY <1>1 DEF Minus, Messages, TypeOK
<1>6. \A p \in Orders, m \in Tries :
        /\ Handlers(p, m) > 0 => Handlers(p, m)' > 0
        /\ p = o /\ m = n => Handlers(p, m)' > 0
  <2> SUFFICES ASSUME NEW p \in Orders, NEW m \in Tries PROVE <1>6!(p, m)
    OBVIOUS
  <2>1. Handlers(p, m) \in Nat
    BY Numbers
  <2>2. "read" \in Awaits /\ jobs' = Plus(jobs, <<o, n, "read">>)
    BY <1>1, AwaitNames
  <2>3. Handlers(p, m)' = IF p = o /\ m = n THEN Handlers(p, m) + 1 ELSE Handlers(p, m)
    BY <1>2, <2>2, HandlerBegins
  <2> QED
    BY <2>1, <2>3
<1>7. \A p \in Orders, m \in Tries :
        /\ Underway(p, m) => Underway(p, m)'
        /\ Present(p, m) => Present(p, m)'
        /\ At(p, m, "ack")' => At(p, m, "ack")
  <2> SUFFICES ASSUME NEW p \in Orders, NEW m \in Tries PROVE <1>7!(p, m)
    OBVIOUS
  <2>1. Present(p, m) => Present(p, m)'
    BY <1>1, <1>5, <1>6 DEF Present
  <2>2. \A a \in {"read", "bill", "save", "record"} : At(p, m, a) => At(p, m, a)'
    BY <1>4, AwaitNames
  <2>3. Underway(p, m) => Underway(p, m)'
    BY <1>1, <1>4, <1>5, <2>2, AwaitNames DEF Underway
  <2>4. At(p, m, "ack")' => At(p, m, "ack")
    BY <1>4, AwaitNames
  <2> QED
    BY <2>1, <2>3, <2>4
<1>8. \A p \in Orders, m \in Tries, a \in {"fail", "dead", "again"} : At(p, m, a) => At(p, m, a)'
  BY <1>4, AwaitNames
<1> QED
  BY <1>1, <1>7, <1>8, CareTravels

\* An expired retry is in the main queue.
LEMMA ExpireCare ==
    ASSUME BillingInv, CareInv, NEW o \in Orders, NEW n \in Tries, Expire(<<o, n>>)
    PROVE  CareInv'
<1> USE DEF BillingInv
<1>1. /\ UNCHANGED <<status, event, sent, attempts, cut, jobs>>
      /\ retry' = Minus(retry, <<o, n>>) /\ main' = Plus(main, <<o, n>>)
  BY DEF Expire, database, outboxWorker
<1>2. \A p \in Orders, m \in Tries :
        /\ main[<<p, m>>] > 0 => main'[<<p, m>>] > 0
        /\ retry[<<p, m>>] > 0 => retry'[<<p, m>>] > 0 \/ main'[<<p, m>>] > 0
  <2> SUFFICES ASSUME NEW p \in Orders, NEW m \in Tries PROVE <1>2!(p, m)
    OBVIOUS
  <2>1. main[<<p, m>>] \in Nat /\ <<p, m>> \in Messages
    BY Numbers DEF Messages
  <2>2. /\ main'[<<p, m>>] = IF p = o /\ m = n THEN main[<<p, m>>] + 1 ELSE main[<<p, m>>]
        /\ retry'[<<p, m>>] = retry[<<p, m>>] \/ (p = o /\ m = n)
    BY <1>1, <2>1 DEF Plus, Minus, TypeOK
  <2> QED
    BY <2>1, <2>2
<1>3. \A p \in Orders, m \in Tries :
        /\ Underway(p, m) => Underway(p, m)'
        /\ Present(p, m) => Present(p, m)'
        /\ \A await : At(p, m, await)' <=> At(p, m, await)
  BY <1>1, <1>2, Resting DEF Underway, Present
<1> QED
  BY <1>1, <1>3, CareTravels

\* What a lost channel had delivered is queued again: by its handlers' tries.
LEMMA RedeliveryCares ==
    ASSUME BillingInv, NEW o \in Orders, NEW n \in Tries
    PROVE  /\ main[<<o, n>>] > 0 => Redelivered[<<o, n>>] > 0
           /\ Handlers(o, n) > 0 => Redelivered[<<o, n>>] > 0
<1> USE DEF BillingInv
<1>1. main[<<o, n>>] \in Nat /\ Unacked(o, n) \in Nat /\ Handlers(o, n) \in Nat
  BY Numbers
<1>2. Redelivered[<<o, n>>] = main[<<o, n>>] + Unacked(o, n)
  BY RedeliveredCounts
<1>3. Handlers(o, n) > 0 => channel["order"] # "none"
  <2>1. channel["order"] = "none" => Handlers(o, n) = 0
    BY NoHandlers, HandlersCount DEF TypeOK
  <2> QED
    BY <1>1, <2>1
<1>4. Handlers(o, n) > 0 => main[<<o, n>>] > 0 \/ Unacked(o, n) > 0
  BY <1>3 DEF TriesHaveReasons, Unacked, TypeOK, Workers
<1> QED
  BY <1>1, <1>2, <1>4

\* A restart of the broker takes no handler away.
LEMMA BrokerRestartCare ==
    ASSUME BillingInv, CareInv, BrokerRestart
    PROVE  CareInv'
<1>1. UNCHANGED <<status, event, sent, attempts, cut, jobs, retry>> /\ main' = Redelivered
  BY DEF BrokerRestart, database, outboxWorker
<1>2. \A p \in Orders, m \in Tries : main[<<p, m>>] > 0 => main'[<<p, m>>] > 0
  BY <1>1, RedeliveryCares
<1>3. \A p \in Orders, m \in Tries :
        /\ Underway(p, m) => Underway(p, m)'
        /\ Present(p, m) => Present(p, m)'
        /\ \A await : At(p, m, await)' <=> At(p, m, await)
  BY <1>1, <1>2, Resting DEF Underway, Present
<1> QED
  BY <1>1, <1>3, CareTravels

\* An order worker that ends leaves its tries in the queue, and cuts off the failures
\* it was about to follow up.
LEMMA OrderWorkerEndsCare ==
    ASSUME BillingInv, CareInv, OrderWorkerEnds
    PROVE  CareInv'
<1> USE DEF BillingInv
<1>1. /\ UNCHANGED <<status, event, sent, attempts, retry>> /\ main' = Redelivered
      /\ jobs' = Empty(Jobs) /\ cut' = cut \union Interrupted
  BY DEF OrderWorkerEnds, database, outboxWorker
<1>2. \A p \in Orders, m \in Tries : Present(p, m) => main'[<<p, m>>] > 0 \/ retry'[<<p, m>>] > 0
  BY <1>1, RedeliveryCares DEF Present
<1>3. \A p \in Orders, m \in Tries :
        /\ Present(p, m) => Present(p, m)'
        /\ Underway(p, m) => Underway(p, m)'
  BY <1>2, UnderwayIsPresent DEF Present, Underway
<1>4. \A p \in Orders, m \in Tries : ~At(p, m, "ack")'
  <2>1. ~(0 > 0)
    OBVIOUS
  <2> QED
    BY <1>1, <2>1, NoHandlers, AwaitNames DEF At
<1>5. \A p \in Orders, m \in Tries, await \in {"fail", "dead", "again"} :
        At(p, m, await) => p \in cut'
  BY <1>1 DEF Interrupted
<1> QED
  BY <1>1, <1>3, <1>4, <1>5, CareTravels

\* A handler at an await is a handler, in the next state as well.
LEMMA HandlerThere ==
    ASSUME jobs' \in [Jobs -> Nat], NEW o \in Orders, NEW n \in Tries, NEW await \in Awaits,
           At(o, n, await)'
    PROVE  Handlers(o, n)' > 0
<1>1. \A a \in Awaits : jobs'[<<o, n, a>>] \in Nat
  BY DEF Jobs
<1>2. jobs'[<<o, n, await>>] > 0
  BY DEF At
<1>3. \/ await = "read" \/ await = "bill" \/ await = "save" \/ await = "record"
      \/ await = "fail" \/ await = "dead" \/ await = "again" \/ await = "ack"
  BY DEF Awaits
<1>4. HandlersOf(jobs', o, n) > 0
  BY <1>1, <1>2, <1>3, AwaitNames DEF HandlersOf
<1> QED
  BY <1>4, HandlersCount

\* A message is acknowledged only when something else cares for its order: if its
\* failure is recorded, the last failure of the order has a follow-up.
LEMMA AckCare ==
    ASSUME BillingInv, CareInv, NEW o \in Orders, NEW n \in Tries, Ack(o, n)
    PROVE  CareInv'
<1> USE DEF BillingInv
<1>1. /\ UNCHANGED <<status, event, sent, attempts, cut, main, retry>>
      /\ At(o, n, "ack") /\ jobs' = Minus(jobs, <<o, n, "ack">>)
  BY DEF Ack, database, broker, outboxWorker
<1>2. jobs \in [Jobs -> Nat]
  BY DEF TypeOK
<1>3. jobs' \in [Jobs -> Nat]
  BY <1>1, <1>2, AwaitNames, HandlerEnds
<1>4. \A p \in Orders, m \in Tries, a \in Awaits :
        jobs'[<<p, m, a>>] = jobs[<<p, m, a>>] - (IF p = o /\ m = n /\ a = "ack" THEN 1 ELSE 0)
  <2>1. \A p \in Orders, m \in Tries, a \in Awaits :
          ~(p = o /\ m = n /\ a = "ack") => jobs'[<<p, m, a>>] = jobs[<<p, m, a>>]
    BY <1>1, <1>2 DEF Minus, Jobs
  <2>2. jobs'[<<o, n, "ack">>] = jobs[<<o, n, "ack">>] - 1
    BY <1>1, <1>2, AwaitNames DEF Minus, Jobs
  <2> SUFFICES ASSUME NEW p \in Orders, NEW m \in Tries, NEW a \in Awaits PROVE <1>4!(p, m, a)
    OBVIOUS
  <2>3. jobs[<<p, m, a>>] \in Nat
    BY <1>2 DEF Jobs
  <2>4. CASE p = o /\ m = n /\ a = "ack"
    BY <2>2, <2>4
  <2>5. CASE ~(p = o /\ m = n /\ a = "ack")
    BY <2>1, <2>3, <2>5
  <2> QED
    BY <2>4, <2>5
<1>5. \A p \in Orders, m \in Tries, a \in Awaits :
        /\ a # "ack" /\ At(p, m, a) => At(p, m, a)'
        /\ At(p, m, a)' => At(p, m, a)
  <2> SUFFICES ASSUME NEW p \in Orders, NEW m \in Tries, NEW a \in Awaits PROVE <1>5!(p, m, a)
    OBVIOUS
  <2>1. jobs[<<p, m, a>>] \in Nat /\ jobs'[<<p, m, a>>] \in Nat
    BY <1>2, <1>3 DEF Jobs
  <2>2. jobs'[<<p, m, a>>] =
          jobs[<<p, m, a>>] - (IF p = o /\ m = n /\ a = "ack" THEN 1 ELSE 0)
    BY <1>4
  <2> QED
    BY <2>1, <2>2 DEF At
<1>6. \A p \in Orders, m \in Tries : Underway(p, m) => Underway(p, m)'
  <2>1. \A p \in Orders, m \in Tries, a \in {"read", "bill", "save", "record"} :
          At(p, m, a) => At(p, m, a)'
    BY <1>5, AwaitNames
  <2> QED
    BY <1>1, <2>1 DEF Underway
<1>7. \A p \in Orders, m \in Tries, a \in {"fail", "dead", "again"} : At(p, m, a) => At(p, m, a)'
  BY <1>5, AwaitNames
<1>8. \A p \in Orders, m \in Tries : At(p, m, "ack")' => At(p, m, "ack")
  BY <1>5, AwaitNames
<1>9. \A p \in Orders, m \in Tries :
        Handlers(p, m) > 0 => Handlers(p, m)' > 0 \/ (p = o /\ m = n)
  <2>1. "ack" \in Awaits /\ At(o, n, "ack") /\ jobs' = Minus(jobs, <<o, n, "ack">>)
    BY <1>1, AwaitNames
  <2> SUFFICES ASSUME NEW p \in Orders, NEW m \in Tries, ~(p = o /\ m = n)
               PROVE  Handlers(p, m)' = Handlers(p, m)
    OBVIOUS
  <2>2. Handlers(p, m)' = IF p = o /\ m = n THEN Handlers(p, m) - 1 ELSE Handlers(p, m)
    BY <1>2, <2>1, HandlerEnds
  <2> QED
    BY <2>2
<1>10. CaredFor(o)'
  <2>1. \/ Settled(o) \/ o \in cut \/ Recorded(o, n)
    BY <1>1 DEF CareInv, AcksAreEarned
  <2>2. CASE Settled(o) \/ o \in cut
    BY <1>1, <2>2 DEF CaredFor, Settled
  <2>3. CASE Recorded(o, n)
    <3>1. PICK k \in Tries : Recorded(o, k) /\ ~Recorded(o, k + 1)
      BY <2>3, LastFailure
    <3>2. \/ Settled(o) \/ o \in cut
          \/ \E await \in {"fail", "dead", "again"} : At(o, k, await)
          \/ k < MaxTries /\ Underway(o, k + 1)
      BY <3>1 DEF CareInv, LastFailureIsFollowedUp
    <3>3. ASSUME NEW await \in {"fail", "dead", "again"}, At(o, k, await) PROVE CaredFor(o)'
      <4>1. await \in Awaits
        BY DEF Awaits
      <4>2. Handlers(o, k)' > 0
        BY <1>3, <1>7, <3>3, <4>1, HandlerThere
      <4> QED
        BY <4>2 DEF CaredFor, InMotion
    <3>4. CASE k < MaxTries /\ Underway(o, k + 1)
      <4>1. k + 1 \in Tries
        BY <3>4 DEF Tries
      <4>2. Underway(o, k + 1)'
        BY <1>6, <3>4, <4>1
      <4>3. ASSUME NEW await \in {"read", "bill", "save", "record"}, At(o, k + 1, await)'
            PROVE  Handlers(o, k + 1)' > 0
        <5>1. await \in Awaits
          BY DEF Awaits
        <5> QED
          BY <1>3, <4>1, <4>3, <5>1, HandlerThere
      <4>4. main'[<<o, k + 1>>] > 0 \/ retry'[<<o, k + 1>>] > 0 \/ Handlers(o, k + 1)' > 0
        BY <4>2, <4>3 DEF Underway
      <4> QED
        BY <4>1, <4>4 DEF CaredFor, InMotion
    <3> QED
      BY <2>2, <3>2, <3>3, <3>4
  <2> QED
    BY <2>1, <2>2, <2>3
<1>11. \A p \in Orders : InMotion(p) => CaredFor(p)'
  <2> SUFFICES ASSUME NEW p \in Orders, p # o, InMotion(p) PROVE InMotion(p)'
    BY <1>10 DEF CaredFor
  <2>1. PICK m \in Tries : main[<<p, m>>] > 0 \/ retry[<<p, m>>] > 0 \/ Handlers(p, m) > 0
    BY DEF InMotion
  <2>2. main'[<<p, m>>] > 0 \/ retry'[<<p, m>>] > 0 \/ Handlers(p, m)' > 0
    BY <1>1, <1>9, <2>1
  <2> QED
    BY <2>2 DEF InMotion
<1>12. \A p \in Orders :
         event'[p] = "PUBLISHED" \/ (\E f \in Flushes : sent'[f] = p) => CaredFor(p)
  BY <1>1 DEF CareInv, PublishedIsCaredFor
<1>13. \A p, m : Recorded(p, m)' <=> Recorded(p, m)
  BY <1>1 DEF Recorded
<1>14. \A p \in Orders : Settled(p) => Settled(p)'
  BY <1>1 DEF Settled
<1> QED
  BY <1>1, <1>6, <1>7, <1>8, <1>11, <1>12, <1>13, <1>14, CareMoves

\* A handler that goes on leaves orders cared for: a try that ends is recorded,
\* settled or cut off, a follow-up that ends is done, and an acknowledgement is earned.
LEMMA MoveCare ==
    ASSUME BillingInv, CareInv, NEW o \in Orders, NEW n \in Tries,
           NEW from \in Awaits, NEW to \in Awaits, At(o, n, from), GoOn(o, n, from, to),
           UNCHANGED <<main, event, sent>>, attempts \subseteq attempts', cut \subseteq cut',
           \A p \in Orders : Settled(p) => Settled(p)',
           \A p \in Orders, m \in Tries :
              /\ retry[<<p, m>>] > 0 => retry'[<<p, m>>] > 0
              /\ Recorded(p, m)' => \/ Recorded(p, m)
                                    \/ p = o /\ m = n /\ to \in {"fail", "again"},
           from \in {"read", "bill", "save", "record"} =>
              \/ to \in {"bill", "save", "record"}
              \/ Recorded(o, n)' \/ Settled(o)' \/ o \in cut',
           from \in {"fail", "dead", "again"} =>
              \/ to = "dead" \/ Settled(o)' \/ o \in cut'
              \/ n < MaxTries /\ retry'[<<o, n + 1>>] > 0,
           to = "ack" => Settled(o)' \/ o \in cut' \/ Recorded(o, n)'
    PROVE  CareInv'
<1> USE DEF BillingInv
<1>1. \A p \in Orders, m \in Tries, a \in Awaits :
        /\ At(p, m, a) => At(p, m, a)' \/ (p = o /\ m = n /\ a = from)
        /\ p = o /\ m = n /\ a = to => At(p, m, a)'
  <2> SUFFICES ASSUME NEW p \in Orders, NEW m \in Tries, NEW a \in Awaits PROVE <1>1!(p, m, a)
    OBVIOUS
  <2>1. jobs'[<<p, m, a>>] = jobs[<<p, m, a>>] - One(p = o /\ m = n /\ a = from)
                             + One(p = o /\ m = n /\ a = to)
    BY HandlerGoesOn DEF TypeOK, One
  <2>2. jobs[<<p, m, a>>] \in Nat
    BY Numbers
  <2> QED
    BY <2>1, <2>2 DEF At, One
<1>2. \A p \in Orders, m \in Tries, a \in Awaits :
        At(p, m, a)' => At(p, m, a) \/ (p = o /\ m = n /\ a = to)
  BY MoveAt
<1>3. \A p \in Orders, m \in Tries : Handlers(p, m)' = Handlers(p, m)
  BY HandlerGoesOn DEF TypeOK
<1>4. \A p \in Orders : InMotion(p) => CaredFor(p)'
  <2> SUFFICES ASSUME NEW p \in Orders, InMotion(p) PROVE InMotion(p)'
    BY DEF CaredFor
  <2>1. PICK m \in Tries : main[<<p, m>>] > 0 \/ retry[<<p, m>>] > 0 \/ Handlers(p, m) > 0
    BY DEF InMotion
  <2>2. main'[<<p, m>>] > 0 \/ retry'[<<p, m>>] > 0 \/ Handlers(p, m)' > 0
    BY <1>3, <2>1
  <2> QED
    BY <2>2 DEF InMotion
<1>5. \A p \in Orders, m \in Tries :
        Underway(p, m) => Recorded(p, m)' \/ Settled(p)' \/ p \in cut' \/ Underway(p, m)'
  <2> SUFFICES ASSUME NEW p \in Orders, NEW m \in Tries, Underway(p, m),
                      ~Recorded(p, m)', ~Settled(p)', p \notin cut'
               PROVE  Underway(p, m)'
    OBVIOUS
  <2>1. CASE main[<<p, m>>] > 0 \/ retry[<<p, m>>] > 0
    BY <2>1 DEF Underway
  <2>2. ASSUME NEW a \in {"read", "bill", "save", "record"}, At(p, m, a)
        PROVE  \E b \in {"read", "bill", "save", "record"} : At(p, m, b)'
    <3>1. a \in Awaits
      BY DEF Awaits
    <3>2. CASE p = o /\ m = n /\ a = from
      <4>1. to \in {"bill", "save", "record"}
        BY <3>2
      <4>2. At(p, m, to)'
        BY <1>1, <3>2
      <4> QED
        BY <4>1, <4>2
    <3>3. CASE ~(p = o /\ m = n /\ a = from)
      BY <1>1, <2>2, <3>1, <3>3
    <3> QED
      BY <3>2, <3>3
  <2>3. CASE \E a \in {"read", "bill", "save", "record"} : At(p, m, a)
    <3>1. \E b \in {"read", "bill", "save", "record"} : At(p, m, b)'
      BY <2>2, <2>3
    <3> QED
      BY <3>1 DEF Underway
  <2> QED
    BY <2>1, <2>3 DEF Underway
<1>6. \A p \in Orders, m \in Tries, a \in {"fail", "dead", "again"} :
        At(p, m, a) => \/ At(p, m, a)' \/ At(p, m, "dead")'
                       \/ Settled(p)' \/ p \in cut'
                       \/ (m < MaxTries /\ Underway(p, m + 1)')
  <2> SUFFICES ASSUME NEW p \in Orders, NEW m \in Tries, NEW a \in {"fail", "dead", "again"},
                      At(p, m, a), ~At(p, m, a)'
               PROVE  \/ At(p, m, "dead")' \/ Settled(p)' \/ p \in cut'
                      \/ (m < MaxTries /\ Underway(p, m + 1)')
    OBVIOUS
  <2>1. a \in Awaits
    BY DEF Awaits
  <2>2. p = o /\ m = n /\ a = from
    BY <1>1, <2>1
  <2>3. retry'[<<o, n + 1>>] > 0 => Underway(o, n + 1)'
    BY DEF Underway
  <2> QED
    BY <1>1, <2>2, <2>3
<1>7. \A p \in Orders, m \in Tries :
        At(p, m, "ack")' => \/ At(p, m, "ack") \/ Settled(p)' \/ p \in cut' \/ Recorded(p, m)'
  BY <1>2, AwaitNames
<1>8. \A p \in Orders, m \in Tries :
        Recorded(p, m)' => Recorded(p, m) \/ At(p, m, "fail")' \/ At(p, m, "again")'
  <2> SUFFICES ASSUME NEW p \in Orders, NEW m \in Tries, Recorded(p, m)', ~Recorded(p, m)
               PROVE  At(p, m, "fail")' \/ At(p, m, "again")'
    OBVIOUS
  <2>1. p = o /\ m = n /\ to \in {"fail", "again"}
    OBVIOUS
  <2>2. At(p, m, to)'
    BY <1>1, <2>1
  <2> QED
    BY <2>1, <2>2
<1>9. \A p \in Orders :
        event'[p] = "PUBLISHED" \/ (\E f \in Flushes : sent'[f] = p) => CaredFor(p)
  BY DEF CareInv, PublishedIsCaredFor
<1> QED
  BY <1>4, <1>5, <1>6, <1>7, <1>8, <1>9, CareMoves

\* A handler leaves orders cared for, whichever statement it is at and if it throws.
LEMMA HandlerCare ==
    ASSUME BillingInv, CareInv, NEW o \in Orders, NEW n \in Tries,
           \/ ReadOrder(o, n) \/ BillOrder(o, n) \/ BillOrderFails(o, n) \/ SaveInvoice(o, n)
           \/ RecordAttempt(o, n) \/ AlreadyRecorded(o, n) \/ MarkErpFailed(o, n)
           \/ PublishToDlq(o, n) \/ PublishToRetry(o, n) \/ FollowUpFails(o, n)
           \/ StatementFails(o, n)
    PROVE  CareInv'
<1> USE AwaitNames DEF BillingInv, database, broker, outboxWorker
<1>1. /\ UNCHANGED <<main, event, sent>>
      /\ attempts \subseteq attempts' /\ cut \subseteq cut'
  BY DEF ReadOrder, BillOrder, BillOrderFails, SaveInvoice, RecordAttempt, AlreadyRecorded,
     MarkErpFailed, PublishToDlq, PublishToRetry, FollowUpFails, StatementFails
<1>2. \A p \in Orders : Settled(p) => Settled(p)'
  <2>1. CASE SaveInvoice(o, n) \/ MarkErpFailed(o, n)
    BY <2>1 DEF SaveInvoice, MarkErpFailed, Settled, TypeOK
  <2>2. CASE UNCHANGED status
    BY <2>2 DEF Settled
  <2> QED
    BY <2>1, <2>2 DEF ReadOrder, BillOrder, BillOrderFails, RecordAttempt, AlreadyRecorded,
       PublishToDlq, PublishToRetry, FollowUpFails, StatementFails
<1>3. \A p \in Orders, m \in Tries :
        /\ retry[<<p, m>>] > 0 => retry'[<<p, m>>] > 0
        /\ PublishToRetry(o, n) /\ n < MaxTries => retry'[<<o, n + 1>>] > 0
  <2>1. CASE PublishToRetry(o, n)
    <3>1. n < MaxTries
      BY <2>1 DEF PublishToRetry, TriesHaveReasons
    <3>2. n + 1 \in Tries
      BY <3>1 DEF Tries
    <3>3. \A p \in Orders, m \in Tries :
            /\ retry[<<p, m>>] \in Nat
            /\ retry'[<<p, m>>] = IF p = o /\ m = n + 1 THEN retry[<<p, m>>] + 1
                                  ELSE retry[<<p, m>>]
      BY <2>1, <3>2 DEF PublishToRetry, Plus, TypeOK, Messages
    <3>4. \A p \in Orders, m \in Tries : retry[<<p, m>>] > 0 => retry'[<<p, m>>] > 0
      <4> SUFFICES ASSUME NEW p \in Orders, NEW m \in Tries, retry[<<p, m>>] > 0
                   PROVE  retry'[<<p, m>>] > 0
        OBVIOUS
      <4>1. retry'[<<p, m>>] = retry[<<p, m>>] + 1 \/ retry'[<<p, m>>] = retry[<<p, m>>]
        BY <3>3
      <4>2. retry[<<p, m>>] \in Nat
        BY <3>3
      <4> QED
        BY <4>1, <4>2
    <3>5. retry'[<<o, n + 1>>] > 0
      <4>1. retry'[<<o, n + 1>>] = retry[<<o, n + 1>>] + 1 /\ retry[<<o, n + 1>>] \in Nat
        BY <3>2, <3>3
      <4> QED
        BY <4>1
    <3> QED
      BY <3>4, <3>5
  <2>2. CASE UNCHANGED retry /\ ~PublishToRetry(o, n)
    BY <2>2
  <2> QED
    BY <2>1, <2>2 DEF ReadOrder, BillOrder, BillOrderFails, SaveInvoice, RecordAttempt,
       AlreadyRecorded, MarkErpFailed, PublishToDlq, FollowUpFails, StatementFails
<1>4. UNCHANGED attempts => \A p, m : Recorded(p, m)' <=> Recorded(p, m)
  BY DEF Recorded
<1>5. CASE ReadOrder(o, n)
  <2>1. CASE status[o] = "BILLED"
    <3>1. Settled(o)' /\ UNCHANGED attempts
      BY <1>2, <1>5, <2>1 DEF ReadOrder, Settled
    <3>2. At(o, n, "read") /\ GoOn(o, n, "read", "ack")
      BY <1>5, <2>1 DEF ReadOrder
    <3> QED
      BY <1>1, <1>2, <1>3, <1>4, <3>1, <3>2, MoveCare
  <2>2. CASE status[o] # "BILLED"
    <3>1. At(o, n, "read") /\ GoOn(o, n, "read", "bill") /\ UNCHANGED attempts
      BY <1>5, <2>2 DEF ReadOrder
    <3> QED
      BY <1>1, <1>2, <1>3, <1>4, <3>1, MoveCare
  <2> QED
    BY <2>1, <2>2
<1>6. CASE BillOrder(o, n) \/ BillOrderFails(o, n)
  <2>1. /\ At(o, n, "bill") /\ UNCHANGED attempts
        /\ GoOn(o, n, "bill", "save") \/ GoOn(o, n, "bill", "record")
    BY <1>6 DEF BillOrder, BillOrderFails
  <2>2. CASE GoOn(o, n, "bill", "save")
    BY <1>1, <1>2, <1>3, <1>4, <2>1, <2>2, MoveCare
  <2>3. CASE GoOn(o, n, "bill", "record")
    BY <1>1, <1>2, <1>3, <1>4, <2>1, <2>3, MoveCare
  <2> QED
    BY <2>1, <2>2, <2>3
<1>7. CASE SaveInvoice(o, n)
  <2>1. /\ At(o, n, "save") /\ GoOn(o, n, "save", "ack") /\ UNCHANGED attempts
        /\ Settled(o)'
    BY <1>7 DEF SaveInvoice, Settled, TypeOK
  <2> QED
    BY <1>1, <1>2, <1>3, <1>4, <2>1, MoveCare
<1>8. CASE RecordAttempt(o, n)
  <2>1. /\ At(o, n, "record") /\ GoOn(o, n, "record", AfterFailure(n))
        /\ AfterFailure(n) \in {"fail", "again"} /\ Recorded(o, n)'
        /\ \A p, m : Recorded(p, m)' => Recorded(p, m) \/ (p = o /\ m = n)
    BY <1>8 DEF RecordAttempt, AfterFailure, Recorded
  <2>2. AfterFailure(n) \in Awaits
    BY <2>1
  <2> QED
    BY <1>1, <1>2, <1>3, <2>1, <2>2, MoveCare
<1>9. CASE AlreadyRecorded(o, n)
  <2>1. /\ At(o, n, "record") /\ GoOn(o, n, "record", "ack") /\ UNCHANGED attempts
        /\ Recorded(o, n)'
    BY <1>4, <1>9 DEF AlreadyRecorded
  <2> QED
    BY <1>1, <1>2, <1>3, <1>4, <2>1, MoveCare
<1>10. CASE MarkErpFailed(o, n)
  <2>1. /\ At(o, n, "fail") /\ GoOn(o, n, "fail", "dead") /\ UNCHANGED attempts
    BY <1>10 DEF MarkErpFailed
  <2> QED
    BY <1>1, <1>2, <1>3, <1>4, <2>1, MoveCare
<1>11. CASE PublishToDlq(o, n)
  <2>1. /\ At(o, n, "dead") /\ GoOn(o, n, "dead", "ack") /\ UNCHANGED attempts
        /\ Settled(o)'
    BY <1>2, <1>11 DEF PublishToDlq, TriesHaveReasons
  <2> QED
    BY <1>1, <1>2, <1>3, <1>4, <2>1, MoveCare
<1>12. CASE PublishToRetry(o, n)
  <2>1. /\ At(o, n, "again") /\ GoOn(o, n, "again", "ack") /\ UNCHANGED attempts
        /\ n < MaxTries /\ Recorded(o, n)
    BY <1>12 DEF PublishToRetry, TriesHaveReasons
  <2>2. Recorded(o, n)' /\ retry'[<<o, n + 1>>] > 0
    BY <1>3, <1>4, <1>12, <2>1
  <2> QED
    BY <1>1, <1>2, <1>3, <1>4, <2>1, <2>2, MoveCare
<1>13. CASE FollowUpFails(o, n)
  <2>1. PICK from \in {"dead", "again"} : At(o, n, from) /\ GoOn(o, n, from, "ack")
    BY <1>13 DEF FollowUpFails
  <2>2. from \in Awaits /\ o \in cut' /\ UNCHANGED attempts
    BY <1>13 DEF FollowUpFails
  <2> QED
    BY <1>1, <1>2, <1>3, <1>4, <2>1, <2>2, MoveCare
<1>14. CASE StatementFails(o, n)
  <2>1. UNCHANGED attempts
    BY <1>14 DEF StatementFails
  <2>2. ASSUME NEW from \in {"read", "save"}, At(o, n, from), GoOn(o, n, from, "record")
        PROVE  CareInv'
    <3>1. from \in Awaits
      OBVIOUS
    <3> QED
      BY <1>1, <1>2, <1>3, <1>4, <2>1, <2>2, <3>1, MoveCare
  <2>3. ASSUME NEW from \in {"record", "fail"}, At(o, n, from), GoOn(o, n, from, "ack"),
               o \in cut'
        PROVE  CareInv'
    <3>1. from \in Awaits
      OBVIOUS
    <3> QED
      BY <1>1, <1>2, <1>3, <1>4, <2>1, <2>3, <3>1, MoveCare
  <2> QED
    BY <1>14, <2>2, <2>3 DEF StatementFails
<1> QED
  BY <1>5, <1>6, <1>7, <1>8, <1>9, <1>10, <1>11, <1>12, <1>13, <1>14

\* Where no published message is lost, every step leaves orders cared for.
LEMMA CareStep ==
    ASSUME "lost" \notin Faults
    PROVE  BillingInv /\ CareInv /\ [Next]_vars => CareInv'
<1> SUFFICES ASSUME BillingInv, CareInv, [Next]_vars PROVE CareInv'
  OBVIOUS
<1>1. CASE (\E o \in Orders : Accept(o)) \/ OutboxCrash \/ Heartbeat \/ ErpRestart \/ Reconcile
           \/ UNCHANGED vars
  BY <1>1, StoreCare
<1>2. ASSUME NEW f \in Flushes, Flush(f) \/ FlushFails(f) \/ \E o \in Orders : MarkFails(f, o)
      PROVE  CareInv'
  <2>1. CASE \E o \in Orders : Publish(f, o)
    BY <2>1, PublishCare
  <2>2. CASE \/ ReadPending(f) \/ FlushFails(f)
             \/ \E o \in Orders : PublishFails(f, o) \/ MarkPublished(f, o) \/ MarkFails(f, o)
    BY <2>2, StoreCare
  <2> QED
    BY <1>2, <2>1, <2>2 DEF Flush
<1>3. ASSUME NEW m \in Messages, Deliver(m) \/ Expire(m) PROVE CareInv'
  <2>1. PICK o \in Orders, n \in Tries : m = <<o, n>>
    BY DEF Messages
  <2> QED
    BY <1>3, <2>1, DeliverCare, ExpireCare
<1>4. ASSUME NEW o \in Orders, NEW n \in Tries, Handle(o, n) \/ StatementFails(o, n)
      PROVE  CareInv'
  <2>1. CASE Ack(o, n)
    BY <2>1, AckCare
  <2>2. CASE AckFails(o, n)
    BY <2>2, OrderWorkerEndsCare DEF AckFails
  <2> QED
    BY <1>4, <2>1, <2>2, HandlerCare DEF Handle
<1>5. CASE WorkerCrash
  BY <1>5, OrderWorkerEndsCare DEF WorkerCrash
<1>6. CASE BrokerRestart
  BY <1>6, BrokerRestartCare
<1> QED
  BY <1>1, <1>2, <1>3, <1>4, <1>5, <1>6 DEF Next

\* At first nothing is published, handled or recorded.
LEMMA InitCare == Init => CareInv
<1> SUFFICES ASSUME Init PROVE CareInv
  OBVIOUS
<1>1. PublishedIsCaredFor
  BY DEF Init, PublishedIsCaredFor
<1>2. AcksAreEarned
  <2>1. ~(0 > 0)
    OBVIOUS
  <2> QED
    BY <2>1, NoHandlers, AwaitNames DEF Init, AcksAreEarned, At
<1>3. LastFailureIsFollowedUp
  BY DEF Init, LastFailureIsFollowedUp, Recorded
<1> QED
  BY <1>1, <1>2, <1>3 DEF CareInv

\* The inductive invariants of the billing hold together.
THEOREM CareInvariance == Spec => []ProofInvariants
<1>1. BillingInv /\ [Next]_vars => BillingInv'
  BY BillingStep
<1>2. CASE "lost" \in Faults
  <2>1. ProofInvariants <=> BillingInv
    BY <1>2 DEF ProofInvariants
  <2> QED
    BY <2>1, BillingInvariance, PTL
<1>3. CASE "lost" \notin Faults
  <2>1. ProofInvariants <=> BillingInv /\ CareInv
    BY <1>3 DEF ProofInvariants
  <2>2. Init => BillingInv /\ CareInv
    BY InitBilling, InitCare
  <2>3. BillingInv /\ CareInv /\ [Next]_vars => CareInv'
    BY <1>3, CareStep
  <2> QED
    BY <1>1, <2>1, <2>2, <2>3, PTL DEF Spec
<1> QED
  BY <1>2, <1>3

\* Where the broker loses no message it has taken, an order that waits for its invoice
\* has an event to publish or a message that will be handled, unless a failed try was
\* cut off: the property of the outbox that the README promises, for every number of
\* orders, flushes, tries and faults.
THEOREM NothingForgotten ==
    ASSUME "lost" \notin Faults
    PROVE  Spec => []NoOrderForgotten
<1>1. BillingInv /\ CareInv => NoOrderForgotten
  <2> SUFFICES ASSUME BillingInv, CareInv, NEW o \in Orders, status[o] = "PENDING_ERP",
                      event[o] \notin {"PENDING", "FAILED"}
               PROVE  InMotion(o) \/ o \in cut
    BY DEF NoOrderForgotten
  <2>1. event[o] = "PUBLISHED"
    BY DEF BillingInv, AcceptedFirst, TypeOK
  <2>2. CaredFor(o)
    BY <2>1 DEF CareInv, PublishedIsCaredFor
  <2> QED
    BY <2>2 DEF CaredFor, Settled
<1>2. ProofInvariants => NoOrderForgotten
  BY <1>1 DEF ProofInvariants
<1> QED
  BY <1>2, CareInvariance, PTL
=============================================================================
