---------------------------- MODULE BillingProofs ----------------------------
(* Safety of Billing for every set of orders and flushes. *)
EXTENDS Billing, TLAPS

USE BillingAssumption DEF BillingAssumption

-----------------------------------------------------------------------------
(* Handlers *)

\* The handlers of a try in any bag of jobs.
HandlersOf(bag, o, n) ==
    bag[<<o, n, "read">>] + bag[<<o, n, "bill">>] + bag[<<o, n, "save">>]
    + bag[<<o, n, "record">>] + bag[<<o, n, "fail">>] + bag[<<o, n, "dead">>]
    + bag[<<o, n, "again">>] + bag[<<o, n, "ack">>]

One(condition) == IF condition THEN 1 ELSE 0

\* A job more is a handler of its try more.
LEMMA OneMore ==
    ASSUME NEW bag \in [Jobs -> Nat], NEW o \in Orders, NEW n \in Tries, NEW await \in Awaits
    PROVE  /\ Plus(bag, <<o, n, await>>) \in [Jobs -> Nat]
           /\ \A p \in Orders, m \in Tries :
                HandlersOf(Plus(bag, <<o, n, await>>), p, m) =
                    HandlersOf(bag, p, m) + One(p = o /\ m = n)
<1> DEFINE next == Plus(bag, <<o, n, await>>)
<1>1. <<o, n, await>> \in Jobs
  BY DEF Jobs
<1>2. /\ next \in [Jobs -> Nat]
      /\ \A job \in Jobs : next[job] = IF job = <<o, n, await>> THEN bag[job] + 1 ELSE bag[job]
  BY <1>1 DEF Plus
<1> HIDE DEF next
<1>3. \A p \in Orders, m \in Tries, a \in Awaits :
        /\ bag[<<p, m, a>>] \in Nat
        /\ next[<<p, m, a>>] = bag[<<p, m, a>>] + One(p = o /\ m = n /\ a = await)
  BY <1>2 DEF One, Jobs
<1>4. ASSUME NEW p \in Orders, NEW m \in Tries
      PROVE  HandlersOf(next, p, m) = HandlersOf(bag, p, m) + One(p = o /\ m = n)
  <2> DEFINE j(a) == bag[<<p, m, a>>]
             k(a) == next[<<p, m, a>>]
             e(a) == One(p = o /\ m = n /\ a = await)
  <2>1. \A a \in Awaits : j(a) \in Nat /\ e(a) \in Nat /\ k(a) = j(a) + e(a)
    BY <1>3 DEF One
  <2>2. e("read") + e("bill") + e("save") + e("record") + e("fail") + e("dead")
        + e("again") + e("ack") = One(p = o /\ m = n)
    BY DEF Awaits, One
  <2>3. /\ HandlersOf(bag, p, m) = j("read") + j("bill") + j("save") + j("record")
                                   + j("fail") + j("dead") + j("again") + j("ack")
        /\ HandlersOf(next, p, m) = k("read") + k("bill") + k("save") + k("record")
                                    + k("fail") + k("dead") + k("again") + k("ack")
    BY DEF HandlersOf
  <2>4. {"read", "bill", "save", "record", "fail", "dead", "again", "ack"} \subseteq Awaits
    BY DEF Awaits
  <2> HIDE DEF j, k, e
  <2> QED
    BY <2>1, <2>2, <2>3, <2>4
<1> QED
  BY <1>2, <1>4, Zenon DEF next

\* A job less is a handler of its try less.
LEMMA OneLess ==
    ASSUME NEW bag \in [Jobs -> Nat], NEW o \in Orders, NEW n \in Tries, NEW await \in Awaits,
           bag[<<o, n, await>>] > 0
    PROVE  /\ Minus(bag, <<o, n, await>>) \in [Jobs -> Nat]
           /\ \A p \in Orders, m \in Tries :
                HandlersOf(Minus(bag, <<o, n, await>>), p, m) =
                    HandlersOf(bag, p, m) - One(p = o /\ m = n)
<1> DEFINE next == Minus(bag, <<o, n, await>>)
<1>1. <<o, n, await>> \in Jobs
  BY DEF Jobs
<1>2. /\ next \in [Jobs -> Nat]
      /\ \A job \in Jobs : next[job] = IF job = <<o, n, await>> THEN bag[job] - 1 ELSE bag[job]
  BY <1>1 DEF Minus
<1> HIDE DEF next
<1>3. \A p \in Orders, m \in Tries, a \in Awaits :
        /\ bag[<<p, m, a>>] \in Nat
        /\ next[<<p, m, a>>] = bag[<<p, m, a>>] - One(p = o /\ m = n /\ a = await)
  BY <1>2 DEF One, Jobs
<1>4. ASSUME NEW p \in Orders, NEW m \in Tries
      PROVE  HandlersOf(next, p, m) = HandlersOf(bag, p, m) - One(p = o /\ m = n)
  <2> DEFINE j(a) == bag[<<p, m, a>>]
             k(a) == next[<<p, m, a>>]
             e(a) == One(p = o /\ m = n /\ a = await)
  <2>1. \A a \in Awaits : j(a) \in Nat /\ e(a) \in Nat /\ k(a) = j(a) - e(a)
    BY <1>3 DEF One
  <2>2. e("read") + e("bill") + e("save") + e("record") + e("fail") + e("dead")
        + e("again") + e("ack") = One(p = o /\ m = n)
    BY DEF Awaits, One
  <2>3. /\ HandlersOf(bag, p, m) = j("read") + j("bill") + j("save") + j("record")
                                   + j("fail") + j("dead") + j("again") + j("ack")
        /\ HandlersOf(next, p, m) = k("read") + k("bill") + k("save") + k("record")
                                    + k("fail") + k("dead") + k("again") + k("ack")
    BY DEF HandlersOf
  <2>4. {"read", "bill", "save", "record", "fail", "dead", "again", "ack"} \subseteq Awaits
    BY DEF Awaits
  <2> HIDE DEF j, k, e
  <2> QED
    BY <2>1, <2>2, <2>3, <2>4
<1> QED
  BY <1>2, <1>4, Zenon DEF next

\* Handlers counts the jobs of the store's bag.
LEMMA HandlersCount ==
    /\ \A o, n : Handlers(o, n) = HandlersOf(jobs, o, n)
    /\ \A o, n : Handlers(o, n)' = HandlersOf(jobs', o, n)
BY DEF Handlers, HandlersOf

\* The awaits of a handler.
LEMMA AwaitNames ==
    /\ "read" \in Awaits /\ "bill" \in Awaits /\ "save" \in Awaits /\ "record" \in Awaits
    /\ "fail" \in Awaits /\ "dead" \in Awaits /\ "again" \in Awaits /\ "ack" \in Awaits
BY DEF Awaits

\* The count of a bag's handlers is a natural number.
LEMMA HandlersAreNatural ==
    ASSUME NEW bag \in [Jobs -> Nat], NEW o \in Orders, NEW n \in Tries
    PROVE  HandlersOf(bag, o, n) \in Nat
<1>1. \A await \in Awaits : bag[<<o, n, await>>] \in Nat
  BY DEF Jobs
<1> QED
  BY <1>1, AwaitNames DEF HandlersOf

\* A delivered message is one handler more.
LEMMA HandlerBegins ==
    ASSUME jobs \in [Jobs -> Nat], NEW o \in Orders, NEW n \in Tries, NEW await \in Awaits,
           jobs' = Plus(jobs, <<o, n, await>>)
    PROVE  /\ jobs' \in [Jobs -> Nat]
           /\ \A p \in Orders, m \in Tries :
                Handlers(p, m)' = IF p = o /\ m = n THEN Handlers(p, m) + 1 ELSE Handlers(p, m)
<1>1. jobs' \in [Jobs -> Nat]
  BY OneMore
<1>2. ASSUME NEW p \in Orders, NEW m \in Tries
      PROVE  Handlers(p, m)' = IF p = o /\ m = n THEN Handlers(p, m) + 1 ELSE Handlers(p, m)
  <2>1. HandlersOf(jobs', p, m) = HandlersOf(jobs, p, m) + One(p = o /\ m = n)
    BY OneMore DEF One
  <2>2. HandlersOf(jobs, p, m) \in Nat
    BY HandlersAreNatural
  <2>3. HandlersOf(jobs', p, m) = IF p = o /\ m = n THEN HandlersOf(jobs, p, m) + 1
                                                   ELSE HandlersOf(jobs, p, m)
    BY <2>1, <2>2 DEF One
  <2> QED
    BY <2>3, HandlersCount, Zenon
<1> QED
  BY <1>1, <1>2

\* An acknowledged message is one handler less.
LEMMA HandlerEnds ==
    ASSUME jobs \in [Jobs -> Nat], NEW o \in Orders, NEW n \in Tries, NEW await \in Awaits,
           At(o, n, await), jobs' = Minus(jobs, <<o, n, await>>)
    PROVE  /\ jobs' \in [Jobs -> Nat]
           /\ \A p \in Orders, m \in Tries :
                Handlers(p, m)' = IF p = o /\ m = n THEN Handlers(p, m) - 1 ELSE Handlers(p, m)
<1>1. jobs' \in [Jobs -> Nat]
  BY OneLess DEF At
<1>2. ASSUME NEW p \in Orders, NEW m \in Tries
      PROVE  Handlers(p, m)' = IF p = o /\ m = n THEN Handlers(p, m) - 1 ELSE Handlers(p, m)
  <2>1. HandlersOf(jobs', p, m) = HandlersOf(jobs, p, m) - One(p = o /\ m = n)
    BY OneLess DEF One, At
  <2>2. HandlersOf(jobs, p, m) \in Nat
    BY HandlersAreNatural
  <2>3. HandlersOf(jobs', p, m) = IF p = o /\ m = n THEN HandlersOf(jobs, p, m) - 1
                                                   ELSE HandlersOf(jobs, p, m)
    BY <2>1, <2>2 DEF One
  <2> QED
    BY <2>3, HandlersCount, Zenon
<1> QED
  BY <1>1, <1>2

\* A handler that goes on is at another await; its try has as many as before.
LEMMA HandlerGoesOn ==
    ASSUME jobs \in [Jobs -> Nat], NEW o \in Orders, NEW n \in Tries,
           NEW from \in Awaits, NEW to \in Awaits,
           At(o, n, from), GoOn(o, n, from, to)
    PROVE  /\ jobs' \in [Jobs -> Nat]
           /\ \A p \in Orders, m \in Tries, a \in Awaits :
                jobs'[<<p, m, a>>] = jobs[<<p, m, a>>] - One(p = o /\ m = n /\ a = from)
                                     + One(p = o /\ m = n /\ a = to)
           /\ \A p \in Orders, m \in Tries : Handlers(p, m)' = Handlers(p, m)
<1> DEFINE between == Minus(jobs, <<o, n, from>>)
<1>1. between \in [Jobs -> Nat]
  BY OneLess DEF At
<1>2. \A p \in Orders, m \in Tries :
        HandlersOf(between, p, m) = HandlersOf(jobs, p, m) - One(p = o /\ m = n)
  BY OneLess DEF One, At
<1>3. \A p \in Orders, m \in Tries, a \in Awaits :
        jobs'[<<p, m, a>>] = jobs[<<p, m, a>>] - One(p = o /\ m = n /\ a = from)
                             + One(p = o /\ m = n /\ a = to)
  BY DEF GoOn, Plus, Minus, One, Jobs
<1>4. jobs' = Plus(between, <<o, n, to>>)
  BY DEF GoOn
<1> HIDE DEF between
<1>5. jobs' \in [Jobs -> Nat]
  BY <1>1, <1>4, OneMore
<1>6. \A p \in Orders, m \in Tries :
        HandlersOf(jobs', p, m) = HandlersOf(between, p, m) + One(p = o /\ m = n)
  BY <1>1, <1>4, OneMore DEF One
<1>7. \A p \in Orders, m \in Tries : HandlersOf(jobs, p, m) \in Int
  BY DEF HandlersOf, Jobs, Awaits
<1>8. \A p \in Orders, m \in Tries : Handlers(p, m)' = Handlers(p, m)
  BY <1>2, <1>6, <1>7, HandlersCount DEF One
<1> QED
  BY <1>3, <1>5, <1>8 DEF One

-----------------------------------------------------------------------------
(* The first state, and facts of every state *)

\* A bag without jobs has no handlers.
LEMMA NoHandlers ==
    \A o \in Orders, n \in Tries :
        /\ HandlersOf(Empty(Jobs), o, n) = 0
        /\ \A await \in Awaits : Empty(Jobs)[<<o, n, await>>] = 0
<1>1. \A o \in Orders, n \in Tries, await \in Awaits : Empty(Jobs)[<<o, n, await>>] = 0
  BY DEF Empty, Jobs
<1>2. \A o \in Orders, n \in Tries : HandlersOf(Empty(Jobs), o, n) = 0
  BY <1>1, AwaitNames DEF HandlersOf
<1> QED
  BY <1>1, <1>2

\* Nothing is queued, handled or made out before the first order.
LEMMA InitBilling == Init => BillingInv
<1> SUFFICES ASSUME Init PROVE BillingInv
  OBVIOUS
<1>1. /\ \A o \in Orders, n \in Tries : main[<<o, n>>] = 0 /\ retry[<<o, n>>] = 0
      /\ \A o \in Orders : dlq[o] = 0 /\ issued[o] = 0
  BY DEF Init, Empty, Messages
<1>2. \A o \in Orders, n \in Tries, await \in Awaits : jobs[<<o, n, await>>] = 0
  BY NoHandlers DEF Init
<1>3. \A o \in Orders, n \in Tries : Handlers(o, n) = 0
  BY NoHandlers, HandlersCount DEF Init
<1>4. TypeOK
  <2>1. /\ main \in [Messages -> Nat] /\ retry \in [Messages -> Nat]
        /\ dlq \in [Orders -> Nat] /\ issued \in [Orders -> Nat]
        /\ jobs \in [Jobs -> Nat]
    BY DEF Init, Empty
  <2>2. channel \in [Workers -> {"none", "open", "dead"}]
    BY DEF Init, Workers
  <2>3. status \in [Orders -> {"none", "PENDING_ERP", "BILLED", "ERP_FAILED"}]
        /\ event \in [Orders -> {"none", "PENDING", "PUBLISHED", "FAILED"}]
        /\ batch \in [Flushes -> SUBSET Orders]
        /\ sent \in [Flushes -> Orders \union {None}] /\ \A f \in Flushes : sent[f] = None
    BY DEF Init
  <2>4. runs \in 0 .. MaxRuns /\ faults \in 0 .. MaxFaults
    BY DEF Init
  <2>5. ~consuming /\ consuming \in BOOLEAN /\ jobs = Empty(Jobs) /\ found = None
        /\ invoice = {} /\ attempts = {} /\ billed = {} /\ forgotten = {} /\ cut = {}
        /\ todo = {} /\ owed = {}
    BY DEF Init
  <2> QED
    BY <2>1, <2>2, <2>3, <2>4, <2>5 DEF TypeOK
<1>5. AcceptedFirst
  BY <1>1, <1>3 DEF Init, AcceptedFirst
<1>6. ReceiptsAreKnown
  BY <1>1, <1>2, AwaitNames DEF Init, ReceiptsAreKnown, At
<1>7. TriesHaveReasons
  <2>1. ~(0 > 0)
    OBVIOUS
  <2>2. \A o \in Orders, n \in Tries, await \in Awaits : ~At(o, n, await)
    BY <1>2, <2>1 DEF At
  <2> QED
    BY <1>1, <1>3, <2>1, <2>2, AwaitNames DEF TriesHaveReasons
<1>8. FollowUpsAreSingle
  <2> SUFFICES ASSUME NEW o \in Orders, NEW n \in Tries PROVE FollowUp(o, n) = 0
    BY DEF FollowUpsAreSingle
  <2>1. n # MaxTries => n + 1 \in Tries
    BY DEF Tries
  <2>2. n # MaxTries => Unacked(o, n + 1) = 0
    BY <1>3, <2>1 DEF Unacked
  <2> QED
    BY <1>1, <1>2, <2>1, <2>2, AwaitNames DEF FollowUp
<1>9. OwedIsChecked /\ BilledIsInvoiced /\ InvoicedOnce /\ DeadLettersAreEarned
  BY <1>1 DEF Init, OwedIsChecked, BilledIsInvoiced, InvoicedOnce, DeadLettersAreEarned
<1> QED
  BY <1>4, <1>5, <1>6, <1>7, <1>8, <1>9 DEF BillingInv

\* What each number of a state is.
LEMMA Numbers ==
    ASSUME TypeOK, NEW o \in Orders, NEW n \in Tries
    PROVE  /\ main[<<o, n>>] \in Nat /\ retry[<<o, n>>] \in Nat /\ dlq[o] \in Nat
           /\ \A await \in Awaits : jobs[<<o, n, await>>] \in Nat
           /\ Handlers(o, n) \in Nat /\ Unacked(o, n) \in Nat
           /\ n \in Nat /\ n <= MaxTries /\ (n # MaxTries => n + 1 \in Tries)
<1>1. /\ main[<<o, n>>] \in Nat /\ retry[<<o, n>>] \in Nat /\ dlq[o] \in Nat
      /\ \A await \in Awaits : jobs[<<o, n, await>>] \in Nat
  BY DEF TypeOK, Messages, Jobs
<1>2. HandlersOf(jobs, o, n) \in Nat
  BY <1>1, AwaitNames DEF HandlersOf
<1>3. Handlers(o, n) \in Nat
  BY <1>2, HandlersCount
<1>4. n \in Nat /\ n <= MaxTries /\ (n # MaxTries => n + 1 \in Tries)
  BY DEF Tries
<1> QED
  BY <1>1, <1>3, <1>4 DEF Unacked

\* A handler is one of its try's, whose worker has a channel, and whose order was
\* accepted.
LEMMA HandlerExists ==
    ASSUME TypeOK, AcceptedFirst, NEW o \in Orders, NEW n \in Tries, NEW await \in Awaits,
           At(o, n, await)
    PROVE  Handlers(o, n) > 0 /\ channel["order"] # "none" /\ status[o] # "none"
<1>1. \A a \in Awaits : jobs[<<o, n, a>>] \in Nat
  BY DEF TypeOK, Jobs
<1>2. HandlersOf(jobs, o, n) > 0 /\ HandlersOf(jobs, o, n) # 0
  <2>1. jobs[<<o, n, await>>] > 0
    BY DEF At
  <2>2. \/ await = "read" \/ await = "bill" \/ await = "save" \/ await = "record"
        \/ await = "fail" \/ await = "dead" \/ await = "again" \/ await = "ack"
    BY DEF Awaits
  <2> QED
    BY <1>1, <2>1, <2>2, AwaitNames DEF HandlersOf
<1>3. Handlers(o, n) > 0 /\ Handlers(o, n) # 0
  BY <1>2, HandlersCount
<1>4. jobs # Empty(Jobs)
  BY NoHandlers DEF At
<1>5. channel["order"] # "none"
  BY <1>4 DEF TypeOK
<1>6. status[o] # "none"
  BY <1>3 DEF AcceptedFirst
<1> QED
  BY <1>3, <1>5, <1>6

-----------------------------------------------------------------------------
(* A handler that goes on *)

\* Only its next await is new.
LEMMA MoveAt ==
    ASSUME TypeOK, NEW o \in Orders, NEW n \in Tries,
           NEW from \in Awaits, NEW to \in Awaits, At(o, n, from), GoOn(o, n, from, to)
    PROVE  \A p \in Orders, m \in Tries, await \in Awaits :
              At(p, m, await)' => At(p, m, await) \/ (p = o /\ m = n /\ await = to)
<1> SUFFICES ASSUME NEW p \in Orders, NEW m \in Tries, NEW await \in Awaits, At(p, m, await)',
                    ~(p = o /\ m = n /\ await = to)
             PROVE  At(p, m, await)
  OBVIOUS
<1>1. jobs'[<<p, m, await>>] = jobs[<<p, m, await>>] - One(p = o /\ m = n /\ await = from)
                               + One(p = o /\ m = n /\ await = to)
  BY HandlerGoesOn DEF TypeOK, One
<1>2. jobs[<<p, m, await>>] \in Nat
  BY Numbers
<1> QED
  BY <1>1, <1>2 DEF One, At

\* It is about an order that was accepted, and stays so.
LEMMA MoveAccepted ==
    ASSUME BillingInv, NEW o \in Orders, NEW n \in Tries,
           NEW from \in Awaits, NEW to \in Awaits, At(o, n, from), GoOn(o, n, from, to),
           UNCHANGED <<event, batch, main>>, status'[o] # "none",
           \A p \in Orders \ {o} : /\ status'[p] = status[p] /\ issued'[p] = issued[p]
                                   /\ \A m \in Tries : retry'[<<p, m>>] = retry[<<p, m>>]
    PROVE  AcceptedFirst'
<1> USE DEF BillingInv
<1>1. \A p \in Orders, m \in Tries : Handlers(p, m)' = Handlers(p, m)
  BY HandlerGoesOn DEF TypeOK
<1>2. status[o] # "none"
  BY HandlerExists
<1> SUFFICES ASSUME NEW p \in Orders PROVE AcceptedFirst!(p)'
  BY DEF AcceptedFirst
<1>3. CASE p = o
  BY <1>2, <1>3 DEF AcceptedFirst
<1>4. CASE p # o
  BY <1>1, <1>4 DEF AcceptedFirst
<1> QED
  BY <1>3, <1>4

\* A receipt is made out at most once while the ERP remembers it, and before a
\* handler gets to save the invoice.
LEMMA MoveReceipts ==
    ASSUME BillingInv, NEW o \in Orders, NEW n \in Tries,
           NEW from \in Awaits, NEW to \in Awaits, At(o, n, from), GoOn(o, n, from, to),
           UNCHANGED found, UNCHANGED erp \/ MakeOut(o),
           to = "save" => MakeOut(o)
    PROVE  ReceiptsAreKnown' /\ InvoicedOnce'
<1> USE DEF BillingInv
<1>1. \A p \in Orders : issued[p] \in Nat
  BY DEF TypeOK
<1>2. MakeOut(o) => /\ billed' = billed \union {o} /\ forgotten' = forgotten
                    /\ \A p \in Orders \ {o} : issued'[p] = issued[p]
                    /\ issued'[o] > 0
                    /\ issued'[o] = issued[o] \/ (issued'[o] = issued[o] + 1 /\ o \notin billed)
  <2> SUFFICES ASSUME MakeOut(o)
               PROVE  /\ \A p \in Orders \ {o} : issued'[p] = issued[p]
                      /\ issued'[o] > 0
                      /\ issued'[o] = issued[o] \/ (issued'[o] = issued[o] + 1 /\ o \notin billed)
    BY DEF MakeOut
  <2>1. CASE NewToErp(o)
    BY <1>1, <2>1 DEF MakeOut, NewToErp, Plus, TypeOK
  <2>2. CASE ~NewToErp(o)
    BY <2>2 DEF MakeOut, NewToErp, ReceiptsAreKnown
  <2> QED
    BY <2>1, <2>2
<1>3. \A p \in Orders : issued[p] > 0 => issued'[p] > 0
  BY <1>2 DEF erp
<1>4. \A p \in Orders, m \in Tries :
        At(p, m, "save")' => At(p, m, "save") \/ (p = o /\ issued'[o] > 0)
  BY <1>2, MoveAt, AwaitNames
<1>5. ReceiptsAreKnown'
  <2>1. found # None => issued'[found] > 0
    BY <1>3 DEF ReceiptsAreKnown, TypeOK
  <2>2. ASSUME NEW p \in Orders
        PROVE  /\ p \in billed' => issued'[p] > 0
               /\ issued'[p] > 0 => p \in billed' \union forgotten'
    <3>1. CASE UNCHANGED erp
      BY <3>1 DEF ReceiptsAreKnown, erp
    <3>2. CASE MakeOut(o)
      BY <1>2, <3>2 DEF ReceiptsAreKnown
    <3> QED
      BY <3>1, <3>2
  <2>3. \A p \in Orders, m \in Tries : At(p, m, "save")' => issued'[p] > 0
    BY <1>3, <1>4 DEF ReceiptsAreKnown
  <2> QED
    BY <2>1, <2>2, <2>3 DEF ReceiptsAreKnown
<1>6. InvoicedOnce'
  <2> SUFFICES ASSUME NEW p \in Orders PROVE issued'[p] <= 1 \/ p \in forgotten'
    BY DEF InvoicedOnce
  <2>1. CASE UNCHANGED erp \/ p # o
    BY <1>2, <2>1 DEF InvoicedOnce, erp
  <2>2. CASE MakeOut(o) /\ p = o
    <3>1. CASE issued'[o] = issued[o]
      BY <1>2, <2>2, <3>1 DEF InvoicedOnce
    <3>2. CASE issued'[o] = issued[o] + 1 /\ o \notin billed
      <4>1. issued[o] > 0 => o \in forgotten
        BY <3>2 DEF ReceiptsAreKnown
      <4> QED
        BY <1>1, <1>2, <2>2, <3>2, <4>1
    <3> QED
      BY <1>2, <2>2, <3>1, <3>2
  <2> QED
    BY <2>1, <2>2
<1> QED
  BY <1>5, <1>6

\* Its next await has its reasons.
LEMMA MoveTries ==
    ASSUME BillingInv, NEW o \in Orders, NEW n \in Tries,
           NEW from \in Awaits, NEW to \in Awaits, At(o, n, from), GoOn(o, n, from, to),
           UNCHANGED <<channel, main>>, attempts \subseteq attempts',
           \A p \in Orders : Settled(p) => Settled(p)',
           \A p \in Orders, m \in Tries :
              retry'[<<p, m>>] > 0 => retry[<<p, m>>] > 0 \/ Recorded(p, m - 1)',
           to = "again" => n < MaxTries /\ Recorded(o, n)',
           to \in {"fail", "dead"} => n = MaxTries /\ Recorded(o, n)',
           to = "dead" => Settled(o)'
    PROVE  TriesHaveReasons'
<1> USE DEF BillingInv
<1>1. \A p \in Orders, m \in Tries : Handlers(p, m)' = Handlers(p, m)
  BY HandlerGoesOn DEF TypeOK
<1>2. \A p \in Orders, m \in Tries, await \in Awaits :
        At(p, m, await)' => At(p, m, await) \/ (p = o /\ m = n /\ await = to)
  BY MoveAt
<1>3. \A p, m : Recorded(p, m) => Recorded(p, m)'
  BY DEF Recorded
<1> SUFFICES ASSUME NEW p \in Orders, NEW m \in Tries PROVE TriesHaveReasons!(p, m)'
  BY DEF TriesHaveReasons
<1>4. At(p, m, "again")' => m < MaxTries /\ Recorded(p, m)'
  <2>1. At(p, m, "again")' => At(p, m, "again") \/ (p = o /\ m = n /\ to = "again")
    BY <1>2, AwaitNames
  <2>2. At(p, m, "again") => m < MaxTries /\ Recorded(p, m)
    BY DEF TriesHaveReasons
  <2> QED
    BY <1>3, <2>1, <2>2
<1>5. /\ At(p, m, "fail")' => m = MaxTries /\ Recorded(p, m)'
      /\ At(p, m, "dead")' => m = MaxTries /\ Recorded(p, m)' /\ Settled(p)'
  <2>1. /\ At(p, m, "fail")' => At(p, m, "fail") \/ (p = o /\ m = n /\ to = "fail")
        /\ At(p, m, "dead")' => At(p, m, "dead") \/ (p = o /\ m = n /\ to = "dead")
    BY <1>2, AwaitNames
  <2>2. /\ At(p, m, "fail") => m = MaxTries /\ Recorded(p, m)
        /\ At(p, m, "dead") => m = MaxTries /\ Recorded(p, m) /\ Settled(p)
    BY DEF TriesHaveReasons
  <2> QED
    BY <1>3, <2>1, <2>2
<1>6. m > 1 /\ (main'[<<p, m>>] > 0 \/ retry'[<<p, m>>] > 0 \/ Handlers(p, m)' > 0) =>
        Recorded(p, m - 1)'
  BY <1>1, <1>3 DEF TriesHaveReasons
<1>7. channel'["order"] = "dead" /\ Handlers(p, m)' > 0 => main'[<<p, m>>] > 0
  BY <1>1 DEF TriesHaveReasons
<1> QED
  BY <1>4, <1>5, <1>6, <1>7

-----------------------------------------------------------------------------
(* Types *)

\* A fault is counted up to its bound.
LEMMA FaultCounts ==
    ASSUME TypeOK, NEW kind, Fault(kind)
    PROVE  faults' \in 0 .. MaxFaults
BY DEF TypeOK, Fault

\* An accepted order keeps the types.
LEMMA AcceptTypes ==
    ASSUME TypeOK, NEW o \in Orders, Accept(o)
    PROVE  TypeOK'
BY DEF TypeOK, Accept, broker, links, outboxWorker, erp, recon

\* The outbox worker keeps the types.
LEMMA OutboxTypes ==
    ASSUME TypeOK, NEW f \in Flushes
    PROVE  /\ ReadPending(f) \/ FlushFails(f) => TypeOK'
           /\ \A o \in Orders :
                \/ Publish(f, o) \/ PublishFails(f, o) \/ MarkPublished(f, o) \/ MarkFails(f, o)
                => TypeOK'
<1> USE DEF TypeOK, database, broker, links, outboxWorker, erp, recon
<1>1. ASSUME ReadPending(f) PROVE TypeOK'
  BY <1>1 DEF ReadPending, Pending, Workers
<1>2. ASSUME NEW o \in Orders, Publish(f, o) PROVE TypeOK'
  <2>1. main' \in [Messages -> Nat]
    <3>1. <<o, 1>> \in Messages
      BY DEF Messages, Tries
    <3>2. Plus(main, <<o, 1>>) \in [Messages -> Nat]
      BY <3>1 DEF Plus
    <3> QED
      BY <1>2, <3>2 DEF Publish
  <2>2. faults' \in 0 .. MaxFaults
    BY <1>2, FaultCounts DEF Publish
  <2> QED
    BY <1>2, <2>1, <2>2 DEF Publish
<1>3. ASSUME NEW o \in Orders,
             event' = event \/ \E outcome \in {"PUBLISHED", "FAILED"} : event' = [event EXCEPT ![o] = outcome],
             batch' = [batch EXCEPT ![f] = @ \ {o}],
             sent' = [sent EXCEPT ![f] = None], faults' \in 0 .. MaxFaults,
             UNCHANGED <<status, invoice, attempts, broker, links, jobs, erp, recon, cut>>
      PROVE  TypeOK'
  BY <1>3
<1>4. ASSUME NEW o \in Orders, PublishFails(f, o) PROVE TypeOK'
  BY <1>3, <1>4 DEF PublishFails, Handled
<1>5. ASSUME NEW o \in Orders, MarkPublished(f, o) PROVE TypeOK'
  BY <1>3, <1>5 DEF MarkPublished, Handled
<1>6. ASSUME NEW o \in Orders, MarkFails(f, o) PROVE TypeOK'
  BY <1>3, <1>6, FaultCounts DEF MarkFails, Handled
<1>7. ASSUME FlushFails(f) PROVE TypeOK'
  BY <1>7, FaultCounts DEF FlushFails
<1> QED
  BY <1>1, <1>2, <1>4, <1>5, <1>6, <1>7

\* What leaves the outbox worker and the handlers alone keeps the types.
LEMMA OtherTypes ==
    ASSUME TypeOK
    PROVE  /\ Heartbeat => TypeOK'
           /\ OutboxCrash => TypeOK'
           /\ ErpRestart => TypeOK'
           /\ StartReconcile => TypeOK'
           /\ \A o \in Orders : CheckInvoice(o) => TypeOK'
           /\ Repair => TypeOK'
           /\ ReconcileFails => TypeOK'
<1> USE DEF TypeOK, database, broker, links, outboxWorker, erp, recon
<1>1. ASSUME Heartbeat PROVE TypeOK'
  <2>1. CASE EnsureTopology
    BY <2>1 DEF EnsureTopology, Workers
  <2>2. CASE StartConsumer
    BY <2>2 DEF StartConsumer, Workers
  <2> QED
    BY <1>1, <2>1, <2>2, Zenon DEF Heartbeat
<1>2. ASSUME ErpRestart PROVE TypeOK'
  BY <1>2, FaultCounts DEF ErpRestart
<1>3. ASSUME StartReconcile PROVE TypeOK'
  BY <1>3 DEF StartReconcile
<1>4. ASSUME NEW o \in Orders, CheckInvoice(o) PROVE TypeOK'
  BY <1>4 DEF CheckInvoice
<1>5. ASSUME Repair PROVE TypeOK'
  BY <1>5 DEF Repair
<1>6. ASSUME ReconcileFails PROVE TypeOK'
  BY <1>6 DEF ReconcileFails
<1>7. ASSUME OutboxCrash PROVE TypeOK'
  BY <1>7, FaultCounts DEF OutboxCrash, Workers
<1> QED
  BY <1>1, <1>2, <1>3, <1>4, <1>5, <1>6, <1>7

\* Redelivery adds to each queue what the lost channel had delivered of it.
LEMMA RedeliveredCounts ==
    ASSUME TypeOK
    PROVE  /\ Redelivered \in [Messages -> Nat]
           /\ \A o \in Orders, n \in Tries :
                Redelivered[<<o, n>>] = main[<<o, n>>] + Unacked(o, n)
<1>1. \A m \in Messages : m[1] \in Orders /\ m[2] \in Tries /\ m = <<m[1], m[2]>>
  BY DEF Messages
<1>2. \A m \in Messages : main[m] + Unacked(m[1], m[2]) \in Nat
  BY <1>1, Numbers
<1>3. \A o \in Orders, n \in Tries : <<o, n>> \in Messages
  BY DEF Messages
<1> QED
  BY <1>2, <1>3 DEF Redelivered

\* A handler that goes on keeps the types, if what else it does keeps them.
LEMMA MoveTypes ==
    ASSUME TypeOK, AcceptedFirst, NEW o \in Orders, NEW n \in Tries,
           NEW from \in Awaits, NEW to \in Awaits, At(o, n, from), GoOn(o, n, from, to),
           UNCHANGED <<event, main, links, outboxWorker, recon>>,
           status' \in [Orders -> {"none", "PENDING_ERP", "BILLED", "ERP_FAILED"}],
           invoice' \subseteq Orders, attempts' \subseteq Messages,
           retry' \in [Messages -> Nat], dlq' \in [Orders -> Nat],
           billed' \subseteq Orders, issued' \in [Orders -> Nat], forgotten' \subseteq Orders,
           cut' \subseteq Orders, faults' \in 0 .. MaxFaults
    PROVE  TypeOK'
<1>1. jobs' \in [Jobs -> Nat]
  BY HandlerGoesOn DEF TypeOK
<1>2. channel["order"] # "none"
  BY HandlerExists
<1> QED
  BY <1>1, <1>2 DEF TypeOK, links, outboxWorker, recon

\* The handlers of the billing consumer keep the types.
LEMMA HandlerTypes ==
    ASSUME TypeOK, AcceptedFirst, TriesHaveReasons, NEW o \in Orders, NEW n \in Tries,
           \/ ReadOrder(o, n) \/ BillOrder(o, n) \/ BillOrderFails(o, n) \/ SaveInvoice(o, n)
           \/ RecordAttempt(o, n) \/ AlreadyRecorded(o, n) \/ MarkErpFailed(o, n)
           \/ PublishToDlq(o, n) \/ PublishToRetry(o, n) \/ FollowUpFails(o, n)
           \/ StatementFails(o, n)
    PROVE  TypeOK'
<1> USE AwaitNames DEF database, broker
<1> DEFINE rest ==
      /\ status \in [Orders -> {"none", "PENDING_ERP", "BILLED", "ERP_FAILED"}]
      /\ invoice \subseteq Orders /\ attempts \subseteq Messages
      /\ retry \in [Messages -> Nat] /\ dlq \in [Orders -> Nat]
      /\ billed \subseteq Orders /\ issued \in [Orders -> Nat] /\ forgotten \subseteq Orders
      /\ cut \subseteq Orders /\ faults \in 0 .. MaxFaults
<1>1. rest
  BY DEF TypeOK
<1>2. MakeOut(o) => /\ billed' \subseteq Orders /\ issued' \in [Orders -> Nat]
                    /\ forgotten' \subseteq Orders
  BY <1>1 DEF MakeOut, Plus
<1>3. ASSUME ReadOrder(o, n) PROVE TypeOK'
  <2>1. PICK to \in Awaits : GoOn(o, n, "read", to)
    BY <1>3 DEF ReadOrder
  <2> QED
    BY <1>1, <1>3, <2>1, MoveTypes DEF ReadOrder, erp
<1>4. ASSUME BillOrder(o, n) PROVE TypeOK'
  BY <1>1, <1>2, <1>4, MoveTypes DEF BillOrder
<1>5. ASSUME BillOrderFails(o, n) PROVE TypeOK'
  BY <1>1, <1>2, <1>5, MoveTypes DEF BillOrderFails, erp
<1>6. ASSUME SaveInvoice(o, n) PROVE TypeOK'
  BY <1>1, <1>6, MoveTypes DEF SaveInvoice, erp
<1>7. ASSUME RecordAttempt(o, n) PROVE TypeOK'
  <2>1. AfterFailure(n) \in Awaits
    BY DEF AfterFailure
  <2>2. attempts' \subseteq Messages
    BY <1>1, <1>7 DEF RecordAttempt, Messages
  <2> QED
    BY <1>1, <1>7, <2>1, <2>2, MoveTypes DEF RecordAttempt, erp
<1>8. ASSUME AlreadyRecorded(o, n) PROVE TypeOK'
  BY <1>1, <1>8, MoveTypes DEF AlreadyRecorded, erp
<1>9. ASSUME MarkErpFailed(o, n) PROVE TypeOK'
  BY <1>1, <1>9, MoveTypes DEF MarkErpFailed, erp
<1>10. ASSUME PublishToDlq(o, n) PROVE TypeOK'
  <2>1. dlq' \in [Orders -> Nat]
    BY <1>1, <1>10 DEF PublishToDlq, Plus
  <2> QED
    BY <1>1, <1>10, <2>1, MoveTypes DEF PublishToDlq, erp
<1>11. ASSUME PublishToRetry(o, n) PROVE TypeOK'
  <2>1. retry' \in [Messages -> Nat]
    <3>1. <<o, n + 1>> \in Messages
      <4>1. n # MaxTries
        <5>1. At(o, n, "again")
          BY <1>11 DEF PublishToRetry
        <5>2. n < MaxTries
          BY <5>1 DEF TriesHaveReasons
        <5> QED
          BY <5>2 DEF Tries
      <4>2. n + 1 \in Tries
        BY <4>1, Numbers
      <4> QED
        BY <4>2 DEF Messages
    <3> QED
      BY <1>1, <1>11, <3>1 DEF PublishToRetry, Plus
  <2> QED
    BY <1>1, <1>11, <2>1, MoveTypes DEF PublishToRetry, erp
<1>12. ASSUME FollowUpFails(o, n) PROVE TypeOK'
  <2>1. cut' \subseteq Orders
    BY <1>1, <1>12 DEF FollowUpFails
  <2>2. PICK from \in Awaits : At(o, n, from) /\ GoOn(o, n, from, "ack")
    BY <1>12 DEF FollowUpFails
  <2> QED
    BY <1>1, <1>12, <2>1, <2>2, MoveTypes DEF FollowUpFails, erp
<1>13. ASSUME StatementFails(o, n) PROVE TypeOK'
  <2>1. cut' \subseteq Orders /\ faults' \in 0 .. MaxFaults
    BY <1>1, <1>13, FaultCounts DEF StatementFails
  <2>2. PICK from \in Awaits, to \in Awaits : At(o, n, from) /\ GoOn(o, n, from, to)
    <3>1. CASE \E from \in {"read", "save"} : At(o, n, from) /\ GoOn(o, n, from, "record")
      BY <3>1
    <3>2. CASE \E from \in {"record", "fail"} : At(o, n, from) /\ GoOn(o, n, from, "ack")
      BY <3>2
    <3> QED
      BY <1>13, <3>1, <3>2 DEF StatementFails
  <2> QED
    BY <1>1, <1>13, <2>1, <2>2, MoveTypes DEF StatementFails, erp
<1> QED
  BY <1>3, <1>4, <1>5, <1>6, <1>7, <1>8, <1>9, <1>10, <1>11, <1>12, <1>13

\* The broker and the end of the order worker keep the types.
LEMMA BrokerTypes ==
    ASSUME TypeOK, AcceptedFirst
    PROVE  /\ \A m \in Messages : Deliver(m) \/ Expire(m) => TypeOK'
           /\ BrokerRestart => TypeOK'
           /\ \A o \in Orders, n \in Tries : Ack(o, n) \/ AckFails(o, n) => TypeOK'
           /\ WorkerCrash => TypeOK'
<1> USE DEF database, broker, links, outboxWorker, erp, recon
<1>1. ASSUME NEW m \in Messages, Deliver(m) PROVE TypeOK'
  <2>1. m[1] \in Orders /\ m[2] \in Tries
    BY DEF Messages
  <2>2. jobs' \in [Jobs -> Nat]
    BY <1>1, <2>1, AwaitNames, HandlerBegins DEF Deliver, TypeOK
  <2>3. main' \in [Messages -> Nat]
    BY <1>1 DEF Deliver, Minus, TypeOK
  <2> QED
    BY <1>1, <2>2, <2>3 DEF Deliver, TypeOK
<1>2. ASSUME NEW m \in Messages, Expire(m) PROVE TypeOK'
  <2>1. main' \in [Messages -> Nat] /\ retry' \in [Messages -> Nat]
    BY <1>2 DEF Expire, Minus, Plus, TypeOK
  <2> QED
    BY <1>2, <2>1 DEF Expire, TypeOK
<1>3. ASSUME BrokerRestart PROVE TypeOK'
  <2>1. channel' \in [Workers -> {"none", "open", "dead"}]
        /\ (channel'["order"] = "none" => channel["order"] = "none")
    BY <1>3 DEF BrokerRestart, TypeOK, Workers
  <2>2. faults' \in 0 .. MaxFaults
    BY <1>3, FaultCounts DEF BrokerRestart
  <2> QED
    BY <1>3, <2>1, <2>2, RedeliveredCounts DEF BrokerRestart, TypeOK
<1>4. ASSUME NEW o \in Orders, NEW n \in Tries, Ack(o, n) PROVE TypeOK'
  <2>1. jobs' \in [Jobs -> Nat]
    BY <1>4, AwaitNames, HandlerEnds DEF Ack, TypeOK
  <2>2. channel["order"] # "none"
    BY <1>4, AwaitNames, HandlerExists DEF Ack
  <2> QED
    BY <1>4, <2>1, <2>2 DEF Ack, TypeOK
<1>5. ASSUME OrderWorkerEnds, faults' \in 0 .. MaxFaults PROVE TypeOK'
  <2>1. cut' \subseteq Orders /\ consuming' = FALSE /\ jobs' = Empty(Jobs)
        /\ jobs' \in [Jobs -> Nat]
    BY <1>5 DEF OrderWorkerEnds, Interrupted, Empty, TypeOK
  <2>2. channel' \in [Workers -> {"none", "open", "dead"}]
    BY <1>5 DEF OrderWorkerEnds, TypeOK, Workers
  <2> QED
    BY <1>5, <2>1, <2>2, RedeliveredCounts DEF OrderWorkerEnds, TypeOK
<1>6. ASSUME NEW o \in Orders, NEW n \in Tries, AckFails(o, n) PROVE TypeOK'
  BY <1>5, <1>6 DEF AckFails, TypeOK
<1>7. ASSUME WorkerCrash PROVE TypeOK'
  BY <1>5, <1>7, FaultCounts DEF WorkerCrash
<1> QED
  BY <1>1, <1>2, <1>3, <1>4, <1>6, <1>7

-----------------------------------------------------------------------------
(* What carries over from one state to the next *)

\* Numbers, of the next state.
LEMMA NumbersNext ==
    ASSUME TypeOK', NEW o \in Orders, NEW n \in Tries
    PROVE  /\ main'[<<o, n>>] \in Nat /\ retry'[<<o, n>>] \in Nat /\ dlq'[o] \in Nat
           /\ \A await \in Awaits : jobs'[<<o, n, await>>] \in Nat
           /\ Handlers(o, n)' \in Nat /\ Unacked(o, n)' \in Nat
<1>1. /\ main'[<<o, n>>] \in Nat /\ retry'[<<o, n>>] \in Nat /\ dlq'[o] \in Nat
      /\ \A await \in Awaits : jobs'[<<o, n, await>>] \in Nat
  BY DEF TypeOK, Messages, Jobs
<1>2. HandlersOf(jobs', o, n) \in Nat
  BY <1>1, AwaitNames DEF HandlersOf
<1>3. Handlers(o, n)' \in Nat
  BY <1>2, HandlersCount
<1> QED
  BY <1>1, <1>3 DEF Unacked

\* If no queue gains a later try and no handler one more follow-up, a failure has
\* still one follow-up at most.
LEMMA FollowUpsKept ==
    ASSUME TypeOK, TypeOK', FollowUpsAreSingle, attempts \subseteq attempts',
           \A p \in Orders : dlq'[p] <= dlq[p],
           \A p \in Orders, m \in Tries :
              /\ jobs'[<<p, m, "fail">>] <= jobs[<<p, m, "fail">>]
              /\ jobs'[<<p, m, "dead">>] <= jobs[<<p, m, "dead">>]
              /\ jobs'[<<p, m, "again">>] <= jobs[<<p, m, "again">>],
           \A p \in Orders, m \in Tries : m > 1 =>
              main'[<<p, m>>] + retry'[<<p, m>>] + Unacked(p, m)' <=
                 main[<<p, m>>] + retry[<<p, m>>] + Unacked(p, m)
    PROVE  FollowUpsAreSingle'
<1> SUFFICES ASSUME NEW p \in Orders, NEW m \in Tries
             PROVE  FollowUp(p, m)' <= IF Recorded(p, m)' THEN 1 ELSE 0
  BY DEF FollowUpsAreSingle
<1>1. FollowUp(p, m) <= IF Recorded(p, m) THEN 1 ELSE 0
  BY DEF FollowUpsAreSingle
<1>2. Recorded(p, m) => Recorded(p, m)'
  BY DEF Recorded
<1>3. /\ FollowUp(p, m)' <= FollowUp(p, m)
      /\ FollowUp(p, m)' \in Nat /\ FollowUp(p, m) \in Nat
  <2>1. CASE m = MaxTries
    <3>1. /\ dlq[p] \in Nat /\ jobs[<<p, m, "fail">>] \in Nat /\ jobs[<<p, m, "dead">>] \in Nat
          /\ dlq'[p] \in Nat /\ jobs'[<<p, m, "fail">>] \in Nat /\ jobs'[<<p, m, "dead">>] \in Nat
      BY Numbers, NumbersNext, AwaitNames
    <3>2. /\ dlq'[p] <= dlq[p] /\ jobs'[<<p, m, "fail">>] <= jobs[<<p, m, "fail">>]
          /\ jobs'[<<p, m, "dead">>] <= jobs[<<p, m, "dead">>]
      OBVIOUS
    <3> QED
      BY <2>1, <3>1, <3>2 DEF FollowUp
  <2>2. CASE m # MaxTries
    <3> DEFINE k == m + 1
    <3>1. k \in Tries /\ k > 1
      BY <2>2 DEF Tries
    <3>2. main'[<<p, k>>] + retry'[<<p, k>>] + Unacked(p, k)' <=
             main[<<p, k>>] + retry[<<p, k>>] + Unacked(p, k)
      BY <3>1
    <3>3. /\ main[<<p, k>>] \in Nat /\ retry[<<p, k>>] \in Nat /\ Unacked(p, k) \in Nat
          /\ main'[<<p, k>>] \in Nat /\ retry'[<<p, k>>] \in Nat /\ Unacked(p, k)' \in Nat
          /\ jobs[<<p, m, "again">>] \in Nat /\ jobs'[<<p, m, "again">>] \in Nat
      BY <3>1, Numbers, NumbersNext, AwaitNames
    <3>4. FollowUp(p, m) = jobs[<<p, m, "again">>] + retry[<<p, k>>] + main[<<p, k>>] + Unacked(p, k)
      BY <2>2 DEF FollowUp
    <3>5. FollowUp(p, m)' = jobs'[<<p, m, "again">>] + retry'[<<p, k>>] + main'[<<p, k>>] + Unacked(p, k)'
      BY <2>2 DEF FollowUp
    <3> HIDE DEF k
    <3>6. jobs'[<<p, m, "again">>] <= jobs[<<p, m, "again">>]
      OBVIOUS
    <3> QED
      BY <3>2, <3>3, <3>4, <3>5, <3>6
  <2> QED
    BY <2>1, <2>2
<1> QED
  BY <1>1, <1>2, <1>3

\* If no queue and no handler is about a new try, tries keep their reasons.
LEMMA ReasonsKept ==
    ASSUME TriesHaveReasons, attempts \subseteq attempts',
           \A p \in Orders : Settled(p) => Settled(p)',
           \A p \in Orders, m \in Tries, await \in {"fail", "dead", "again"} :
              At(p, m, await)' => At(p, m, await),
           \A p \in Orders, m \in Tries :
              m > 1 /\ (main'[<<p, m>>] > 0 \/ retry'[<<p, m>>] > 0 \/ Handlers(p, m)' > 0) =>
                 (main[<<p, m>>] > 0 \/ retry[<<p, m>>] > 0 \/ Handlers(p, m) > 0),
           \A p \in Orders, m \in Tries :
              channel'["order"] = "dead" /\ Handlers(p, m)' > 0 => main'[<<p, m>>] > 0
    PROVE  TriesHaveReasons'
<1>1. \A p, m : Recorded(p, m) => Recorded(p, m)'
  BY DEF Recorded
<1> SUFFICES ASSUME NEW p \in Orders, NEW m \in Tries PROVE TriesHaveReasons!(p, m)'
  BY DEF TriesHaveReasons
<1>2. /\ At(p, m, "again")' => m < MaxTries /\ Recorded(p, m)'
      /\ At(p, m, "fail")' => m = MaxTries /\ Recorded(p, m)'
      /\ At(p, m, "dead")' => m = MaxTries /\ Recorded(p, m)' /\ Settled(p)'
  BY <1>1 DEF TriesHaveReasons
<1>3. m > 1 /\ (main'[<<p, m>>] > 0 \/ retry'[<<p, m>>] > 0 \/ Handlers(p, m)' > 0) =>
        Recorded(p, m - 1)'
  BY <1>1 DEF TriesHaveReasons
<1> QED
  BY <1>2, <1>3

\* Where orders, invoices and dead letters stay as they are, they are in order.
LEMMA OutcomesKept ==
    ASSUME BilledIsInvoiced, DeadLettersAreEarned,
           UNCHANGED <<status, invoice, dlq>>, attempts \subseteq attempts',
           \A p \in Orders : issued[p] > 0 => issued'[p] > 0
    PROVE  BilledIsInvoiced' /\ DeadLettersAreEarned'
BY DEF BilledIsInvoiced, DeadLettersAreEarned

\* Where the ERP makes out nothing and no handler gets to save an invoice, receipts
\* are known as before.
LEMMA ReceiptsKept ==
    ASSUME ReceiptsAreKnown, InvoicedOnce, UNCHANGED erp, found' = found \/ found' = None,
           \A p \in Orders, m \in Tries : At(p, m, "save")' => At(p, m, "save")
    PROVE  ReceiptsAreKnown' /\ InvoicedOnce'
BY DEF ReceiptsAreKnown, InvoicedOnce, erp

\* Where no handler goes on, there are as many.
LEMMA Resting ==
    ASSUME UNCHANGED jobs
    PROVE  \A o, n : /\ Handlers(o, n)' = Handlers(o, n)
                     /\ \A await : At(o, n, await)' <=> At(o, n, await)
BY HandlersCount DEF At

\* The queues are not what receipts, invoices and dead letters depend on.
LEMMA StoreRests ==
    ASSUME BillingInv, UNCHANGED <<status, invoice, dlq, attempts, erp, recon>>,
           \A p \in Orders, m \in Tries : At(p, m, "save")' => At(p, m, "save")
    PROVE  ReceiptsAreKnown' /\ InvoicedOnce' /\ OwedIsChecked' /\ BilledIsInvoiced'
           /\ DeadLettersAreEarned'
<1> USE DEF BillingInv
<1>1. ReceiptsAreKnown' /\ InvoicedOnce'
  BY ReceiptsKept DEF recon
<1>2. BilledIsInvoiced' /\ DeadLettersAreEarned'
  BY OutcomesKept DEF erp
<1>3. OwedIsChecked'
  BY DEF OwedIsChecked, recon, erp
<1> QED
  BY <1>1, <1>2, <1>3

\* No handler is elsewhere.
LEMMA SameJobs ==
    ASSUME TypeOK, UNCHANGED jobs
    PROVE  \A p \in Orders, m \in Tries :
             /\ jobs'[<<p, m, "fail">>] <= jobs[<<p, m, "fail">>]
             /\ jobs'[<<p, m, "dead">>] <= jobs[<<p, m, "dead">>]
             /\ jobs'[<<p, m, "again">>] <= jobs[<<p, m, "again">>]
             /\ jobs'[<<p, m, "save">>] <= jobs[<<p, m, "save">>]
<1> SUFFICES ASSUME NEW p \in Orders, NEW m \in Tries
             PROVE  /\ jobs[<<p, m, "fail">>] <= jobs[<<p, m, "fail">>]
                    /\ jobs[<<p, m, "dead">>] <= jobs[<<p, m, "dead">>]
                    /\ jobs[<<p, m, "again">>] <= jobs[<<p, m, "again">>]
                    /\ jobs[<<p, m, "save">>] <= jobs[<<p, m, "save">>]
  OBVIOUS
<1>1. /\ jobs[<<p, m, "fail">>] \in Nat /\ jobs[<<p, m, "dead">>] \in Nat
      /\ jobs[<<p, m, "again">>] \in Nat /\ jobs[<<p, m, "save">>] \in Nat
  BY Numbers, AwaitNames
<1> QED
  BY <1>1

\* Where no message moves, tries keep their reasons and failures their follow-ups.
LEMMA QueuesRest ==
    ASSUME BillingInv, TypeOK', UNCHANGED <<main, retry, dlq, jobs, attempts>>,
           channel'["order"] = channel["order"], \A p \in Orders : Settled(p) => Settled(p)'
    PROVE  TriesHaveReasons' /\ FollowUpsAreSingle'
<1> USE DEF BillingInv
<1>1. \A p \in Orders, m \in Tries : Unacked(p, m)' = Unacked(p, m)
  BY Resting DEF Unacked
<1>2. \A p \in Orders, m \in Tries :
        /\ jobs[<<p, m, "fail">>] \in Nat /\ jobs[<<p, m, "dead">>] \in Nat
        /\ jobs[<<p, m, "again">>] \in Nat
        /\ main[<<p, m>>] \in Nat /\ retry[<<p, m>>] \in Nat /\ Unacked(p, m) \in Nat
  BY Numbers, AwaitNames
<1>3. \A p \in Orders : dlq[p] \in Nat
  BY DEF TypeOK
<1>4. FollowUpsAreSingle'
  <2>1. \A p \in Orders : dlq'[p] <= dlq[p]
    BY <1>3
  <2>2. \A p \in Orders, m \in Tries :
          main'[<<p, m>>] + retry'[<<p, m>>] + Unacked(p, m)' <=
             main[<<p, m>>] + retry[<<p, m>>] + Unacked(p, m)
    <3> SUFFICES ASSUME NEW p \in Orders, NEW m \in Tries
                 PROVE  main[<<p, m>>] + retry[<<p, m>>] + Unacked(p, m) <=
                           main[<<p, m>>] + retry[<<p, m>>] + Unacked(p, m)
      BY <1>1
    <3>1. main[<<p, m>>] \in Nat /\ retry[<<p, m>>] \in Nat /\ Unacked(p, m) \in Nat
      BY <1>2
    <3> QED
      BY <3>1
  <2> QED
    BY <2>1, <2>2, SameJobs, FollowUpsKept
<1>5. TriesHaveReasons'
  <2>1. \A p \in Orders, m \in Tries :
          channel'["order"] = "dead" /\ Handlers(p, m)' > 0 => main'[<<p, m>>] > 0
    BY Resting DEF TriesHaveReasons
  <2> QED
    BY <2>1, Resting, ReasonsKept
<1> QED
  BY <1>4, <1>5

-----------------------------------------------------------------------------
(* Every step keeps the invariant *)

\* The checkout accepts an order nothing is known of.
LEMMA AcceptInv ==
    ASSUME BillingInv, NEW o \in Orders, Accept(o)
    PROVE  BillingInv'
<1> USE DEF BillingInv
<1>1. TypeOK'
  BY AcceptTypes
<1>2. /\ status[o] = "none" /\ status'[o] = "PENDING_ERP" /\ event'[o] = "PENDING"
      /\ \A p \in Orders \ {o} : status'[p] = status[p] /\ event'[p] = event[p]
      /\ UNCHANGED <<main, retry, dlq, jobs, batch, attempts, issued, channel, invoice, found>>
      /\ UNCHANGED <<erp, recon>>
  BY DEF Accept, TypeOK, broker, outboxWorker, links, erp, recon
<1>3. AcceptedFirst'
  BY <1>2, Resting DEF AcceptedFirst
<1>4. \A p \in Orders : Settled(p) => Settled(p)'
  BY <1>2 DEF Settled
<1>5. TriesHaveReasons' /\ FollowUpsAreSingle'
  BY <1>1, <1>2, <1>4, QueuesRest
<1>6. ReceiptsAreKnown' /\ InvoicedOnce'
  BY <1>2, Resting, ReceiptsKept
<1>7. o \notin invoice
  <2>1. issued[o] = 0 /\ ~(0 > 0)
    BY <1>2 DEF AcceptedFirst
  <2> QED
    BY <2>1 DEF BilledIsInvoiced
<1>8. BilledIsInvoiced' /\ DeadLettersAreEarned'
  BY <1>2, <1>7 DEF BilledIsInvoiced, DeadLettersAreEarned
<1>9. OwedIsChecked'
  BY <1>2 DEF OwedIsChecked, erp, recon
<1> QED
  BY <1>1, <1>3, <1>5, <1>6, <1>8, <1>9

\* A flush reads, finishes or drops events of accepted orders.
LEMMA FlushInv ==
    ASSUME BillingInv,
           \/ \E f \in Flushes : ReadPending(f) \/ FlushFails(f)
           \/ \E f \in Flushes, o \in Orders :
                PublishFails(f, o) \/ MarkPublished(f, o) \/ MarkFails(f, o)
           \/ OutboxCrash
    PROVE  BillingInv'
<1> USE DEF BillingInv
<1> DEFINE kept == /\ UNCHANGED <<status, invoice, attempts, main, retry, dlq, jobs, erp, recon>>
                   /\ channel'["order"] = channel["order"]
           accepted == /\ \A p \in Orders : event'[p] = "none" <=> event[p] = "none"
                       /\ \A p \in Orders, g \in Flushes : p \in batch'[g] => status[p] # "none"
<1>1. TypeOK' /\ kept /\ accepted
  <2>1. ASSUME NEW f \in Flushes, ReadPending(f) PROVE TypeOK' /\ kept /\ accepted
    <3>1. TypeOK'
      BY <2>1, OutboxTypes
    <3>2. kept
      BY <2>1 DEF ReadPending, database, broker, links, TypeOK, Workers
    <3>3. accepted
      BY <2>1 DEF ReadPending, Pending, AcceptedFirst, TypeOK, database
    <3> QED
      BY <3>1, <3>2, <3>3
  <2>2. ASSUME NEW f \in Flushes, FlushFails(f) PROVE TypeOK' /\ kept /\ accepted
    <3>1. TypeOK'
      BY <2>2, OutboxTypes
    <3>2. kept /\ accepted
      BY <2>2 DEF FlushFails, database, broker, links, AcceptedFirst, TypeOK
    <3> QED
      BY <3>1, <3>2
  <2>3. ASSUME OutboxCrash PROVE TypeOK' /\ kept /\ accepted
    <3>1. TypeOK'
      BY <2>3, OtherTypes
    <3>2. kept
      BY <2>3 DEF OutboxCrash, database, broker, links, TypeOK, Workers
    <3>3. accepted
      BY <2>3 DEF OutboxCrash, database
    <3> QED
      BY <3>1, <3>2, <3>3
  <2>4. ASSUME NEW f \in Flushes, NEW o \in Orders,
               PublishFails(f, o) \/ MarkPublished(f, o) \/ MarkFails(f, o)
        PROVE  TypeOK' /\ kept /\ accepted
    <3>1. TypeOK'
      BY <2>4, OutboxTypes
    <3>2. kept
      BY <2>4 DEF PublishFails, MarkPublished, MarkFails, Handled, broker, links
    <3>3. o \in batch[f]
      BY <2>4 DEF PublishFails, MarkPublished, MarkFails, TypeOK
    <3>4. PICK outcome \in {"PUBLISHED", "FAILED"} : Handled(f, o, outcome)
      BY <2>4 DEF PublishFails, MarkPublished, MarkFails
    <3>5. accepted
      BY <3>3, <3>4 DEF Handled, AcceptedFirst, TypeOK
    <3> QED
      BY <3>1, <3>2, <3>5
  <2> QED
    BY <2>1, <2>2, <2>3, <2>4
<1>2. kept
  BY <1>1
<1>3. accepted
  BY <1>1
<1>4. AcceptedFirst'
  BY <1>2, <1>3, Resting DEF AcceptedFirst, erp
<1>5. TriesHaveReasons' /\ FollowUpsAreSingle'
  BY <1>1, <1>2, QueuesRest DEF Settled
<1>6. ReceiptsAreKnown' /\ InvoicedOnce' /\ OwedIsChecked' /\ BilledIsInvoiced'
      /\ DeadLettersAreEarned'
  BY <1>2, Resting, StoreRests
<1> QED
  BY <1>1, <1>4, <1>5, <1>6

\* The try is queued or being handled.
Present(o, n) == main[<<o, n>>] > 0 \/ retry[<<o, n>>] > 0 \/ Handlers(o, n) > 0

\* Messages may move between queues and handlers, as long as only a first try of an
\* accepted order is new.
LEMMA MessagesMove ==
    ASSUME BillingInv, TypeOK',
           UNCHANGED <<status, invoice, event, attempts, dlq, batch, erp, recon>>,
           \A p \in Orders, m \in Tries :
              /\ jobs'[<<p, m, "fail">>] <= jobs[<<p, m, "fail">>]
              /\ jobs'[<<p, m, "dead">>] <= jobs[<<p, m, "dead">>]
              /\ jobs'[<<p, m, "again">>] <= jobs[<<p, m, "again">>]
              /\ jobs'[<<p, m, "save">>] <= jobs[<<p, m, "save">>],
           \A p \in Orders, m \in Tries : m > 1 =>
              main'[<<p, m>>] + retry'[<<p, m>>] + Unacked(p, m)' <=
                 main[<<p, m>>] + retry[<<p, m>>] + Unacked(p, m),
           \A p \in Orders, m \in Tries :
              Present(p, m)' => Present(p, m) \/ (m = 1 /\ status[p] # "none"),
           \A p \in Orders, m \in Tries :
              channel'["order"] = "dead" /\ Handlers(p, m)' > 0 => main'[<<p, m>>] > 0
    PROVE  BillingInv'
<1> USE DEF BillingInv
<1>1. \A p \in Orders, m \in Tries :
        /\ At(p, m, "fail")' => At(p, m, "fail")
        /\ At(p, m, "dead")' => At(p, m, "dead")
        /\ At(p, m, "again")' => At(p, m, "again")
        /\ At(p, m, "save")' => At(p, m, "save")
  <2> SUFFICES ASSUME NEW p \in Orders, NEW m \in Tries,
                      NEW await \in {"fail", "dead", "again", "save"}, At(p, m, await)'
               PROVE  At(p, m, await)
    OBVIOUS
  <2>1. await \in Awaits
    BY DEF Awaits
  <2>2. jobs'[<<p, m, await>>] <= jobs[<<p, m, await>>]
    OBVIOUS
  <2>3. jobs'[<<p, m, await>>] \in Nat /\ jobs[<<p, m, await>>] \in Nat
    BY <2>1, Numbers, NumbersNext
  <2> QED
    BY <2>2, <2>3 DEF At
<1>2. AcceptedFirst'
  <2> SUFFICES ASSUME NEW p \in Orders PROVE AcceptedFirst!(p)'
    BY DEF AcceptedFirst
  <2>1. ASSUME status[p] = "none", NEW m \in Tries
        PROVE  main'[<<p, m>>] = 0 /\ retry'[<<p, m>>] = 0 /\ Handlers(p, m)' = 0
    <3>1. ~(0 > 0)
      OBVIOUS
    <3>2. ~Present(p, m)
      BY <2>1, <3>1 DEF AcceptedFirst, Present
    <3>3. ~Present(p, m)'
      BY <2>1, <3>2
    <3> QED
      BY <3>3, NumbersNext DEF Present
  <2>2. /\ status'[p] = "none" <=> event'[p] = "none"
        /\ status'[p] = "none" => /\ \A f \in Flushes : p \notin batch'[f]
                                  /\ issued'[p] = 0
    BY DEF AcceptedFirst, erp
  <2> QED
    BY <2>1, <2>2
<1>3. TriesHaveReasons'
  <2>1. \A p \in Orders, m \in Tries : m > 1 /\ Present(p, m)' => Present(p, m)
    <3>1. ~(1 > 1)
      OBVIOUS
    <3> QED
      BY <3>1
  <2>2. \A p \in Orders : Settled(p) => Settled(p)'
    BY DEF Settled
  <2> QED
    BY <1>1, <2>1, <2>2, ReasonsKept DEF Present
<1>4. FollowUpsAreSingle'
  <2>1. \A p \in Orders : dlq'[p] <= dlq[p]
    <3>1. \A p \in Orders : dlq[p] \in Nat
      BY DEF TypeOK
    <3> QED
      BY <3>1
  <2> QED
    BY <2>1, FollowUpsKept
<1>5. ReceiptsAreKnown' /\ InvoicedOnce' /\ OwedIsChecked' /\ BilledIsInvoiced'
      /\ DeadLettersAreEarned'
  BY <1>1, StoreRests
<1> QED
  BY <1>2, <1>3, <1>4, <1>5

\* A published event is a first try of an accepted order.
LEMMA PublishInv ==
    ASSUME BillingInv, NEW f \in Flushes, NEW o \in Orders, Publish(f, o)
    PROVE  BillingInv'
<1> USE DEF BillingInv
<1>1. TypeOK'
  BY OutboxTypes
<1>2. UNCHANGED <<status, invoice, event, attempts, dlq, batch, jobs, channel, retry, erp, recon>>
  BY DEF Publish, database, links
<1>3. status[o] # "none"
  BY DEF Publish, AcceptedFirst
<1>4. \A p \in Orders, m \in Tries :
        main'[<<p, m>>] = main[<<p, m>>] \/ (p = o /\ m = 1 /\ main'[<<p, m>>] > main[<<p, m>>])
  <2>1. CASE main' = main
    BY <2>1
  <2>2. CASE main' = Plus(main, <<o, 1>>)
    <3> SUFFICES ASSUME NEW p \in Orders, NEW m \in Tries PROVE <1>4!(p, m)
      OBVIOUS
    <3>1. main[<<p, m>>] \in Nat /\ <<p, m>> \in Messages
      BY Numbers DEF Messages
    <3>2. main'[<<p, m>>] = IF p = o /\ m = 1 THEN main[<<p, m>>] + 1 ELSE main[<<p, m>>]
      BY <2>2, <3>1 DEF Plus, TypeOK
    <3> QED
      BY <3>1, <3>2
  <2> QED
    BY <2>1, <2>2 DEF Publish
<1>5. \A p \in Orders, m \in Tries : Present(p, m)' => Present(p, m) \/ (m = 1 /\ status[p] # "none")
  BY <1>2, <1>3, <1>4, Resting DEF Present
<1>6. \A p \in Orders, m \in Tries :
        channel'["order"] = "dead" /\ Handlers(p, m)' > 0 => main'[<<p, m>>] > 0
  <2> SUFFICES ASSUME NEW p \in Orders, NEW m \in Tries, channel["order"] = "dead",
                      Handlers(p, m) > 0
               PROVE  main'[<<p, m>>] > 0
    BY <1>2, Resting
  <2>1. main[<<p, m>>] > 0 /\ main[<<p, m>>] \in Nat /\ main'[<<p, m>>] \in Nat
    BY <1>1, Numbers, NumbersNext DEF TriesHaveReasons
  <2> QED
    BY <1>4, <2>1
<1>7. \A p \in Orders, m \in Tries : m > 1 =>
        main'[<<p, m>>] + retry'[<<p, m>>] + Unacked(p, m)' <=
           main[<<p, m>>] + retry[<<p, m>>] + Unacked(p, m)
  <2> SUFFICES ASSUME NEW p \in Orders, NEW m \in Tries, m > 1
               PROVE  main'[<<p, m>>] + retry'[<<p, m>>] + Unacked(p, m)' <=
                         main[<<p, m>>] + retry[<<p, m>>] + Unacked(p, m)
    OBVIOUS
  <2>1. main'[<<p, m>>] = main[<<p, m>>]
    BY <1>4
  <2>2. Unacked(p, m)' = Unacked(p, m) /\ retry'[<<p, m>>] = retry[<<p, m>>]
    BY <1>2, Resting DEF Unacked
  <2>3. main[<<p, m>>] \in Nat /\ retry[<<p, m>>] \in Nat /\ Unacked(p, m) \in Nat
    BY Numbers
  <2> QED
    BY <2>1, <2>2, <2>3
<1>8. \A p \in Orders, m \in Tries :
        /\ jobs'[<<p, m, "fail">>] <= jobs[<<p, m, "fail">>]
        /\ jobs'[<<p, m, "dead">>] <= jobs[<<p, m, "dead">>]
        /\ jobs'[<<p, m, "again">>] <= jobs[<<p, m, "again">>]
        /\ jobs'[<<p, m, "save">>] <= jobs[<<p, m, "save">>]
  BY <1>2, SameJobs
<1> QED
  BY <1>1, <1>2, <1>5, <1>6, <1>7, <1>8, MessagesMove

\* A channel that is opened has delivered nothing yet.
LEMMA HeartbeatInv ==
    ASSUME BillingInv, Heartbeat
    PROVE  BillingInv'
<1> USE DEF BillingInv
<1>1. TypeOK'
  BY OtherTypes
<1>2. UNCHANGED <<status, invoice, event, attempts, dlq, batch, jobs, main, retry, erp, recon>>
  BY DEF Heartbeat, EnsureTopology, StartConsumer, database, broker, outboxWorker
<1>3. \/ channel' = channel
      \/ channel["order"] = "none" /\ channel'["order"] = "open"
  BY DEF Heartbeat, EnsureTopology, StartConsumer, TypeOK, Workers
<1>4. \A p \in Orders, m \in Tries : Unacked(p, m)' = Unacked(p, m)
  <2>1. CASE channel' = channel
    BY <1>2, <2>1, Resting DEF Unacked
  <2>2. CASE channel["order"] = "none" /\ channel'["order"] = "open"
    <3>1. \A p \in Orders, m \in Tries : Handlers(p, m)' = 0
      BY <1>2, <2>2, NoHandlers, HandlersCount DEF TypeOK
    <3> QED
      BY <2>2, <3>1 DEF Unacked
  <2> QED
    BY <1>3, <2>1, <2>2
<1>5. \A p \in Orders, m \in Tries :
        main'[<<p, m>>] + retry'[<<p, m>>] + Unacked(p, m)' <=
           main[<<p, m>>] + retry[<<p, m>>] + Unacked(p, m)
  <2> SUFFICES ASSUME NEW p \in Orders, NEW m \in Tries
               PROVE  main[<<p, m>>] + retry[<<p, m>>] + Unacked(p, m) <=
                         main[<<p, m>>] + retry[<<p, m>>] + Unacked(p, m)
    BY <1>2, <1>4
  <2>1. main[<<p, m>>] \in Nat /\ retry[<<p, m>>] \in Nat /\ Unacked(p, m) \in Nat
    BY Numbers
  <2> QED
    BY <2>1
<1>6. \A p \in Orders, m \in Tries :
        channel'["order"] = "dead" /\ Handlers(p, m)' > 0 => main'[<<p, m>>] > 0
  BY <1>2, <1>3, Resting DEF TriesHaveReasons
<1>7. \A p \in Orders, m \in Tries : Present(p, m)' => Present(p, m)
  BY <1>2, Resting DEF Present
<1> QED
  BY <1>1, <1>2, <1>5, <1>6, <1>7, SameJobs, MessagesMove

\* A delivered message leaves the queue for a handler.
LEMMA DeliverInv ==
    ASSUME BillingInv, NEW o \in Orders, NEW n \in Tries, Deliver(<<o, n>>)
    PROVE  BillingInv'
<1> USE DEF BillingInv
<1>1. TypeOK' /\ <<o, n>> \in Messages
  BY BrokerTypes DEF Messages
<1>2. /\ UNCHANGED <<status, invoice, event, attempts, dlq, batch, retry, channel, erp, recon>>
      /\ channel["order"] = "open" /\ main[<<o, n>>] > 0
      /\ main' = Minus(main, <<o, n>>) /\ jobs' = Plus(jobs, <<o, n, "read">>)
  BY DEF Deliver, database, links, outboxWorker
<1>3. \A p \in Orders, m \in Tries :
        /\ jobs'[<<p, m, "fail">>] = jobs[<<p, m, "fail">>]
        /\ jobs'[<<p, m, "dead">>] = jobs[<<p, m, "dead">>]
        /\ jobs'[<<p, m, "again">>] = jobs[<<p, m, "again">>]
        /\ jobs'[<<p, m, "save">>] = jobs[<<p, m, "save">>]
  <2>1. \A p \in Orders, m \in Tries, a \in Awaits :
          a # "read" => jobs'[<<p, m, a>>] = jobs[<<p, m, a>>]
    BY <1>2 DEF Plus, Jobs, TypeOK
  <2> QED
    BY <2>1, AwaitNames
<1>4. \A p \in Orders, m \in Tries :
        Handlers(p, m)' = IF p = o /\ m = n THEN Handlers(p, m) + 1 ELSE Handlers(p, m)
  <2>1. jobs \in [Jobs -> Nat]
    BY DEF TypeOK
  <2>2. "read" \in Awaits
    BY AwaitNames
  <2> QED
    BY <1>2, <2>1, <2>2, HandlerBegins
<1>5. \A p \in Orders, m \in Tries :
        main'[<<p, m>>] = IF p = o /\ m = n THEN main[<<p, m>>] - 1 ELSE main[<<p, m>>]
  BY <1>2 DEF Minus, Messages, TypeOK
<1>6. \A p \in Orders, m \in Tries :
        Unacked(p, m)' = Handlers(p, m)' /\ Unacked(p, m) = Handlers(p, m)
  BY <1>2 DEF Unacked
<1>7. \A p \in Orders, m \in Tries :
        /\ main'[<<p, m>>] + retry'[<<p, m>>] + Unacked(p, m)' <=
              main[<<p, m>>] + retry[<<p, m>>] + Unacked(p, m)
        /\ Present(p, m)' => Present(p, m)
  <2> SUFFICES ASSUME NEW p \in Orders, NEW m \in Tries PROVE <1>7!(p, m)
    OBVIOUS
  <2>1. main[<<p, m>>] \in Nat /\ retry[<<p, m>>] \in Nat /\ Handlers(p, m) \in Nat
    BY Numbers
  <2>2. CASE p = o /\ m = n
    BY <1>2, <1>4, <1>5, <1>6, <2>1, <2>2 DEF Present
  <2>3. CASE ~(p = o /\ m = n)
    BY <1>2, <1>4, <1>5, <1>6, <2>1, <2>3 DEF Present
  <2> QED
    BY <2>2, <2>3
<1>8. \A p \in Orders, m \in Tries :
        channel'["order"] = "dead" /\ Handlers(p, m)' > 0 => main'[<<p, m>>] > 0
  BY <1>2
<1>9. \A p \in Orders, m \in Tries :
        /\ jobs'[<<p, m, "fail">>] <= jobs[<<p, m, "fail">>]
        /\ jobs'[<<p, m, "dead">>] <= jobs[<<p, m, "dead">>]
        /\ jobs'[<<p, m, "again">>] <= jobs[<<p, m, "again">>]
        /\ jobs'[<<p, m, "save">>] <= jobs[<<p, m, "save">>]
  <2> SUFFICES ASSUME NEW p \in Orders, NEW m \in Tries PROVE <1>9!(p, m)
    OBVIOUS
  <2>1. /\ jobs[<<p, m, "fail">>] \in Nat /\ jobs[<<p, m, "dead">>] \in Nat
        /\ jobs[<<p, m, "again">>] \in Nat /\ jobs[<<p, m, "save">>] \in Nat
    BY Numbers, AwaitNames
  <2> QED
    BY <1>3, <2>1
<1> QED
  BY <1>1, <1>2, <1>7, <1>8, <1>9, MessagesMove

\* An expired retry is the same try, in the main queue.
LEMMA ExpireInv ==
    ASSUME BillingInv, NEW o \in Orders, NEW n \in Tries, Expire(<<o, n>>)
    PROVE  BillingInv'
<1> USE DEF BillingInv
<1>1. TypeOK' /\ <<o, n>> \in Messages
  BY BrokerTypes DEF Messages
<1>2. /\ UNCHANGED <<status, invoice, event, attempts, dlq, batch, jobs, channel, erp, recon>>
      /\ retry[<<o, n>>] > 0 /\ retry' = Minus(retry, <<o, n>>) /\ main' = Plus(main, <<o, n>>)
  BY DEF Expire, database, links, outboxWorker
<1>3. \A p \in Orders, m \in Tries :
        /\ Handlers(p, m)' = Handlers(p, m) /\ Unacked(p, m)' = Unacked(p, m)
        /\ main'[<<p, m>>] = IF p = o /\ m = n THEN main[<<p, m>>] + 1 ELSE main[<<p, m>>]
        /\ retry'[<<p, m>>] = IF p = o /\ m = n THEN retry[<<p, m>>] - 1 ELSE retry[<<p, m>>]
  <2>1. \A p \in Orders, m \in Tries :
          Handlers(p, m)' = Handlers(p, m) /\ Unacked(p, m)' = Unacked(p, m)
    BY <1>2, Resting DEF Unacked
  <2>2. \A p \in Orders, m \in Tries :
        /\ main'[<<p, m>>] = IF p = o /\ m = n THEN main[<<p, m>>] + 1 ELSE main[<<p, m>>]
        /\ retry'[<<p, m>>] = IF p = o /\ m = n THEN retry[<<p, m>>] - 1 ELSE retry[<<p, m>>]
    BY <1>2 DEF Minus, Plus, Messages, TypeOK
  <2> QED
    BY <2>1, <2>2
<1>4. \A p \in Orders, m \in Tries :
        /\ main'[<<p, m>>] + retry'[<<p, m>>] + Unacked(p, m)' <=
              main[<<p, m>>] + retry[<<p, m>>] + Unacked(p, m)
        /\ Present(p, m)' => Present(p, m)
        /\ channel'["order"] = "dead" /\ Handlers(p, m)' > 0 => main'[<<p, m>>] > 0
  <2> SUFFICES ASSUME NEW p \in Orders, NEW m \in Tries PROVE <1>4!(p, m)
    OBVIOUS
  <2>1. /\ main[<<p, m>>] \in Nat /\ retry[<<p, m>>] \in Nat /\ Handlers(p, m) \in Nat
        /\ Unacked(p, m) \in Nat
    BY Numbers
  <2>2. channel'["order"] = "dead" /\ Handlers(p, m)' > 0 => main[<<p, m>>] > 0
    BY <1>2, <1>3 DEF TriesHaveReasons
  <2>3. CASE p = o /\ m = n
    BY <1>2, <1>3, <2>1, <2>2, <2>3 DEF Present
  <2>4. CASE ~(p = o /\ m = n)
    BY <1>2, <1>3, <2>1, <2>2, <2>4 DEF Present
  <2> QED
    BY <2>3, <2>4
<1> QED
  BY <1>1, <1>2, <1>4, SameJobs, MessagesMove

\* What an open channel had delivered is in the queue again, and no longer delivered.
LEMMA BrokerRestartInv ==
    ASSUME BillingInv, BrokerRestart
    PROVE  BillingInv'
<1> USE DEF BillingInv
<1>1. TypeOK'
  BY BrokerTypes
<1>2. /\ UNCHANGED <<status, invoice, event, attempts, dlq, batch, jobs, retry, erp, recon>>
      /\ main' = Redelivered
      /\ channel'["order"] = IF channel["order"] = "open" THEN "dead" ELSE channel["order"]
  BY DEF BrokerRestart, database, outboxWorker, Workers
<1>3. \A p \in Orders, m \in Tries :
        /\ Handlers(p, m)' = Handlers(p, m) /\ Unacked(p, m)' = 0
        /\ main'[<<p, m>>] = main[<<p, m>>] + Unacked(p, m)
  BY <1>2, Resting, RedeliveredCounts DEF Unacked
<1>4. \A p \in Orders, m \in Tries :
        /\ main'[<<p, m>>] + retry'[<<p, m>>] + Unacked(p, m)' <=
              main[<<p, m>>] + retry[<<p, m>>] + Unacked(p, m)
        /\ Present(p, m)' => Present(p, m)
        /\ channel'["order"] = "dead" /\ Handlers(p, m)' > 0 => main'[<<p, m>>] > 0
  <2> SUFFICES ASSUME NEW p \in Orders, NEW m \in Tries PROVE <1>4!(p, m)
    OBVIOUS
  <2>1. /\ main[<<p, m>>] \in Nat /\ retry[<<p, m>>] \in Nat /\ Handlers(p, m) \in Nat
        /\ Unacked(p, m) \in Nat
    BY Numbers
  <2>2. Unacked(p, m) = IF channel["order"] = "open" THEN Handlers(p, m) ELSE 0
    BY DEF Unacked
  <2>3. channel["order"] = "dead" /\ Handlers(p, m) > 0 => main[<<p, m>>] > 0
    BY DEF TriesHaveReasons
  <2>4. CASE channel["order"] = "open"
    BY <1>2, <1>3, <2>1, <2>2, <2>4 DEF Present
  <2>5. CASE channel["order"] # "open"
    BY <1>2, <1>3, <2>1, <2>2, <2>3, <2>5 DEF Present
  <2> QED
    BY <2>4, <2>5
<1> QED
  BY <1>1, <1>2, <1>4, SameJobs, MessagesMove

\* An acknowledged message is handled no longer.
LEMMA AckInv ==
    ASSUME BillingInv, NEW o \in Orders, NEW n \in Tries, Ack(o, n)
    PROVE  BillingInv'
<1> USE DEF BillingInv
<1>1. TypeOK'
  BY BrokerTypes
<1>2. /\ UNCHANGED <<status, invoice, event, attempts, dlq, batch, main, retry, channel, erp, recon>>
      /\ At(o, n, "ack") /\ jobs' = Minus(jobs, <<o, n, "ack">>)
  BY DEF Ack, database, broker, links, outboxWorker
<1>3. channel["order"] = "open"
  BY <1>2, AwaitNames, HandlerExists DEF Ack, Usable, TypeOK, Workers
<1>4. \A p \in Orders, m \in Tries :
        /\ jobs'[<<p, m, "fail">>] = jobs[<<p, m, "fail">>]
        /\ jobs'[<<p, m, "dead">>] = jobs[<<p, m, "dead">>]
        /\ jobs'[<<p, m, "again">>] = jobs[<<p, m, "again">>]
        /\ jobs'[<<p, m, "save">>] = jobs[<<p, m, "save">>]
  <2>1. \A p \in Orders, m \in Tries, a \in Awaits :
          a # "ack" => jobs'[<<p, m, a>>] = jobs[<<p, m, a>>]
    BY <1>2 DEF Minus, Jobs, TypeOK
  <2> QED
    BY <2>1, AwaitNames
<1>5. \A p \in Orders, m \in Tries : Handlers(p, m)' <= Handlers(p, m)
  <2>1. jobs \in [Jobs -> Nat]
    BY DEF TypeOK
  <2>2. "ack" \in Awaits
    BY AwaitNames
  <2>3. \A p \in Orders, m \in Tries :
          Handlers(p, m)' = IF p = o /\ m = n THEN Handlers(p, m) - 1 ELSE Handlers(p, m)
    BY <1>2, <2>1, <2>2, HandlerEnds
  <2>4. \A p \in Orders, m \in Tries : Handlers(p, m) \in Nat
    BY Numbers
  <2> QED
    BY <2>3, <2>4
<1>6. \A p \in Orders, m \in Tries :
        Unacked(p, m)' = Handlers(p, m)' /\ Unacked(p, m) = Handlers(p, m)
  BY <1>2, <1>3 DEF Unacked
<1>7. \A p \in Orders, m \in Tries :
        /\ main'[<<p, m>>] + retry'[<<p, m>>] + Unacked(p, m)' <=
              main[<<p, m>>] + retry[<<p, m>>] + Unacked(p, m)
        /\ Present(p, m)' => Present(p, m)
  <2> SUFFICES ASSUME NEW p \in Orders, NEW m \in Tries PROVE <1>7!(p, m)
    OBVIOUS
  <2>1. /\ main[<<p, m>>] \in Nat /\ retry[<<p, m>>] \in Nat /\ Handlers(p, m) \in Nat
        /\ Handlers(p, m)' \in Nat
    BY <1>1, Numbers, NumbersNext
  <2> QED
    BY <1>2, <1>5, <1>6, <2>1 DEF Present
<1>8. \A p \in Orders, m \in Tries :
        channel'["order"] = "dead" /\ Handlers(p, m)' > 0 => main'[<<p, m>>] > 0
  BY <1>2, <1>3
<1>9. \A p \in Orders, m \in Tries :
        /\ jobs'[<<p, m, "fail">>] <= jobs[<<p, m, "fail">>]
        /\ jobs'[<<p, m, "dead">>] <= jobs[<<p, m, "dead">>]
        /\ jobs'[<<p, m, "again">>] <= jobs[<<p, m, "again">>]
        /\ jobs'[<<p, m, "save">>] <= jobs[<<p, m, "save">>]
  <2> SUFFICES ASSUME NEW p \in Orders, NEW m \in Tries PROVE <1>9!(p, m)
    OBVIOUS
  <2>1. /\ jobs[<<p, m, "fail">>] \in Nat /\ jobs[<<p, m, "dead">>] \in Nat
        /\ jobs[<<p, m, "again">>] \in Nat /\ jobs[<<p, m, "save">>] \in Nat
    BY Numbers, AwaitNames
  <2> QED
    BY <1>4, <2>1
<1> QED
  BY <1>1, <1>2, <1>7, <1>8, <1>9, MessagesMove

\* What an order worker that ends had in hand is in the queue again.
LEMMA OrderWorkerEndsInv ==
    ASSUME BillingInv, TypeOK', OrderWorkerEnds
    PROVE  BillingInv'
<1> USE DEF BillingInv
<1>1. /\ UNCHANGED <<status, invoice, event, attempts, dlq, batch, retry, erp, recon>>
      /\ main' = Redelivered /\ channel'["order"] = "none" /\ jobs' = Empty(Jobs)
  BY DEF OrderWorkerEnds, database, outboxWorker, TypeOK, Workers
<1>2. \A p \in Orders, m \in Tries :
        /\ Handlers(p, m)' = 0 /\ Unacked(p, m)' = 0
        /\ main'[<<p, m>>] = main[<<p, m>>] + Unacked(p, m)
  <2>1. \A p \in Orders, m \in Tries : Handlers(p, m)' = 0
    BY <1>1, NoHandlers, HandlersCount
  <2>2. \A p \in Orders, m \in Tries : Unacked(p, m)' = 0
    BY <1>1 DEF Unacked
  <2> QED
    BY <1>1, <2>1, <2>2, RedeliveredCounts
<1>3. \A p \in Orders, m \in Tries :
        /\ main'[<<p, m>>] + retry'[<<p, m>>] + Unacked(p, m)' <=
              main[<<p, m>>] + retry[<<p, m>>] + Unacked(p, m)
        /\ Present(p, m)' => Present(p, m)
        /\ channel'["order"] = "dead" /\ Handlers(p, m)' > 0 => main'[<<p, m>>] > 0
  <2> SUFFICES ASSUME NEW p \in Orders, NEW m \in Tries PROVE <1>3!(p, m)
    OBVIOUS
  <2>1. /\ main[<<p, m>>] \in Nat /\ retry[<<p, m>>] \in Nat /\ Handlers(p, m) \in Nat
        /\ Unacked(p, m) \in Nat
    BY Numbers
  <2>2. Unacked(p, m) = IF channel["order"] = "open" THEN Handlers(p, m) ELSE 0
    BY DEF Unacked
  <2> QED
    BY <1>1, <1>2, <2>1, <2>2 DEF Present
<1>4. \A p \in Orders, m \in Tries :
        /\ jobs'[<<p, m, "fail">>] <= jobs[<<p, m, "fail">>]
        /\ jobs'[<<p, m, "dead">>] <= jobs[<<p, m, "dead">>]
        /\ jobs'[<<p, m, "again">>] <= jobs[<<p, m, "again">>]
        /\ jobs'[<<p, m, "save">>] <= jobs[<<p, m, "save">>]
  <2> SUFFICES ASSUME NEW p \in Orders, NEW m \in Tries PROVE <1>4!(p, m)
    OBVIOUS
  <2>1. /\ jobs[<<p, m, "fail">>] \in Nat /\ jobs[<<p, m, "dead">>] \in Nat
        /\ jobs[<<p, m, "again">>] \in Nat /\ jobs[<<p, m, "save">>] \in Nat
    BY Numbers, AwaitNames
  <2>2. /\ jobs'[<<p, m, "fail">>] = 0 /\ jobs'[<<p, m, "dead">>] = 0
        /\ jobs'[<<p, m, "again">>] = 0 /\ jobs'[<<p, m, "save">>] = 0
    BY <1>1, AwaitNames, NoHandlers
  <2> QED
    BY <2>1, <2>2
<1> QED
  BY <1>1, <1>3, <1>4, MessagesMove

\* The ERP forgets its receipts, and the reconciliation is owed nothing.
LEMMA ErpRestartInv ==
    ASSUME BillingInv, ErpRestart
    PROVE  BillingInv'
<1> USE DEF BillingInv
<1>1. TypeOK'
  BY OtherTypes
<1>2. /\ UNCHANGED <<status, invoice, event, attempts, main, retry, dlq, channel, jobs, batch>>
      /\ UNCHANGED <<issued, todo, found>>
      /\ billed' = {} /\ forgotten' = forgotten \union billed /\ owed' = {}
  BY DEF ErpRestart, database, broker, links, outboxWorker
<1>3. AcceptedFirst'
  BY <1>2, Resting DEF AcceptedFirst
<1>4. TriesHaveReasons' /\ FollowUpsAreSingle'
  BY <1>1, <1>2, QueuesRest DEF Settled
<1>5. ReceiptsAreKnown' /\ InvoicedOnce'
  BY <1>2, Resting DEF ReceiptsAreKnown, InvoicedOnce
<1>6. OwedIsChecked'
  BY <1>2 DEF OwedIsChecked
<1>7. BilledIsInvoiced' /\ DeadLettersAreEarned'
  BY <1>2, OutcomesKept
<1> QED
  BY <1>1, <1>3, <1>4, <1>5, <1>6, <1>7

\* The reconciliation reads the open orders, and checks them one after the other.
LEMMA CheckInv ==
    ASSUME BillingInv, StartReconcile \/ (\E o \in Orders : CheckInvoice(o)) \/ ReconcileFails
    PROVE  BillingInv'
<1> USE DEF BillingInv
<1>1. TypeOK'
  BY OtherTypes
<1>2. UNCHANGED <<status, invoice, event, attempts, main, retry, dlq, channel, jobs, batch, erp>>
  BY DEF StartReconcile, CheckInvoice, ReconcileFails, database, broker, links, outboxWorker
<1>3. UNCHANGED <<billed, issued, forgotten>>
  BY <1>2 DEF erp
<1>4. AcceptedFirst'
  BY <1>2, <1>3, Resting DEF AcceptedFirst
<1>5. TriesHaveReasons' /\ FollowUpsAreSingle'
  BY <1>1, <1>2, QueuesRest DEF Settled
<1>6. BilledIsInvoiced' /\ DeadLettersAreEarned'
  BY <1>2, <1>3, OutcomesKept
<1>7. InvoicedOnce'
  BY <1>3 DEF InvoicedOnce
<1>8. ReceiptsAreKnown'
  <2>1. found' # None => issued'[found'] > 0
    <3>1. found' = found \/ (found' \in Orders /\ found' \in billed) \/ found' = None
      BY DEF StartReconcile, CheckInvoice, HasInvoice, ReconcileFails
    <3> QED
      BY <1>3, <3>1 DEF ReceiptsAreKnown
  <2> QED
    BY <1>2, <1>3, <2>1, Resting DEF ReceiptsAreKnown
<1>9. OwedIsChecked'
  <2>1. CASE StartReconcile
    <3>1. \A o \in billed : status[o] # "none"
      <4> SUFFICES ASSUME NEW o \in billed, status[o] = "none" PROVE FALSE
        OBVIOUS
      <4>1. o \in Orders /\ issued[o] > 0
        BY DEF TypeOK, ReceiptsAreKnown
      <4>2. issued[o] = 0 /\ ~(0 > 0)
        BY <4>1 DEF AcceptedFirst
      <4> QED
        BY <4>1, <4>2
    <3>2. \A o \in billed : status[o] # "BILLED" => Unsettled(o)
      BY <3>1 DEF Unsettled, TypeOK
    <3> QED
      BY <1>3, <2>1, <3>2 DEF StartReconcile, OwedIsChecked, TypeOK
  <2>2. ASSUME NEW o \in Orders, CheckInvoice(o) PROVE OwedIsChecked'
    <3>1. /\ owed' = owed /\ billed' = billed /\ invoice' = invoice /\ todo' = todo \ {o}
          /\ found = None /\ found' = IF o \in billed THEN o ELSE None
      BY <1>2, <1>3, <2>2 DEF CheckInvoice, HasInvoice
    <3>2. owed \subseteq Orders
      BY DEF TypeOK
    <3> QED
      BY <3>1, <3>2 DEF OwedIsChecked
  <2>3. CASE ReconcileFails
    BY <2>3 DEF ReconcileFails, OwedIsChecked
  <2> QED
    BY <2>1, <2>2, <2>3
<1> QED
  BY <1>1, <1>4, <1>5, <1>6, <1>7, <1>8, <1>9

\* The reconciliation saves the invoice the ERP has made out.
LEMMA RepairInv ==
    ASSUME BillingInv, Repair
    PROVE  BillingInv'
<1> USE DEF BillingInv
<1>1. TypeOK'
  BY OtherTypes
<1>2. /\ UNCHANGED <<event, attempts, main, retry, dlq, channel, jobs, batch, erp, todo, owed>>
      /\ found \in Orders /\ issued[found] > 0 /\ found' = None
      /\ invoice' = invoice \union {found} /\ status'[found] = "BILLED"
      /\ \A p \in Orders \ {found} : status'[p] = status[p]
  BY DEF Repair, broker, links, outboxWorker, TypeOK, ReceiptsAreKnown
<1>3. UNCHANGED <<billed, issued, forgotten>>
  BY <1>2 DEF erp
<1>4. status[found] # "none"
  <2>1. ~(0 > 0)
    OBVIOUS
  <2> QED
    BY <1>2, <2>1 DEF AcceptedFirst
<1>5. AcceptedFirst'
  BY <1>2, <1>3, <1>4, Resting DEF AcceptedFirst
<1>6. \A p \in Orders : Settled(p) => Settled(p)'
  BY <1>2 DEF Settled
<1>7. TriesHaveReasons' /\ FollowUpsAreSingle'
  BY <1>1, <1>2, <1>6, QueuesRest
<1>8. ReceiptsAreKnown' /\ InvoicedOnce'
  BY <1>2, Resting, ReceiptsKept
<1>9. OwedIsChecked'
  BY <1>2, <1>3 DEF OwedIsChecked
<1>10. BilledIsInvoiced'
  BY <1>2, <1>3 DEF BilledIsInvoiced
<1>11. DeadLettersAreEarned'
  BY <1>2 DEF DeadLettersAreEarned
<1> QED
  BY <1>1, <1>5, <1>7, <1>8, <1>9, <1>10, <1>11

-----------------------------------------------------------------------------
(* Every step of a handler keeps the invariant *)

\* How the follow-ups of a failure change when a handler goes on.
LEMMA MoveFollowUp ==
    ASSUME TypeOK, TypeOK', NEW o \in Orders, NEW n \in Tries,
           NEW from \in Awaits, NEW to \in Awaits, At(o, n, from), GoOn(o, n, from, to),
           UNCHANGED <<main, channel>>, NEW p \in Orders, NEW m \in Tries
    PROVE  /\ FollowUp(p, m) \in Nat
           /\ FollowUp(p, m)' =
                IF m = MaxTries
                THEN FollowUp(p, m) + dlq'[p] - dlq[p]
                     + (IF p = o /\ m = n /\ to \in {"fail", "dead"} THEN 1 ELSE 0)
                     - (IF p = o /\ m = n /\ from \in {"fail", "dead"} THEN 1 ELSE 0)
                ELSE FollowUp(p, m) + retry'[<<p, m + 1>>] - retry[<<p, m + 1>>]
                     + (IF p = o /\ m = n /\ to = "again" THEN 1 ELSE 0)
                     - (IF p = o /\ m = n /\ from = "again" THEN 1 ELSE 0)
<1>1. \A await \in Awaits :
        jobs'[<<p, m, await>>] = jobs[<<p, m, await>>]
                                 - (IF p = o /\ m = n /\ await = from THEN 1 ELSE 0)
                                 + (IF p = o /\ m = n /\ await = to THEN 1 ELSE 0)
  <2>1. jobs \in [Jobs -> Nat]
    BY DEF TypeOK
  <2> QED
    BY <2>1, HandlerGoesOn DEF One
<1>2. /\ jobs[<<p, m, "fail">>] \in Nat /\ jobs[<<p, m, "dead">>] \in Nat
      /\ jobs[<<p, m, "again">>] \in Nat /\ dlq[p] \in Nat /\ dlq'[p] \in Nat
  BY Numbers, NumbersNext, AwaitNames
<1>3. CASE m = MaxTries
  <2>1. /\ FollowUp(p, m) = dlq[p] + jobs[<<p, m, "fail">>] + jobs[<<p, m, "dead">>]
        /\ FollowUp(p, m)' = dlq'[p] + jobs'[<<p, m, "fail">>] + jobs'[<<p, m, "dead">>]
    BY <1>3 DEF FollowUp
  <2>2. CASE p = o /\ m = n
    BY <1>1, <1>2, <1>3, <2>1, <2>2, AwaitNames
  <2>3. CASE ~(p = o /\ m = n)
    BY <1>1, <1>2, <1>3, <2>1, <2>3, AwaitNames
  <2> QED
    BY <2>2, <2>3
<1>4. CASE m # MaxTries
  <2> DEFINE k == m + 1
  <2>1. k \in Tries
    BY <1>4, Numbers
  <2>2. /\ FollowUp(p, m) = jobs[<<p, m, "again">>] + retry[<<p, k>>] + main[<<p, k>>]
                            + Unacked(p, k)
        /\ FollowUp(p, m)' = jobs'[<<p, m, "again">>] + retry'[<<p, k>>] + main'[<<p, k>>]
                             + Unacked(p, k)'
    BY <1>4 DEF FollowUp
  <2> HIDE DEF k
  <2>3. /\ main[<<p, k>>] \in Nat /\ retry[<<p, k>>] \in Nat /\ Unacked(p, k) \in Nat
        /\ retry'[<<p, k>>] \in Nat
    BY <2>1, Numbers, NumbersNext
  <2>4. Unacked(p, k)' = Unacked(p, k)
    <3>1. jobs \in [Jobs -> Nat]
      BY DEF TypeOK
    <3>2. Handlers(p, k)' = Handlers(p, k)
      BY <2>1, <3>1, HandlerGoesOn
    <3> QED
      BY <3>2 DEF Unacked
  <2>5. /\ FollowUp(p, m) \in Nat
        /\ FollowUp(p, m)' = FollowUp(p, m) + retry'[<<p, k>>] - retry[<<p, k>>]
                             + (IF p = o /\ m = n /\ to = "again" THEN 1 ELSE 0)
                             - (IF p = o /\ m = n /\ from = "again" THEN 1 ELSE 0)
    <3>1. main'[<<p, k>>] = main[<<p, k>>]
      OBVIOUS
    <3>2. jobs'[<<p, m, "again">>] = jobs[<<p, m, "again">>]
                                     - (IF p = o /\ m = n /\ from = "again" THEN 1 ELSE 0)
                                     + (IF p = o /\ m = n /\ to = "again" THEN 1 ELSE 0)
      BY <1>1, AwaitNames
    <3> QED
      BY <1>2, <2>2, <2>3, <2>4, <3>1, <3>2
  <2> QED
    BY <1>4, <2>5 DEF k
<1> QED
  BY <1>3, <1>4

\* A handler that goes on without a failure or a follow-up leaves the follow-ups be.
LEMMA MoveQuietly ==
    ASSUME TypeOK, TypeOK', FollowUpsAreSingle, NEW o \in Orders, NEW n \in Tries,
           NEW from \in Awaits, NEW to \in Awaits, At(o, n, from), GoOn(o, n, from, to),
           UNCHANGED <<main, channel, retry, dlq, attempts>>, to \notin {"fail", "dead", "again"}
    PROVE  FollowUpsAreSingle'
<1>1. jobs \in [Jobs -> Nat]
  BY DEF TypeOK
<1>2. \A p \in Orders, m \in Tries : Unacked(p, m)' = Unacked(p, m)
  BY <1>1, HandlerGoesOn DEF Unacked
<1>3. \A p \in Orders, m \in Tries :
        main'[<<p, m>>] + retry'[<<p, m>>] + Unacked(p, m)' <=
           main[<<p, m>>] + retry[<<p, m>>] + Unacked(p, m)
  <2> SUFFICES ASSUME NEW p \in Orders, NEW m \in Tries
               PROVE  main[<<p, m>>] + retry[<<p, m>>] + Unacked(p, m) <=
                         main[<<p, m>>] + retry[<<p, m>>] + Unacked(p, m)
    BY <1>2
  <2>1. main[<<p, m>>] \in Nat /\ retry[<<p, m>>] \in Nat /\ Unacked(p, m) \in Nat
    BY Numbers
  <2> QED
    BY <2>1
<1>4. \A p \in Orders, m \in Tries :
        /\ jobs'[<<p, m, "fail">>] <= jobs[<<p, m, "fail">>]
        /\ jobs'[<<p, m, "dead">>] <= jobs[<<p, m, "dead">>]
        /\ jobs'[<<p, m, "again">>] <= jobs[<<p, m, "again">>]
  <2> SUFFICES ASSUME NEW p \in Orders, NEW m \in Tries PROVE <1>4!(p, m)
    OBVIOUS
  <2>1. \A await \in Awaits :
          jobs'[<<p, m, await>>] = jobs[<<p, m, await>>]
                                   - (IF p = o /\ m = n /\ await = from THEN 1 ELSE 0)
                                   + (IF p = o /\ m = n /\ await = to THEN 1 ELSE 0)
    BY <1>1, HandlerGoesOn DEF One
  <2>2. /\ jobs[<<p, m, "fail">>] \in Nat /\ jobs[<<p, m, "dead">>] \in Nat
        /\ jobs[<<p, m, "again">>] \in Nat
    BY Numbers, AwaitNames
  <2> QED
    BY <2>1, <2>2, AwaitNames
<1>5. \A p \in Orders : dlq'[p] <= dlq[p]
  <2>1. \A p \in Orders : dlq[p] \in Nat
    BY DEF TypeOK
  <2> QED
    BY <2>1
<1> QED
  BY <1>3, <1>4, <1>5, FollowUpsKept

\* A recorded failure gets the follow-up that is its first.
LEMMA RecordFollowUp ==
    ASSUME TypeOK, TypeOK', FollowUpsAreSingle, NEW o \in Orders, NEW n \in Tries,
           RecordAttempt(o, n)
    PROVE  FollowUpsAreSingle'
<1> DEFINE to == AfterFailure(n)
<1>1. /\ At(o, n, "record") /\ GoOn(o, n, "record", to) /\ to \in Awaits
      /\ UNCHANGED <<main, channel, retry, dlq>>
      /\ ~Recorded(o, n) /\ attempts' = attempts \union {<<o, n>>}
  BY DEF RecordAttempt, AfterFailure, Awaits, broker, links
<1>2. to = IF n = MaxTries THEN "fail" ELSE "again"
  BY DEF AfterFailure, Tries
<1> HIDE DEF to
<1> SUFFICES ASSUME NEW p \in Orders, NEW m \in Tries
             PROVE  FollowUp(p, m)' <= IF Recorded(p, m)' THEN 1 ELSE 0
  BY DEF FollowUpsAreSingle
<1>3. FollowUp(p, m) <= IF Recorded(p, m) THEN 1 ELSE 0
  BY DEF FollowUpsAreSingle
<1>4. /\ FollowUp(p, m) \in Nat
      /\ FollowUp(p, m)' =
           IF m = MaxTries
           THEN FollowUp(p, m) + dlq'[p] - dlq[p]
                + (IF p = o /\ m = n /\ to \in {"fail", "dead"} THEN 1 ELSE 0)
                - (IF p = o /\ m = n /\ "record" \in {"fail", "dead"} THEN 1 ELSE 0)
           ELSE FollowUp(p, m) + retry'[<<p, m + 1>>] - retry[<<p, m + 1>>]
                + (IF p = o /\ m = n /\ to = "again" THEN 1 ELSE 0)
                - (IF p = o /\ m = n /\ "record" = "again" THEN 1 ELSE 0)
  BY <1>1, AwaitNames, MoveFollowUp
<1>5. /\ dlq[p] \in Nat /\ dlq'[p] = dlq[p]
      /\ retry'[<<p, m + 1>>] = retry[<<p, m + 1>>]
      /\ m # MaxTries => retry[<<p, m + 1>>] \in Nat
  <2>1. dlq[p] \in Nat /\ (m # MaxTries => retry[<<p, m + 1>>] \in Nat)
    BY Numbers
  <2>2. dlq'[p] = dlq[p] /\ retry'[<<p, m + 1>>] = retry[<<p, m + 1>>]
    BY <1>1
  <2> QED
    BY <2>1, <2>2
<1>6. FollowUp(p, m)' = FollowUp(p, m) + IF p = o /\ m = n THEN 1 ELSE 0
  BY <1>2, <1>4, <1>5
<1>7. Recorded(p, m)' <=> Recorded(p, m) \/ (p = o /\ m = n)
  BY <1>1 DEF Recorded
<1> QED
  BY <1>1, <1>3, <1>4, <1>6, <1>7

\* Marking the order failed and the two publications pass the follow-up on.
LEMMA PassFollowUp ==
    ASSUME TypeOK, TypeOK', TriesHaveReasons, FollowUpsAreSingle,
           NEW o \in Orders, NEW n \in Tries,
           MarkErpFailed(o, n) \/ PublishToDlq(o, n) \/ PublishToRetry(o, n)
    PROVE  FollowUpsAreSingle'
<1> SUFFICES ASSUME NEW p \in Orders, NEW m \in Tries
             PROVE  FollowUp(p, m)' = FollowUp(p, m)
  BY DEF FollowUpsAreSingle, MarkErpFailed, PublishToDlq, PublishToRetry, Recorded, database
<1>1. dlq[p] \in Nat /\ (m # MaxTries => retry[<<p, m + 1>>] \in Nat)
  BY Numbers
<1>2. ASSUME MarkErpFailed(o, n) PROVE FollowUp(p, m)' = FollowUp(p, m)
  <2>1. /\ At(o, n, "fail") /\ GoOn(o, n, "fail", "dead") /\ n = MaxTries
        /\ UNCHANGED <<main, channel, retry, dlq>>
    BY <1>2 DEF MarkErpFailed, TriesHaveReasons, broker, links
  <2>2. /\ FollowUp(p, m) \in Nat
        /\ FollowUp(p, m)' =
             IF m = MaxTries
             THEN FollowUp(p, m) + dlq'[p] - dlq[p]
                  + (IF p = o /\ m = n /\ "dead" \in {"fail", "dead"} THEN 1 ELSE 0)
                  - (IF p = o /\ m = n /\ "fail" \in {"fail", "dead"} THEN 1 ELSE 0)
             ELSE FollowUp(p, m) + retry'[<<p, m + 1>>] - retry[<<p, m + 1>>]
                  + (IF p = o /\ m = n /\ "dead" = "again" THEN 1 ELSE 0)
                  - (IF p = o /\ m = n /\ "fail" = "again" THEN 1 ELSE 0)
    BY <2>1, AwaitNames, MoveFollowUp
  <2> QED
    BY <1>1, <2>1, <2>2
<1>3. ASSUME PublishToDlq(o, n) PROVE FollowUp(p, m)' = FollowUp(p, m)
  <2>1. /\ At(o, n, "dead") /\ GoOn(o, n, "dead", "ack") /\ n = MaxTries
        /\ UNCHANGED <<main, channel, retry>>
    BY <1>3 DEF PublishToDlq, TriesHaveReasons, links
  <2>2. dlq'[p] = dlq[p] + IF p = o THEN 1 ELSE 0
    BY <1>1, <1>3 DEF PublishToDlq, Plus, TypeOK
  <2>3. /\ FollowUp(p, m) \in Nat
        /\ FollowUp(p, m)' =
             IF m = MaxTries
             THEN FollowUp(p, m) + dlq'[p] - dlq[p]
                  + (IF p = o /\ m = n /\ "ack" \in {"fail", "dead"} THEN 1 ELSE 0)
                  - (IF p = o /\ m = n /\ "dead" \in {"fail", "dead"} THEN 1 ELSE 0)
             ELSE FollowUp(p, m) + retry'[<<p, m + 1>>] - retry[<<p, m + 1>>]
                  + (IF p = o /\ m = n /\ "ack" = "again" THEN 1 ELSE 0)
                  - (IF p = o /\ m = n /\ "dead" = "again" THEN 1 ELSE 0)
    BY <2>1, AwaitNames, MoveFollowUp
  <2>4. CASE m = MaxTries
    BY <1>1, <2>1, <2>2, <2>3, <2>4
  <2>5. CASE m # MaxTries
    BY <1>1, <2>1, <2>3, <2>5
  <2> QED
    BY <2>4, <2>5
<1>4. ASSUME PublishToRetry(o, n) PROVE FollowUp(p, m)' = FollowUp(p, m)
  <2>1. /\ At(o, n, "again") /\ GoOn(o, n, "again", "ack") /\ n < MaxTries
        /\ UNCHANGED <<main, channel, dlq>> /\ retry' = Plus(retry, <<o, n + 1>>)
    BY <1>4 DEF PublishToRetry, TriesHaveReasons, links
  <2>2. m # MaxTries =>
          retry'[<<p, m + 1>>] = retry[<<p, m + 1>>] + IF p = o /\ m = n THEN 1 ELSE 0
    <3> SUFFICES ASSUME m # MaxTries
                 PROVE  retry'[<<p, m + 1>>] =
                           retry[<<p, m + 1>>] + IF p = o /\ m = n THEN 1 ELSE 0
      OBVIOUS
    <3>1. <<p, m + 1>> \in Messages
      BY Numbers DEF Messages
    <3>2. <<p, m + 1>> = <<o, n + 1>> <=> p = o /\ m = n
      BY DEF Tries
    <3>3. retry'[<<p, m + 1>>] =
            IF <<p, m + 1>> = <<o, n + 1>> THEN retry[<<p, m + 1>>] + 1 ELSE retry[<<p, m + 1>>]
      BY <2>1, <3>1 DEF Plus, TypeOK
    <3> QED
      BY <1>1, <3>2, <3>3
  <2>3. /\ FollowUp(p, m) \in Nat
        /\ FollowUp(p, m)' =
             IF m = MaxTries
             THEN FollowUp(p, m) + dlq'[p] - dlq[p]
                  + (IF p = o /\ m = n /\ "ack" \in {"fail", "dead"} THEN 1 ELSE 0)
                  - (IF p = o /\ m = n /\ "again" \in {"fail", "dead"} THEN 1 ELSE 0)
             ELSE FollowUp(p, m) + retry'[<<p, m + 1>>] - retry[<<p, m + 1>>]
                  + (IF p = o /\ m = n /\ "ack" = "again" THEN 1 ELSE 0)
                  - (IF p = o /\ m = n /\ "again" = "again" THEN 1 ELSE 0)
    BY <2>1, AwaitNames, MoveFollowUp
  <2>4. n \in Nat /\ MaxTries \in Nat
    BY DEF Tries
  <2> QED
    BY <1>1, <2>1, <2>2, <2>3, <2>4
<1> QED
  BY <1>2, <1>3, <1>4

\* What the handlers do to an order, its receipts and its dead letters is in order.
LEMMA HandlerInv ==
    ASSUME BillingInv, NEW o \in Orders, NEW n \in Tries,
           \/ ReadOrder(o, n) \/ BillOrder(o, n) \/ BillOrderFails(o, n) \/ SaveInvoice(o, n)
           \/ RecordAttempt(o, n) \/ AlreadyRecorded(o, n) \/ MarkErpFailed(o, n)
           \/ PublishToDlq(o, n) \/ PublishToRetry(o, n) \/ FollowUpFails(o, n)
           \/ StatementFails(o, n)
    PROVE  BillingInv'
<1> USE DEF BillingInv
<1>1. TypeOK'
  BY HandlerTypes
<1>2. /\ UNCHANGED <<event, batch, main, channel, todo, found, owed>>
      /\ attempts \subseteq attempts'
  BY DEF ReadOrder, BillOrder, BillOrderFails, SaveInvoice, RecordAttempt, AlreadyRecorded,
         MarkErpFailed, PublishToDlq, PublishToRetry, FollowUpFails, StatementFails,
         database, broker, links, outboxWorker, recon
<1>3. UNCHANGED <<billed, issued, forgotten>> \/ MakeOut(o)
  BY DEF ReadOrder, BillOrder, BillOrderFails, SaveInvoice, RecordAttempt, AlreadyRecorded,
         MarkErpFailed, PublishToDlq, PublishToRetry, FollowUpFails, StatementFails, erp
<1>4. /\ \A p \in Orders \ {o} : issued'[p] = issued[p]
      /\ \A p \in Orders : issued[p] > 0 => issued'[p] > 0
      /\ billed \subseteq billed'
  <2>1. CASE UNCHANGED <<billed, issued, forgotten>>
    BY <2>1
  <2>2. CASE MakeOut(o)
    <3>1. \A p \in Orders : issued[p] \in Nat
      BY DEF TypeOK
    <3> QED
      BY <2>2, <3>1 DEF MakeOut, Plus, TypeOK
  <2> QED
    BY <1>3, <2>1, <2>2
<1>5. \A p \in Orders \ {o} :
        status'[p] = status[p] /\ \A m \in Tries : retry'[<<p, m>>] = retry[<<p, m>>]
  <2>1. ASSUME NEW p \in Orders \ {o} PROVE status'[p] = status[p]
    BY DEF ReadOrder, BillOrder, BillOrderFails, SaveInvoice, RecordAttempt, AlreadyRecorded,
           MarkErpFailed, PublishToDlq, PublishToRetry, FollowUpFails, StatementFails,
           database, TypeOK
  <2>2. ASSUME NEW p \in Orders \ {o}, NEW m \in Tries
        PROVE  retry'[<<p, m>>] = retry[<<p, m>>]
    <3>1. retry' = retry \/ retry' = Plus(retry, <<o, n + 1>>)
      BY DEF ReadOrder, BillOrder, BillOrderFails, SaveInvoice, RecordAttempt, AlreadyRecorded,
             MarkErpFailed, PublishToDlq, PublishToRetry, FollowUpFails, StatementFails, broker
    <3>2. <<p, m>> \in Messages /\ <<p, m>> # <<o, n + 1>>
      BY DEF Messages
    <3> QED
      BY <3>1, <3>2 DEF Plus, TypeOK
  <2> QED
    BY <2>1, <2>2
<1>6. PICK from \in Awaits, to \in Awaits :
        /\ At(o, n, from) /\ GoOn(o, n, from, to)
        /\ to = "save" => MakeOut(o)
        /\ to \in {"fail", "again"} => RecordAttempt(o, n) /\ to = AfterFailure(n)
        /\ to = "dead" => MarkErpFailed(o, n) /\ from = "fail"
  <2>1. CASE ReadOrder(o, n)
    BY <2>1, AwaitNames DEF ReadOrder
  <2>2. CASE BillOrder(o, n) \/ BillOrderFails(o, n)
    BY <2>2, AwaitNames DEF BillOrder, BillOrderFails
  <2>3. CASE SaveInvoice(o, n) \/ AlreadyRecorded(o, n)
    BY <2>3, AwaitNames DEF SaveInvoice, AlreadyRecorded
  <2>4. CASE RecordAttempt(o, n)
    <3>1. AfterFailure(n) \in {"fail", "again"}
      BY DEF AfterFailure
    <3> QED
      BY <2>4, <3>1, AwaitNames DEF RecordAttempt
  <2>5. CASE MarkErpFailed(o, n)
    BY <2>5, AwaitNames DEF MarkErpFailed
  <2>6. CASE PublishToDlq(o, n) \/ PublishToRetry(o, n)
    BY <2>6, AwaitNames DEF PublishToDlq, PublishToRetry
  <2>7. CASE FollowUpFails(o, n)
    <3>1. PICK from \in {"dead", "again"} : At(o, n, from) /\ GoOn(o, n, from, "ack")
      BY <2>7 DEF FollowUpFails
    <3> QED
      BY <3>1, AwaitNames
  <2>8. CASE StatementFails(o, n)
    <3>1. CASE \E from \in {"read", "save"} : At(o, n, from) /\ GoOn(o, n, from, "record")
      BY <3>1, AwaitNames
    <3>2. CASE \E from \in {"record", "fail"} : At(o, n, from) /\ GoOn(o, n, from, "ack")
      BY <3>2, AwaitNames
    <3> QED
      BY <2>8, <3>1, <3>2 DEF StatementFails
  <2> QED
    BY <2>1, <2>2, <2>3, <2>4, <2>5, <2>6, <2>7, <2>8
<1>7. status[o] # "none" /\ status'[o] # "none"
  <2>1. status[o] # "none"
    BY <1>6, HandlerExists
  <2> QED
    BY <2>1 DEF ReadOrder, BillOrder, BillOrderFails, SaveInvoice, RecordAttempt, AlreadyRecorded,
           MarkErpFailed, PublishToDlq, PublishToRetry, FollowUpFails, StatementFails,
           database, TypeOK
<1>8. AcceptedFirst'
  BY <1>2, <1>4, <1>5, <1>6, <1>7, MoveAccepted
<1>9. ReceiptsAreKnown' /\ InvoicedOnce'
  BY <1>2, <1>3, <1>6, MoveReceipts DEF erp
<1>10. OwedIsChecked'
  <2>1. invoice \subseteq invoice'
    BY DEF ReadOrder, BillOrder, BillOrderFails, SaveInvoice, RecordAttempt, AlreadyRecorded,
           MarkErpFailed, PublishToDlq, PublishToRetry, FollowUpFails, StatementFails, database
  <2> QED
    BY <1>2, <1>4, <2>1 DEF OwedIsChecked
<1>11. TriesHaveReasons'
  <2>1. \A p \in Orders : Settled(p) => Settled(p)'
    <3>1. status' = status \/ status'[o] \in {"BILLED", "ERP_FAILED"}
      BY DEF ReadOrder, BillOrder, BillOrderFails, SaveInvoice, RecordAttempt, AlreadyRecorded,
             MarkErpFailed, PublishToDlq, PublishToRetry, FollowUpFails, StatementFails,
             database, TypeOK
    <3> QED
      BY <1>5, <3>1 DEF Settled
  <2>2. ASSUME NEW p \in Orders, NEW m \in Tries, retry'[<<p, m>>] > 0
        PROVE  retry[<<p, m>>] > 0 \/ Recorded(p, m - 1)'
    <3>1. CASE UNCHANGED retry
      BY <2>2, <3>1
    <3>2. CASE PublishToRetry(o, n)
      <4>1. Recorded(o, n)' /\ retry' = Plus(retry, <<o, n + 1>>)
        BY <3>2 DEF PublishToRetry, TriesHaveReasons, Recorded, database
      <4>2. CASE <<p, m>> = <<o, n + 1>>
        <5>1. p = o /\ m - 1 = n
          BY <4>2 DEF Tries
        <5> QED
          BY <4>1, <5>1
      <4>3. CASE <<p, m>> # <<o, n + 1>>
        <5>1. <<p, m>> \in Messages
          BY DEF Messages
        <5> QED
          BY <2>2, <4>1, <4>3, <5>1 DEF Plus, TypeOK
      <4> QED
        BY <4>2, <4>3
    <3> QED
      BY <3>1, <3>2 DEF ReadOrder, BillOrder, BillOrderFails, SaveInvoice, RecordAttempt,
         AlreadyRecorded, MarkErpFailed, PublishToDlq, FollowUpFails, StatementFails, broker
  <2>3. to \in {"fail", "again"} => /\ Recorded(o, n)'
                                   /\ to = IF n = MaxTries THEN "fail" ELSE "again"
    <3>1. n \in Nat /\ n <= MaxTries
      BY DEF Tries
    <3> QED
      BY <1>6, <3>1 DEF RecordAttempt, Recorded, AfterFailure
  <2>4. to = "again" => n < MaxTries /\ Recorded(o, n)'
    BY <2>3 DEF Tries
  <2>5. to = "dead" => n = MaxTries /\ Recorded(o, n)' /\ Settled(o)'
    <3> SUFFICES ASSUME to = "dead" PROVE n = MaxTries /\ Recorded(o, n)' /\ Settled(o)'
      OBVIOUS
    <3>1. MarkErpFailed(o, n) /\ At(o, n, "fail")
      BY <1>6
    <3>2. n = MaxTries /\ Recorded(o, n)
      BY <3>1 DEF TriesHaveReasons
    <3>3. Settled(o)' /\ UNCHANGED attempts
      BY <3>1 DEF MarkErpFailed, Settled, TypeOK
    <3> QED
      BY <3>2, <3>3 DEF Recorded
  <2>6. to \in {"fail", "dead"} => n = MaxTries /\ Recorded(o, n)'
    BY <2>3, <2>5
  <2> QED
    BY <1>2, <1>6, <2>1, <2>2, <2>4, <2>5, <2>6, MoveTries
<1>12. FollowUpsAreSingle'
  <2>1. CASE RecordAttempt(o, n)
    BY <1>1, <2>1, RecordFollowUp
  <2>2. CASE MarkErpFailed(o, n) \/ PublishToDlq(o, n) \/ PublishToRetry(o, n)
    BY <1>1, <2>2, PassFollowUp
  <2>3. CASE \/ ReadOrder(o, n) \/ BillOrder(o, n) \/ BillOrderFails(o, n) \/ SaveInvoice(o, n)
             \/ AlreadyRecorded(o, n) \/ FollowUpFails(o, n) \/ StatementFails(o, n)
    <3>1. UNCHANGED <<main, channel, retry, dlq, attempts>>
      BY <2>3 DEF ReadOrder, BillOrder, BillOrderFails, SaveInvoice, AlreadyRecorded,
         FollowUpFails, StatementFails, database, broker, links
    <3>2. ~RecordAttempt(o, n)
      <4>1. ASSUME RecordAttempt(o, n) PROVE attempts' # attempts
        BY <4>1 DEF RecordAttempt, Recorded
      <4> QED
        BY <3>1, <4>1
    <3>3. CASE to = "dead"
      BY <1>1, <1>6, <3>3, PassFollowUp
    <3>4. CASE to # "dead"
      BY <1>1, <1>6, <3>1, <3>2, <3>4, MoveQuietly
    <3> QED
      BY <3>3, <3>4
  <2> QED
    BY <2>1, <2>2, <2>3
<1>13. BilledIsInvoiced' /\ DeadLettersAreEarned'
  <2>1. CASE SaveInvoice(o, n)
    <3>1. /\ invoice' = invoice \union {o} /\ status'[o] = "BILLED" /\ issued[o] > 0
          /\ \A p \in Orders : issued'[p] = issued[p]
          /\ UNCHANGED <<attempts, dlq>>
      BY <2>1 DEF SaveInvoice, ReceiptsAreKnown, broker, erp, TypeOK
    <3> QED
      BY <1>5, <3>1 DEF BilledIsInvoiced, DeadLettersAreEarned
  <2>2. CASE MarkErpFailed(o, n)
    <3>1. /\ <<o, MaxTries>> \in attempts /\ status'[o] = "ERP_FAILED"
          /\ UNCHANGED <<attempts, dlq, invoice>>
      BY <2>2 DEF MarkErpFailed, TriesHaveReasons, Recorded, broker, TypeOK
    <3> QED
      BY <1>4, <1>5, <3>1 DEF BilledIsInvoiced, DeadLettersAreEarned
  <2>3. CASE PublishToDlq(o, n)
    <3>1. /\ <<o, MaxTries>> \in attempts /\ jobs[<<o, n, "dead">>] > 0 /\ n = MaxTries
          /\ UNCHANGED <<attempts, status, invoice>> /\ dlq' = Plus(dlq, o)
      BY <2>3 DEF PublishToDlq, TriesHaveReasons, Recorded, At, database
    <3>2. dlq[o] = 0
      <4>1. dlq[o] + jobs[<<o, n, "fail">>] + jobs[<<o, n, "dead">>] <= 1
        BY <3>1 DEF FollowUpsAreSingle, FollowUp, Recorded
      <4>2. /\ dlq[o] \in Nat /\ jobs[<<o, n, "fail">>] \in Nat
            /\ jobs[<<o, n, "dead">>] \in Nat
        BY Numbers, AwaitNames
      <4> QED
        BY <3>1, <4>1, <4>2
    <3>3. dlq'[o] = 1 /\ \A p \in Orders \ {o} : dlq'[p] = dlq[p]
      BY <3>1, <3>2 DEF Plus, TypeOK
    <3>4. DeadLettersAreEarned'
      BY <3>1, <3>3 DEF DeadLettersAreEarned
    <3>5. BilledIsInvoiced'
      BY <1>4, <3>1 DEF BilledIsInvoiced
    <3> QED
      BY <3>4, <3>5
  <2>4. CASE UNCHANGED <<status, invoice, dlq>>
    BY <1>2, <1>4, <2>4, OutcomesKept
  <2> QED
    BY <2>1, <2>2, <2>3, <2>4 DEF ReadOrder, BillOrder, BillOrderFails, RecordAttempt,
       AlreadyRecorded, PublishToRetry, FollowUpFails, StatementFails, database, broker
<1> QED
  BY <1>1, <1>8, <1>9, <1>10, <1>11, <1>12, <1>13

-----------------------------------------------------------------------------
(* Safety *)

\* Every step keeps what the safety of the billing rests on.
LEMMA BillingStep == BillingInv /\ [Next]_vars => BillingInv'
<1> SUFFICES ASSUME BillingInv, [Next]_vars PROVE BillingInv'
  OBVIOUS
<1>1. ASSUME NEW o \in Orders, Accept(o) PROVE BillingInv'
  BY <1>1, AcceptInv
<1>2. ASSUME NEW f \in Flushes, Flush(f) PROVE BillingInv'
  BY <1>2, FlushInv, PublishInv DEF Flush
<1>3. ASSUME NEW f \in Flushes, FlushFails(f) \/ \E o \in Orders : MarkFails(f, o)
      PROVE  BillingInv'
  BY <1>3, FlushInv
<1>4. CASE Heartbeat
  BY <1>4, HeartbeatInv
<1>5. ASSUME NEW m \in Messages, Deliver(m) \/ Expire(m) PROVE BillingInv'
  <2>1. PICK o \in Orders, n \in Tries : m = <<o, n>>
    BY DEF Messages
  <2> QED
    BY <1>5, <2>1, DeliverInv, ExpireInv
<1>6. ASSUME OrderWorkerEnds, WorkerCrash \/ \E o \in Orders, n \in Tries : AckFails(o, n)
      PROVE  BillingInv'
  <2>1. TypeOK'
    BY <1>6, BrokerTypes DEF BillingInv
  <2> QED
    BY <1>6, <2>1, OrderWorkerEndsInv
<1>7. ASSUME NEW o \in Orders, NEW n \in Tries, Handle(o, n) \/ StatementFails(o, n)
      PROVE  BillingInv'
  <2>1. CASE Ack(o, n)
    BY <2>1, AckInv
  <2>2. CASE AckFails(o, n)
    BY <1>6, <2>2 DEF AckFails
  <2> QED
    BY <1>7, <2>1, <2>2, HandlerInv DEF Handle
<1>8. CASE Reconcile
  BY <1>8, CheckInv, RepairInv DEF Reconcile
<1>9. CASE OutboxCrash
  BY <1>9, FlushInv
<1>10. CASE WorkerCrash
  BY <1>6, <1>10 DEF WorkerCrash
<1>11. CASE BrokerRestart
  BY <1>11, BrokerRestartInv
<1>12. CASE ErpRestart
  BY <1>12, ErpRestartInv
<1>13. CASE UNCHANGED vars
  <2>1. /\ UNCHANGED <<status, invoice, event, attempts, main, retry, dlq, channel, consuming, jobs>>
        /\ UNCHANGED <<batch, sent, billed, issued, forgotten, todo, found, runs, owed, cut, faults>>
    BY <1>13 DEF vars, database, broker, links, outboxWorker, erp, recon
  <2>2. TypeOK'
    BY <2>1 DEF BillingInv, TypeOK
  <2>3. AcceptedFirst'
    BY <2>1, Resting DEF BillingInv, AcceptedFirst
  <2>4. TriesHaveReasons' /\ FollowUpsAreSingle'
    BY <2>1, <2>2, QueuesRest DEF Settled
  <2>5. ReceiptsAreKnown' /\ InvoicedOnce' /\ OwedIsChecked' /\ BilledIsInvoiced'
        /\ DeadLettersAreEarned'
    BY <2>1, Resting, StoreRests DEF erp, recon
  <2> QED
    BY <2>2, <2>3, <2>4, <2>5 DEF BillingInv
<1> QED
  BY <1>1, <1>2, <1>3, <1>4, <1>5, <1>7, <1>8, <1>9, <1>10, <1>11, <1>12, <1>13 DEF Next

\* The invariant behind the safety of the billing.
THEOREM BillingInvariance == Spec => []BillingInv
<1>1. Init => BillingInv
  BY InitBilling
<1>2. BillingInv /\ [Next]_vars => BillingInv'
  BY BillingStep
<1> QED
  BY <1>1, <1>2, PTL DEF Spec

\* The types of the store, of the queues and of the workers.
THEOREM BillingTypes == Spec => []TypeOK
BY BillingInvariance, PTL DEF BillingInv

\* An order is billed with an invoice the ERP has made out.
THEOREM InvoicesTrue == Spec => []BilledIsInvoiced
BY BillingInvariance, PTL DEF BillingInv

\* An ERP that remembers makes out one receipt, however often it is asked.
THEOREM ReceiptsSingle == Spec => []InvoicedOnce
BY BillingInvariance, PTL DEF BillingInv

\* An order is dead-lettered once, after its last try.
THEOREM DeadLettersTrue == Spec => []DeadLettersAreEarned
BY BillingInvariance, PTL DEF BillingInv

\* A try after the first is one message at most.
THEOREM RetriesSingle == Spec => []RetriesAreNotMultiplied
<1>1. BillingInv => RetriesAreNotMultiplied
  <2> SUFFICES ASSUME BillingInv, NEW o \in Orders, NEW n \in Tries, n > 1
               PROVE  main[<<o, n>>] + retry[<<o, n>>] + Unacked(o, n) <= 1
    BY DEF RetriesAreNotMultiplied
  <2> DEFINE m == n - 1
  <2>1. m \in Tries /\ m + 1 = n /\ m # MaxTries
    BY DEF Tries
  <2>2. FollowUp(o, m) <= 1
    <3>1. FollowUp(o, m) <= IF Recorded(o, m) THEN 1 ELSE 0
      BY <2>1 DEF BillingInv, FollowUpsAreSingle
    <3>2. FollowUp(o, m) <= 0 => FollowUp(o, m) <= 1
      <4>1. FollowUp(o, m) = jobs[<<o, m, "again">>] + retry[<<o, n>>] + main[<<o, n>>] + Unacked(o, n)
        BY <2>1 DEF FollowUp
      <4>2. /\ main[<<o, n>>] \in Nat /\ retry[<<o, n>>] \in Nat /\ Unacked(o, n) \in Nat
            /\ jobs[<<o, m, "again">>] \in Nat
        BY <2>1, Numbers, AwaitNames DEF BillingInv
      <4> QED
        BY <4>1, <4>2
    <3> QED
      BY <3>1, <3>2
  <2>3. FollowUp(o, m) = jobs[<<o, m, "again">>] + retry[<<o, n>>] + main[<<o, n>>] + Unacked(o, n)
    BY <2>1 DEF FollowUp
  <2>4. /\ main[<<o, n>>] \in Nat /\ retry[<<o, n>>] \in Nat /\ Unacked(o, n) \in Nat
        /\ jobs[<<o, m, "again">>] \in Nat
    BY <2>1, Numbers, AwaitNames DEF BillingInv
  <2> QED
    BY <2>2, <2>3, <2>4
<1> QED
  BY <1>1, BillingInvariance, PTL

\* A reconciliation that was not cut off has found what it was owed.
THEOREM ReconciliationFinds == Spec => []ReconcileFindsInvoices
<1>1. BillingInv => ReconcileFindsInvoices
  <2> SUFFICES ASSUME BillingInv, todo = {}, found = None PROVE owed \subseteq invoice
    BY DEF ReconcileFindsInvoices
  <2>1. owed \subseteq Orders /\ owed \subseteq invoice \union todo \union {found}
    BY DEF BillingInv, TypeOK, OwedIsChecked
  <2> QED
    BY <2>1
<1> QED
  BY <1>1, BillingInvariance, PTL
=============================================================================
