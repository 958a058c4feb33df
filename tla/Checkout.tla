------------------------------ MODULE Checkout ------------------------------
(***************************************************************************)
(* CheckoutService.checkout (apps/api/src/checkout/checkout.service.ts):   *)
(* concurrent POST /checkout requests of one API process against one       *)
(* PostgreSQL database.                                                    *)
(*                                                                         *)
(* Each request runs a Serializable transaction.  PostgreSQL takes the     *)
(* transaction's snapshot at its first statement, which here is the SELECT *)
(* that WAITS for the first advisory lock: a request that had to wait      *)
(* therefore decides on a snapshot older than the commit it waited for.    *)
(* The reads of the transaction see the snapshot, its conditional UPDATEs  *)
(* fail with a write conflict (Prisma P2034) when the row has changed      *)
(* since, and the request starts over, at most MaxAttempts times.          *)
(*                                                                         *)
(* An order is named by the request that created it.  The buffered writes  *)
(* of an open transaction are invisible to everybody else, so they become  *)
(* effective together, in Commit.                                          *)
(***************************************************************************)
EXTENDS CheckoutData

CONSTANTS
    LockId,       \* hashtext: the advisory lock number of a key or a product
    MaxAttempts,  \* checkoutRetryAttempts (4 in the code)
    Faults        \* which environment failures the instance allows

ASSUME RetryAssumption == MaxAttempts \in Nat \ {0}

ASSUME FaultAssumption == Faults \subseteq {"ssi", "timeout", "invalidation", "crash"}

\* The row of an accepted checkout in idempotency_keys.
IdemRow(r) == [requestHash |-> RequestHash(r), orderId |-> r]

ASSUME NoneAssumption == \A r \in Requests : IdemRow(r) # None

VARIABLES
    \* The database (prisma/schema.prisma).
    inv,       \* Inventory rows: availableQty, reservedQty, version
    active,    \* Product rows that are active
    priced,    \* ProductPrice rows, by their product
    idem,      \* IdempotencyKey rows: requestHash and orderId, or None
    orders,    \* Order rows
    outbox,    \* OutboxEvent rows that are PENDING, by the order they are about
    \* The requests, each an asynchronous call of checkout().
    pc,        \* where the call is
    attempt,   \* retries used so far by runCheckoutTransactionWithRetry
    snap,      \* the snapshot of its open transaction, or None
    got,       \* the advisory locks its open transaction holds, by name
    reserved,  \* the products whose conditional UPDATE has succeeded
    result     \* what it answers, or will answer, to the client

store   == <<inv, active, priced, idem, orders, outbox>>
request == <<pc, attempt, snap, got, reserved, result>>
vars    == <<store, request>>

-----------------------------------------------------------------------------
(* Answers *)

Response(status, order, cause) ==
    [status |-> status, order |-> order, cause |-> cause]

NoResult == Response(0, None, "none")

-----------------------------------------------------------------------------
(* Advisory locks *)

LockNames(r) == {KeyOf[r]} \union ProductsOf(r)

\* Mutant: the inventory locks are not sorted.
IsAnyLock(r, name) ==
    /\ name \in LockNames(r) \ got[r]
    /\ KeyOf[r] \notin got[r] => name = KeyOf[r]

\* The key's lock first, then the products' in ascending order.
IsNextLock(r, name) ==
    /\ name \in LockNames(r) \ got[r]
    /\ KeyOf[r] \in got[r] => \A other \in LockNames(r) \ got[r] : name <= other
    /\ KeyOf[r] \notin got[r] => name = KeyOf[r]

Holds(r, id) == \E name \in got[r] : LockId[name] = id

WaitsFor(r, other) ==
    /\ pc[r] = "locking"
    /\ other # r
    /\ \E name \in LockNames(r) : IsNextLock(r, name) /\ Holds(other, LockId[name])

InLockCycle(r) ==
    \E S \in SUBSET {q \in Requests : pc[q] = "locking"} :
        /\ r \in S
        /\ \A s \in S : /\ \E t \in S : WaitsFor(s, t)
                        /\ \E t \in S : WaitsFor(t, s)

-----------------------------------------------------------------------------
(* States *)

Init ==
    /\ inv = [p \in Products |->
                 [avail |-> InitialQty[p], reserved |-> 0, version |-> 0]]
    /\ active = InitialActive
    /\ priced = InitialPriced
    /\ idem = [k \in Keys |-> None]
    /\ orders = {}
    /\ outbox = {}
    /\ pc = [r \in Requests |-> "idle"]
    /\ attempt = [r \in Requests |-> 0]
    /\ snap = [r \in Requests |-> None]
    /\ got = [r \in Requests |-> {}]
    /\ reserved = [r \in Requests |-> {}]
    /\ result = [r \in Requests |-> NoResult]

InTransaction(r) == pc[r] \in {"locking", "deciding", "reserving"}
InFlight(r)      == pc[r] \in {"begin", "invalidating"} \/ InTransaction(r)
Finished(r)      == pc[r] \in {"done", "lost"}

Goto(r, label) == pc' = [pc EXCEPT ![r] = label]

\* Mutant: pg_advisory_lock, which the session keeps after the transaction.
CloseWithoutUnlocking(r) ==
    /\ snap' = [snap EXCEPT ![r] = None]
    /\ reserved' = [reserved EXCEPT ![r] = {}]
    /\ UNCHANGED got

\* Commit and rollback both release the advisory locks.
CloseTransaction(r) ==
    /\ snap' = [snap EXCEPT ![r] = None]
    /\ got' = [got EXCEPT ![r] = {}]
    /\ reserved' = [reserved EXCEPT ![r] = {}]

Answer(r, status, order, cause) ==
    /\ Goto(r, "done")
    /\ result' = [result EXCEPT ![r] = Response(status, order, cause)]

\* The transaction callback threw something runCheckoutTransactionWithRetry
\* does not retry.
Abort(r, status, cause) ==
    /\ CloseTransaction(r)
    /\ Answer(r, status, None, cause)
    /\ UNCHANGED <<store, attempt>>

\* Mutants: one attempt short, one too many.
MayRetryOnceLess(r) == attempt[r] + 1 < MaxAttempts - 1
MayRetryOnceMore(r) == attempt[r] < MaxAttempts

MayRetry(r) == attempt[r] < MaxAttempts - 1

\* The transaction failed with P2034.
RetryOrGiveUp(r, cause) ==
    \/ /\ MayRetry(r)
       /\ attempt' = [attempt EXCEPT ![r] = @ + 1]
       /\ CloseTransaction(r)
       /\ Goto(r, "begin")
       /\ UNCHANGED <<store, result>>
    \/ /\ ~MayRetry(r)
       /\ Abort(r, 500, cause)

-----------------------------------------------------------------------------
(* Before the transaction *)

Refuse(r) ==
    /\ pc[r] = "idle"
    /\ ~Valid(r)
    /\ Answer(r, 400, None, "invalid")
    /\ UNCHANGED <<store, attempt, snap, got, reserved>>

Start(r) ==
    /\ pc[r] = "idle"
    /\ Valid(r)
    /\ Goto(r, "begin")
    /\ UNCHANGED <<store, attempt, snap, got, reserved, result>>

-----------------------------------------------------------------------------
(* The transaction *)

\* The first statement is issued: the snapshot is taken, the wait begins.
Begin(r) ==
    /\ pc[r] = "begin"
    /\ Goto(r, "locking")
    /\ snap' = [snap EXCEPT ![r] = [inv |-> inv, active |-> active,
                                  priced |-> priced, idem |-> idem]]
    /\ UNCHANGED <<store, attempt, got, reserved, result>>

AcquireLock(r) ==
    /\ pc[r] = "locking"
    /\ \E name \in LockNames(r) :
        /\ IsNextLock(r, name)
        /\ \A other \in Requests \ {r} : ~Holds(other, LockId[name])
        /\ got' = [got EXCEPT ![r] = @ \union {name}]
    /\ Goto(r, IF got'[r] = LockNames(r) THEN "deciding" ELSE "locking")
    /\ UNCHANGED <<store, attempt, snap, reserved, result>>

Existing(r) == snap[r].idem[KeyOf[r]]

\* Mutant: the comparison of the hashes is gone.
AnyPayload(r) == TRUE

SamePayload(r) == Existing(r).requestHash = RequestHash(r)

RejectReusedKey(r) ==
    /\ pc[r] = "deciding"
    /\ Existing(r) # None
    /\ ~SamePayload(r)
    /\ Abort(r, 409, "reused_key")

Replay(r) ==
    /\ pc[r] = "deciding"
    /\ Existing(r) # None
    /\ SamePayload(r)
    /\ CloseTransaction(r)
    /\ Goto(r, "invalidating")
    /\ result' = [result EXCEPT ![r] = Response(200, Existing(r).orderId, "none")]
    /\ UNCHANGED <<store, attempt>>

\* Mutant: the products found are compared with the distinct ids.
EachFound(r) == ProductsOf(r) \subseteq snap[r].active

AllFound(r) == Orderable(r, snap[r].active)

RejectUnavailable(r) ==
    /\ pc[r] = "deciding"
    /\ Existing(r) = None
    /\ ~AllFound(r)
    /\ Abort(r, 422, "unavailable")

\* Mutant: a missing price is not noticed.
AnyPrice(r) == TRUE

AllPriced(r) == ProductsOf(r) \subseteq snap[r].priced

RejectUnpriced(r) ==
    /\ pc[r] = "deciding"
    /\ Existing(r) = None
    /\ AllFound(r)
    /\ ~AllPriced(r)
    /\ Abort(r, 422, "unpriced")

AcceptLines(r) ==
    /\ pc[r] = "deciding"
    /\ Existing(r) = None
    /\ AllFound(r)
    /\ AllPriced(r)
    /\ Goto(r, "reserving")
    /\ UNCHANGED <<store, attempt, snap, got, reserved, result>>

IsNextLine(r, p) ==
    /\ p \in ProductsOf(r) \ reserved[r]
    /\ \A q \in ProductsOf(r) \ reserved[r] : p <= q

\* Mutants: no condition on the stock, a strict one, one on the current row.
AnyStock(r, p)      == TRUE
MoreInSnapshot(r, p) == snap[r].inv[p].avail > Quantity(r, p)
EnoughNow(r, p)     == inv[p].avail >= Quantity(r, p)

EnoughInSnapshot(r, p) == snap[r].inv[p].avail >= Quantity(r, p)
RowUnchanged(r, p)     == inv[p] = snap[r].inv[p]

ReserveLine(r) ==
    /\ pc[r] = "reserving"
    /\ \E p \in Products :
        /\ IsNextLine(r, p)
        /\ EnoughInSnapshot(r, p)
        /\ RowUnchanged(r, p)
        /\ reserved' = [reserved EXCEPT ![r] = @ \union {p}]
    /\ UNCHANGED <<store, pc, attempt, snap, got, result>>

\* The WHERE clause is evaluated on the snapshot: no row, no conflict.
RejectInsufficient(r) ==
    /\ pc[r] = "reserving"
    /\ \E p \in Products :
        IsNextLine(r, p) /\ ~EnoughInSnapshot(r, p) /\ Storable(Quantity(r, p))
    /\ Abort(r, 422, "insufficient")

\* The row the WHERE clause selects was updated after the snapshot.
WriteConflict(r) ==
    /\ pc[r] = "reserving"
    /\ \E p \in Products :
        IsNextLine(r, p) /\ EnoughInSnapshot(r, p) /\ ~RowUnchanged(r, p)
    /\ RetryOrGiveUp(r, "write_conflict")

\* Mutant: each line takes one unit, whatever its quantity.
TakeOne(row, quantity) ==
    [avail |-> row.avail - 1, reserved |-> row.reserved + 1, version |-> row.version + 1]

Take(row, quantity) ==
    [avail |-> row.avail - quantity, reserved |-> row.reserved + quantity,
     version |-> row.version + 1]

\* Mutant: the loop over the lines ends after the first.
ReadyAfterFirst(r) == pc[r] = "reserving" /\ reserved[r] # {}

ReadyToInsert(r) == pc[r] = "reserving" /\ reserved[r] = ProductsOf(r)

\* Mutant: no unique constraint.
AnyKey(r) == TRUE

\* The unique constraints on (customerId, key), checked on current rows.
KeyIsFree(r) == idem[KeyOf[r]] = None

Commit(r) ==
    /\ ReadyToInsert(r)
    /\ Storable(Total(r))
    /\ KeyIsFree(r)
    /\ inv' = [p \in Products |->
                  IF p \in reserved[r] THEN Take(inv[p], Quantity(r, p)) ELSE inv[p]]
    /\ idem' = [idem EXCEPT ![KeyOf[r]] = IdemRow(r)]
    /\ orders' = orders \union {r}
    /\ outbox' = outbox \union {r}
    /\ CloseTransaction(r)
    /\ Goto(r, "invalidating")
    /\ result' = [result EXCEPT ![r] = Response(202, r, "none")]
    /\ UNCHANGED <<active, priced, attempt>>

\* order.create meets the row another request with this key committed after
\* the snapshot.  The unique constraint on Order(customerId, idempotencyKey)
\* reports P2002, which is not retried; serializability may report P2034 first.
DuplicateKey(r) ==
    /\ ReadyToInsert(r)
    /\ Storable(Total(r))
    /\ ~KeyIsFree(r)
    /\ \/ Abort(r, 500, "unique_violation")
       \/ RetryOrGiveUp(r, "write_conflict")

\* A quantity, or the total after every line has been reserved, is out of the
\* range of its column: the statement throws something that is not retried.
Overflow(r) ==
    /\ \/ pc[r] = "reserving"
          /\ \E p \in Products : IsNextLine(r, p) /\ ~Storable(Quantity(r, p))
       \/ ReadyToInsert(r) /\ ~Storable(Total(r))
    /\ Abort(r, 500, "overflow")

-----------------------------------------------------------------------------
(* After the transaction: cached cards are deleted, then the answer is sent *)

Respond(r) ==
    /\ pc[r] = "invalidating"
    /\ Goto(r, "done")
    /\ UNCHANGED <<store, attempt, snap, got, reserved, result>>

-----------------------------------------------------------------------------
(* The environment *)

\* PostgreSQL aborts one transaction of a cycle of lock waits.  Prisma reports
\* it as P2034 or as a failed raw query, depending on the statement.
DeadlockVictim(r) ==
    /\ InLockCycle(r)
    /\ \/ Abort(r, 500, "deadlock")
       \/ RetryOrGiveUp(r, "deadlock")

\* Serializable Snapshot Isolation may abort a transaction that has overlapped
\* with the commit of another one, with no row in common.
SerializationFailure(r) ==
    /\ "ssi" \in Faults
    /\ pc[r] \in {"deciding", "reserving"}
    /\ idem # snap[r].idem
    /\ RetryOrGiveUp(r, "write_conflict")

\* P2028: the interactive transaction was not started, or not finished, in time.
TransactionTimeout(r) ==
    /\ "timeout" \in Faults
    /\ pc[r] = "begin" \/ InTransaction(r)
    /\ Abort(r, 500, "timeout")

\* invalidateAvailability throws although the transaction has committed.
InvalidationFailure(r) ==
    /\ "invalidation" \in Faults
    /\ pc[r] = "invalidating"
    /\ Answer(r, 500, None, "invalidation")
    /\ UNCHANGED <<store, attempt, snap, got, reserved>>

\* The API process dies: no call of checkout() survives, its connections are
\* closed and their transactions are rolled back.
Crash ==
    /\ "crash" \in Faults
    /\ \E r \in Requests : InFlight(r)
    /\ pc' = [r \in Requests |-> IF InFlight(r) THEN "lost" ELSE pc[r]]
    /\ snap' = [r \in Requests |-> None]
    /\ got' = [r \in Requests |-> {}]
    /\ reserved' = [r \in Requests |-> {}]
    /\ result' = [r \in Requests |-> IF InFlight(r) THEN NoResult ELSE result[r]]
    /\ UNCHANGED <<store, attempt>>

-----------------------------------------------------------------------------
(* Behaviours *)

Decide(r)  == \/ RejectReusedKey(r) \/ Replay(r)
              \/ RejectUnavailable(r) \/ RejectUnpriced(r) \/ AcceptLines(r)
Reserve(r) == ReserveLine(r) \/ RejectInsufficient(r) \/ WriteConflict(r) \/ Overflow(r)
Insert(r)  == Commit(r) \/ DuplicateKey(r)

\* What the event loop and the database do for a call that has been received.
Proceed(r) == \/ Begin(r) \/ AcquireLock(r) \/ DeadlockVictim(r)
              \/ Decide(r) \/ Reserve(r) \/ Insert(r) \/ Respond(r)

Fault(r) == SerializationFailure(r) \/ TransactionTimeout(r) \/ InvalidationFailure(r)

AllFinished == (\A r \in Requests : Finished(r)) /\ UNCHANGED vars

Next ==
    \/ \E r \in Requests : Refuse(r) \/ Start(r) \/ Proceed(r) \/ Fault(r)
    \/ Crash
    \/ AllFinished

Spec == Init /\ [][Next]_vars

\* A received call makes progress: promises settle, and PostgreSQL grants a free
\* lock and resolves deadlocks.  Nothing makes a client send, or a fault occur.
FairSpec == Spec /\ \A r \in Requests : WF_vars(Proceed(r))
-----------------------------------------------------------------------------
(* Properties *)

Row       == [avail : Int, reserved : Int, version : Nat]
IdemRows  == {IdemRow(r) : r \in Requests}
Snapshots == [inv : [Products -> Row], active : SUBSET Products,
              priced : SUBSET Products, idem : [Keys -> IdemRows \union {None}]]
Responses == [status : {0, 200, 202, 400, 409, 422, 500},
              order : Requests \union {None},
              cause : {"none", "invalid", "reused_key", "unavailable", "unpriced",
                       "insufficient", "write_conflict", "unique_violation", "deadlock", "timeout",
                       "invalidation", "overflow"}]

\* Every variable holds a value the code can give it; a snapshot, advisory locks
\* and reserved lines exist only while a transaction is open.
TypeOK ==
    /\ inv \in [Products -> Row]
    /\ active \in SUBSET Products
    /\ priced \in SUBSET Products
    /\ idem \in [Keys -> IdemRows \union {None}]
    /\ orders \in SUBSET Requests
    /\ outbox \in SUBSET Requests
    /\ pc \in [Requests -> {"idle", "begin", "locking", "deciding", "reserving",
                            "invalidating", "done", "lost"}]
    /\ attempt \in [Requests -> 0 .. MaxAttempts - 1]
    /\ snap \in [Requests -> Snapshots \union {None}]
    /\ got \in [Requests -> SUBSET (Keys \union Products)]
    /\ reserved \in [Requests -> SUBSET Products]
    /\ result \in [Requests -> Responses]
    /\ \A r \in Requests : IF InTransaction(r) THEN snap[r] \in Snapshots
                           ELSE snap[r] = None /\ got[r] = {} /\ reserved[r] = {}

\* No unit is sold twice, made or lost: what is available and what is reserved
\* is always what was put on the shelf (checkout.service.ts:180-198).
StockConserved ==
    \A p \in Products :
        /\ inv[p].avail >= 0
        /\ inv[p].avail + inv[p].reserved = InitialQty[p]

\* The units of a product that orders ask for.
Ordered(p, of) == MapThenSumSet(LAMBDA o : Quantity(o, p), {o \in of : p \in ProductsOf(o)})

\* The reserved units of a product are the units the committed orders ask for,
\* no matter how often their requests were retried, repeated or cut off.
ReservedMatchesOrders == \A p \in Products : inv[p].reserved = Ordered(p, orders)

\* One key buys once: the order, its key's row and its outbox event exist
\* together or not at all, and no two orders share a key.
OneOrderPerKey ==
    /\ outbox = orders
    /\ \A o \in orders : idem[KeyOf[o]] = IdemRow(o)
    /\ \A k \in Keys : idem[k] # None => idem[k].orderId \in orders

\* What a client is told is what happened: 202 to the request that bought, 200
\* to a repetition of it, 409 to another payload under its key; a request that
\* was refused, or failed before the commit, bought nothing.
TruthfulAnswers ==
    \A r \in Requests : LET res == result[r] IN
        /\ res.status = 202 => res.order = r /\ r \in orders
        /\ res.status = 200 => res.order \in orders \ {r} /\ SameRequest(r, res.order)
        /\ res.status = 409 =>
             \E o \in orders : KeyOf[r] = KeyOf[o] /\ RequestHash(r) # RequestHash(o)
        /\ (res.status >= 400 /\ res.cause # "invalidation") => r \notin orders

\* A repetition of a request that bought is never refused, however the two
\* overlapped: not for stock its twin has taken, and not for reusing the key.
RepetitionsAreNotRefused ==
    \A r \in Requests : result[r].status \in {409, 422} =>
        ~\E o \in orders : SameRequest(r, o)

\* "Insufficient stock" is only said of a product that is short, although it
\* is read from a snapshot that may be older than other orders.
SoldOutIsTrue ==
    \A r \in Requests : result[r].cause = "insufficient" =>
        \E p \in ProductsOf(r) : inv[p].avail < Quantity(r, p)

\* Every attempt that is spent was beaten by a commit of somebody else: a
\* request gives up only when MaxAttempts others have bought in the meantime.
RetriesNeedCommits ==
    \A r \in Requests :
        /\ attempt[r] <= Cardinality(orders \ {r})
        /\ result[r].cause = "write_conflict" => Cardinality(orders) >= MaxAttempts

\* hashtext gives no two names of the instance the same lock number.
HashSeparates ==
    \A m, n \in Keys \union Products : LockId[m] = LockId[n] => m = n

\* Where hashtext separates the names, the lock order of
\* acquireIdempotencyLock and acquireInventoryLocks excludes cyclic waits.
NoLockCycle == \A r \in Requests : ~InLockCycle(r)

\* Again and again no call is in flight: since a call comes in once, every one that
\* was received is answered, or its process has died.
EveryCallSettles == []<>(\A r \in Requests : ~InFlight(r))

\* The design (docs/superpowers/specs/2026-05-28-casecellshop-backend-design.md:243)
\* answers "409 Conflict: mesma chave com payload diferente".  A request that
\* was answered before the other purchase may have been told 422.
ReusedKeyIsConflict ==
    \A r \in Requests, o \in orders :
        (KeyOf[r] = KeyOf[o] /\ RequestHash(r) # RequestHash(o) /\ pc[r] = "done")
            => result[r].status \in {409, 422}

\* README.md:233: repeated concurrent checkouts of one product "should stay
\* within 202, 409, and 422 instead of surfacing 500s".
NoServerError == \A r \in Requests : pc[r] = "done" => result[r].status # 500

\* What the desk of OrderDesk has on its shelf, in its book, and has told.
OnShelf == [p \in Products |-> inv[p].avail]
InBook  == [k \in Keys |-> IF idem[k] = None THEN None ELSE idem[k].orderId]
WasTold == [r \in Requests |-> CASE pc[r] = "done" -> result[r].status
                                 [] pc[r] = "lost" -> 500
                                 [] OTHER -> 0]

Desk == INSTANCE OrderDesk WITH shelf <- OnShelf, book <- InBook, told <- WasTold

\* Seen from outside, overlapping checkouts with stale snapshots, conflicts,
\* retries and crashes are one desk that serves one purchase at a time.
ImplementsOrderDesk == Desk!Spec
-----------------------------------------------------------------------------
(* The inductive invariant behind the safety properties *)

\* No two open transactions hold the same advisory lock.
LocksExclusive ==
    \A r, s \in Requests : \A m \in got[r], n \in got[s] :
        LockId[m] = LockId[n] => r = s

\* A transaction reads and writes only with all its locks.
LockedBeforeUse ==
    \A r \in Requests : pc[r] \in {"deciding", "reserving"} => got[r] = LockNames(r)

\* A row whose UPDATE has succeeded is still the row of the snapshot.
ReservedIsCurrent ==
    \A r \in Requests : \A p \in reserved[r] :
        /\ p \in ProductsOf(r) \intersect got[r]
        /\ inv[p] = snap[r].inv[p]
        /\ inv[p].avail >= Quantity(r, p)

\* The key rows of a snapshot are still there.
SnapshotsArePast ==
    \A r \in Requests : InTransaction(r) =>
        \A k \in Keys : snap[r].idem[k] \in {None, idem[k]}

\* A key's row is the row of an order under that key.
RowsAreOrders ==
    \A k \in Keys : idem[k] # None =>
        \E o \in orders : KeyOf[o] = k /\ idem[k] = IdemRow(o)

\* Nothing is booked or answered before the transaction ends.
UnansweredBeforeCommit ==
    \A r \in Requests : (pc[r] \in {"idle", "begin"} \/ InTransaction(r)) =>
        r \notin orders /\ result[r] = NoResult

\* What makes each step preserve keys and answers, whatever overlaps.
CoreInv ==
    /\ TypeOK
    /\ LocksExclusive
    /\ LockedBeforeUse
    /\ ReservedIsCurrent
    /\ SnapshotsArePast
    /\ RowsAreOrders
    /\ UnansweredBeforeCommit
    /\ OneOrderPerKey
    /\ TruthfulAnswers

\* And the stock.
IInv == CoreInv /\ StockConserved

\* Without a catalog sync, the products on sale are those of the seeds.
SaleIsFixed ==
    /\ active = InitialActive
    /\ priced = InitialPriced
    /\ \A r \in Requests : InTransaction(r) =>
        snap[r].active = InitialActive /\ snap[r].priced = InitialPriced

\* Only what passed the checks is worked on, reserved and booked.
ChecksPassed ==
    /\ \A r \in Requests : pc[r] = "begin" \/ InTransaction(r) => Valid(r)
    /\ \A r \in Requests : pc[r] = "reserving" =>
         Existing(r) = None /\ Sellable(r)
    /\ \A o \in orders : Sellable(o)

\* A snapshot is too generous at worst: there is no more stock than it shows.
StockOnlyShrinks ==
    \A r \in Requests : InTransaction(r) =>
        \A p \in Products : inv[p].avail <= snap[r].inv[p].avail

\* A snapshot without an order shows the stock that order has taken.
UnseenOrdersFit ==
    \A r \in Requests : InTransaction(r) =>
        \A o \in orders : snap[r].idem[KeyOf[o]] = None =>
            \A p \in ProductsOf(o) : snap[r].inv[p].avail >= Quantity(o, p)

\* A 422 has one of three reasons; while the cached cards are deleted the call has
\* an order to tell of.
RefusalsHaveReasons ==
    \A r \in Requests :
        /\ result[r].status = 422 =>
             result[r].cause \in {"unavailable", "unpriced", "insufficient"}
        /\ result[r].cause \in {"unavailable", "unpriced"} => ~Sellable(r)
        /\ pc[r] = "invalidating" => result[r].status \in {200, 202}

\* What makes every step of Checkout one of the desk's, or none.
DeskInv ==
    /\ IInv
    /\ SaleIsFixed
    /\ ChecksPassed
    /\ StockOnlyShrinks
    /\ UnseenOrdersFit
    /\ RefusalsHaveReasons
    /\ SoldOutIsTrue
    /\ RepetitionsAreNotRefused

\* The key's lock comes first, and the products' locks come in ascending order.
LocksInOrder ==
    \A r \in Requests :
        /\ got[r] \subseteq LockNames(r)
        /\ got[r] # {} => KeyOf[r] \in got[r]
        /\ \A m \in got[r] \ {KeyOf[r]}, n \in LockNames(r) \ got[r] : m < n

\* The orders a request's snapshot shows.
SeenOrders(r) == {o \in orders : snap[r].idem[KeyOf[o]] # None}

\* A snapshot that shows every order is the store, and shows one order or more for
\* every attempt before it.
AttemptsAreCounted ==
    /\ IsFiniteSet(orders)
    /\ \A r \in Requests : InTransaction(r) =>
        /\ attempt[r] <= Cardinality(SeenOrders(r))
        /\ SeenOrders(r) = orders => snap[r].inv = inv /\ snap[r].idem = idem

\* What keeps waits acyclic and retries few.
LockInv == LocksInOrder /\ AttemptsAreCounted /\ RetriesNeedCommits

\* The inductive invariants of the proofs, together.
ProofInvariants == DeskInv /\ (HashSeparates => LockInv)
=============================================================================
