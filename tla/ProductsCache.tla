--------------------------- MODULE ProductsCache ----------------------------
(***************************************************************************)
(* ProductsService (apps/api/src/products/products.service.ts) over        *)
(* CacheService (libs/cache/src/cache.service.ts): cache-aside reads of    *)
(* list queries and of product cards, next to the checkouts that change    *)
(* the stock and delete cards, and to catalog syncs, which write every     *)
(* product and increment the catalog version last.  Syncs may overlap.     *)
(*                                                                         *)
(* Every await is a step boundary; the commands of one Promise.all are one *)
(* step, of which any part may fail.  A row is abstracted to its stock,    *)
(* whether it is on sale, its look, and how often a sync has written it; a *)
(* cached card is the row it was copied from.                              *)
(***************************************************************************)
EXTENDS ProductQuery

CONSTANTS
    Readers,     \* calls of listProducts and of getProductById
    Targets,     \* the queries and the products they may ask for
    Buyers,      \* checkouts that will commit
    Bought,      \* the product each buyer takes one unit of
    Syncs,       \* calls of syncCatalog
    Offers,      \* what the ERP may list of each product: on sale or not, and its look
    FirstLook,   \* the look of each product at first
    Stock,       \* units of each product at first, and after a sync
    MaxVersion,  \* bound on the catalog version
    MaxExpiries, \* bound on the locks that expire while they are held
    Faults,      \* which failures the instance allows
    None         \* no value

ASSUME CacheAssumption ==
    /\ Bought \in [Buyers -> Products]
    /\ Stock \in [Products -> Nat]
    /\ FirstLook \in [Products -> Looks]
    /\ Offers \in [Products -> SUBSET [on : BOOLEAN, look : Looks]]
    /\ MaxVersion \in Nat \ {0}
    /\ MaxExpiries \in Nat
    /\ None \notin Products
    /\ Queries \intersect Products = {}
    /\ Targets \subseteq Queries \union Products
    /\ Faults \subseteq {"redis", "fetch"}

VARIABLES
    \* PostgreSQL
    row,      \* the products
    version,  \* CatalogVersion
    \* Redis
    cards,    \* product:card:v{version}:{id}
    lists,    \* products:query:v{version}:...
    locks,    \* the lock:... keys that exist
    expiries, \* locks that have expired while held
    \* The readers
    target,   \* the product or the query a call asks for
    pc,       \* where a call is
    ver,      \* the catalog version it has read
    ids,      \* the products it looks for
    have,     \* what it will answer: products to rows
    fetched,  \* what it has read from PostgreSQL: products to rows
    held,     \* the lock it believes it holds, or None
    \* The writers
    bpc,      \* where a buyer is
    bver,     \* the catalog version it invalidates
    written,  \* the products each sync has written
    bumped,   \* the syncs that have incremented the version
    \* history
    spoiled,  \* cards that were stored after their row had changed, and cards whose
              \* deletion failed
    published \* how often each product had been written when a version was published

db      == <<row, version>>
redis   == <<cards, lists, locks, expiries>>
reader  == <<target, pc, ver, ids, have, fetched, held>>
syncs   == <<written, bumped, published>>
writer  == <<bpc, bver, syncs>>
vars    == <<db, redis, reader, writer, spoiled>>

Versions == 1 .. MaxVersion
CardKeys == Versions \X Products
NoRows   == [p \in {} |-> None]

KeyOf    == [call \in Versions \X Queries |-> QueryKey(call[1], normalizeQuery(call[2]))]
ListKeys == {KeyOf[<<v, query>>] : v \in Versions, query \in Queries}

\* lock:products:query:... and lock:product:hydrate:v{v}:{hash of missing}; the
\* latter is the same for every query that misses these cards.
QueryLock(key)          == <<"query", key>>
HydrationLock(v, missing) == <<"hydrate", v, missing>>

Init ==
    /\ row = [p \in Products |-> [qty |-> Stock[p], on |-> TRUE, look |-> FirstLook[p], gen |-> 0]]
    /\ version = 1
    /\ cards = [key \in CardKeys |-> None]
    /\ lists = [key \in ListKeys |-> None]
    /\ locks = {}
    /\ expiries = 0
    /\ target \in [Readers -> Targets]
    /\ pc = [r \in Readers |-> "start"]
    /\ ver = [r \in Readers |-> 1]
    /\ ids = [r \in Readers |-> {}]
    /\ have = [r \in Readers |-> NoRows]
    /\ fetched = [r \in Readers |-> NoRows]
    /\ held = [r \in Readers |-> None]
    /\ bpc = [b \in Buyers |-> "start"]
    /\ bver = [b \in Buyers |-> 1]
    /\ written = [c \in Syncs |-> {}]
    /\ bumped = {}
    /\ spoiled = {}
    /\ published = [v \in Versions |-> [p \in Products |-> 0]]

IsList(r)     == target[r] \in Queries
Query(r)      == normalizeQuery(target[r])
ListKey(r)    == KeyOf[<<ver[r], target[r]>>]
RedisMayFail  == "redis" \in Faults
Step(r, from, to) == pc[r] = from /\ pc' = [pc EXCEPT ![r] = to]

\* The cards of the given products under the version the reader has read; what
\* Redis fails to deliver counts as missing.
CachedCards(r, wanted) ==
    [p \in {q \in wanted : cards[<<ver[r], q>>] # None} |-> cards[<<ver[r], p>>]]

\* A Map of products to rows, extended.
With(f, g) == [p \in DOMAIN f \union DOMAIN g |-> IF p \in DOMAIN g THEN g[p] ELSE f[p]]

-----------------------------------------------------------------------------
(* listProducts and getProductById *)

ReadVersion(r) ==
    /\ Step(r, "start", IF IsList(r) THEN "list" ELSE "cards")
    /\ ver' = [ver EXCEPT ![r] = version]
    /\ ids' = [ids EXCEPT ![r] = IF IsList(r) THEN {} ELSE {target[r]}]
    /\ UNCHANGED <<db, target, redis, have, fetched, held, writer, spoiled>>

ListHit(r) ==
    /\ Step(r, "list", "cards")
    /\ lists[ListKey(r)] # None
    /\ ids' = [ids EXCEPT ![r] = lists[ListKey(r)].ids]
    /\ UNCHANGED <<db, target, redis, ver, have, fetched, held, writer, spoiled>>

ListMiss(r) ==
    /\ Step(r, "list", "trylock")
    /\ lists[ListKey(r)] = None \/ RedisMayFail
    /\ UNCHANGED <<db, target, redis, ver, ids, have, fetched, held, writer, spoiled>>

\* Mutant: SET without NX.
AlwaysFree(lock) == TRUE

LockIsFree(lock) == lock \notin locks

\* acquireLock answers 'OK'.
TakeLock(r, lock) ==
    /\ LockIsFree(lock)
    /\ locks' = locks \union {lock}
    /\ held' = [held EXCEPT ![r] = lock]
    /\ UNCHANGED <<cards, lists, expiries>>

\* acquireLock answers null, or throws, perhaps after Redis has set the key.
MissLock(lock) ==
    /\ \/ ~LockIsFree(lock) /\ UNCHANGED locks
       \/ RedisMayFail /\ locks' \in {locks, locks \union {lock}}
    /\ UNCHANGED <<cards, lists, expiries>>

AcquireQueryLock(r) ==
    /\ \E from \in {"trylock", "retrylock"} : Step(r, from, "fetch")
    /\ TakeLock(r, QueryLock(ListKey(r)))
    /\ UNCHANGED <<db, target, ver, ids, have, fetched, writer, spoiled>>

\* One more try after a jitter, then an empty answer that says retryLater.
MissQueryLock(r) ==
    /\ Step(r, "trylock", "retrylock") \/ Step(r, "retrylock", "done")
    /\ MissLock(QueryLock(ListKey(r)))
    /\ UNCHANGED <<db, target, ver, ids, have, fetched, held, writer, spoiled>>

\* hydrateProducts' first MGET, or getProductById's GET.  A detail call that
\* misses goes on to the database without a lock.
GetCards(r) ==
    /\ \E hits \in {CachedCards(r, ids[r])} \union (IF RedisMayFail THEN {NoRows} ELSE {}) :
        /\ have' = [have EXCEPT ![r] = hits]
        /\ Step(r, "cards", IF ids[r] \subseteq DOMAIN hits THEN "done"
                            ELSE IF IsList(r) THEN "hydrate" ELSE "fetch")
    /\ UNCHANGED <<db, target, redis, ver, ids, fetched, held, writer, spoiled>>

Missing(r) == ids[r] \ DOMAIN have[r]

AcquireHydrationLock(r) ==
    /\ Step(r, "hydrate", "fetch")
    /\ TakeLock(r, HydrationLock(ver[r], Missing(r)))
    /\ UNCHANGED <<db, target, ver, ids, have, fetched, writer, spoiled>>

MissHydrationLock(r) ==
    /\ Step(r, "hydrate", "reread")
    /\ MissLock(HydrationLock(ver[r], Missing(r)))
    /\ UNCHANGED <<db, target, ver, ids, have, fetched, held, writer, spoiled>>

\* After the jitter; what is still missing is answered as a degraded list.
Reread(r) ==
    /\ Step(r, "reread", "done")
    /\ \E hits \in {CachedCards(r, Missing(r))} \union (IF RedisMayFail THEN {NoRows} ELSE {}) :
        have' = [have EXCEPT ![r] = With(@, hits)]
    /\ UNCHANGED <<db, target, redis, ver, ids, fetched, held, writer, spoiled>>

\* fetchProducts for a list (nothing is wanted by name) or for missing cards.
OnSale     == [p \in {o \in Products : row[o].on} |-> row[p].look]
Wanted(r)  == IF ids[r] = {} THEN Page(Query(r), OnSale) ELSE Missing(r) \intersect DOMAIN OnSale

Fetch(r) ==
    /\ Step(r, "fetch", "store")
    /\ fetched' = [fetched EXCEPT ![r] = [p \in Wanted(r) |-> row[p]]]
    /\ have' = [have EXCEPT ![r] = With(@, [p \in Wanted(r) |-> row[p]])]
    /\ UNCHANGED <<db, target, redis, ver, ids, held, writer, spoiled>>

\* Mutant: no finally clause.
WithoutFinally == "done"

AfterFetchFailure == "unlock"

\* The query throws: the finally clause still releases the lock.
FetchFails(r) ==
    /\ "fetch" \in Faults
    /\ Step(r, "fetch", AfterFetchFailure)
    /\ have' = [have EXCEPT ![r] = NoRows]
    /\ UNCHANGED <<db, target, redis, ver, ids, fetched, held, writer, spoiled>>

HasQueryLock(r) == IsList(r) /\ held[r] = QueryLock(ListKey(r))

\* cacheProductCard for what was fetched, and the list if it was a list miss.
\* Errors are swallowed, so any part of it may be missing.
Store(r) ==
    /\ Step(r, "store", "unlock")
    /\ \E kept \in IF RedisMayFail THEN SUBSET DOMAIN fetched[r] ELSE {DOMAIN fetched[r]} :
        LET stored == {ver[r]} \X kept IN
        /\ cards' = [key \in CardKeys |->
                        IF key \in stored THEN fetched[r][key[2]] ELSE cards[key]]
        /\ spoiled' = (spoiled \ stored)
                      \union {key \in stored : fetched[r][key[2]] # row[key[2]]}
    /\ \/ /\ HasQueryLock(r)
          /\ lists' = [lists EXCEPT ![ListKey(r)] = [ids |-> DOMAIN fetched[r]]]
       \/ /\ ~HasQueryLock(r) \/ RedisMayFail
          /\ UNCHANGED lists
    /\ fetched' = [fetched EXCEPT ![r] = NoRows]
    /\ UNCHANGED <<db, target, locks, expiries, ver, ids, have, held, writer>>

\* releaseLock deletes the key, whoever has set it by now; its error is ignored.
Unlock(r) ==
    /\ Step(r, "unlock", "done")
    /\ locks' \in {locks \ {held[r]}} \union (IF RedisMayFail THEN {locks} ELSE {})
    /\ held' = [held EXCEPT ![r] = None]
    /\ UNCHANGED <<db, target, cards, lists, expiries, ver, ids, have, fetched, writer, spoiled>>

-----------------------------------------------------------------------------
(* The writers *)

InStock(p) == row[p].on /\ row[p].qty > 0

\* CheckoutService's transaction commits.
Buy(b) ==
    /\ bpc[b] = "start"
    /\ InStock(Bought[b])
    /\ row' = [row EXCEPT ![Bought[b]].qty = @ - 1]
    /\ bpc' = [bpc EXCEPT ![b] = "bought"]
    /\ UNCHANGED <<version, redis, reader, bver, syncs, spoiled>>

\* invalidateAvailability reads the version, then deletes the card.
ReadVersionToInvalidate(b) ==
    /\ bpc[b] = "bought"
    /\ bpc' = [bpc EXCEPT ![b] = "invalidating"]
    /\ bver' = [bver EXCEPT ![b] = version]
    /\ UNCHANGED <<db, redis, reader, syncs, spoiled>>

\* Mutant: the version is left out of the key that is deleted.
FirstCardOf(b) == <<1, Bought[b]>>

CardOf(b) == <<bver[b], Bought[b]>>

Invalidate(b) ==
    /\ bpc[b] = "invalidating"
    /\ bpc' = [bpc EXCEPT ![b] = "done"]
    /\ \/ /\ cards' = [cards EXCEPT ![CardOf(b)] = None]
          /\ spoiled' = spoiled \ {CardOf(b)}
       \/ /\ RedisMayFail
          /\ spoiled' = spoiled \union {CardOf(b)}
          /\ UNCHANGED cards
    /\ UNCHANGED <<db, lists, locks, expiries, reader, bver, syncs>>

\* syncCatalog, as CatalogSync has it in detail, for the products the ERP lists.  A
\* sync that fails is one that takes no further step.
SyncWrite(c, p) ==
    /\ p \notin written[c]
    /\ written' = [written EXCEPT ![c] = @ \union {p}]
    /\ \E offer \in Offers[p] :
        row' = [row EXCEPT ![p] = [qty |-> Stock[p], on |-> offer.on, look |-> offer.look,
                                   gen |-> row[p].gen + 1]]
    /\ UNCHANGED <<version, redis, reader, bpc, bver, bumped, published, spoiled>>

\* The ERP has listed no other product.
DeactivateAbsent(c) ==
    /\ written[c] # Products
    /\ written' = [written EXCEPT ![c] = Products]
    /\ row' = [p \in Products |-> IF p \in written[c] THEN row[p]
                                 ELSE [row[p] EXCEPT !.on = FALSE, !.gen = @ + 1]]
    /\ UNCHANGED <<version, redis, reader, bpc, bver, bumped, published, spoiled>>

\* Mutant: the version is incremented before the products are written.
AnyTime(c) == TRUE

AllWritten(c) == written[c] = Products

\* How often a product has been written once the sync has done what it has to do.
Due(c, p) == row[p].gen + (IF p \in written[c] THEN 0 ELSE 1)

BumpVersion(c) ==
    /\ c \notin bumped
    /\ version < MaxVersion
    /\ AllWritten(c)
    /\ version' = version + 1
    /\ bumped' = bumped \union {c}
    /\ published' = [published EXCEPT ![version + 1] = [p \in Products |-> Due(c, p)]]
    /\ UNCHANGED <<row, redis, reader, bpc, bver, written, spoiled>>

-----------------------------------------------------------------------------
(* Time to live *)

CardExpires(key) ==
    /\ cards[key] # None
    /\ cards' = [cards EXCEPT ![key] = None]
    /\ spoiled' = spoiled \ {key}
    /\ UNCHANGED <<db, lists, locks, expiries, reader, writer>>

ListExpires(key) ==
    /\ lists[key] # None
    /\ lists' = [lists EXCEPT ![key] = None]
    /\ UNCHANGED <<db, cards, locks, expiries, reader, writer, spoiled>>

Holders(lock) == {r \in Readers : held[r] = lock}

\* A lock lives five seconds, even if its holder needs more.
LockExpires(lock) ==
    /\ locks' = locks \ {lock}
    /\ expiries' = IF Holders(lock) = {} THEN expiries ELSE expiries + 1
    /\ expiries' <= MaxExpiries
    /\ UNCHANGED <<db, cards, lists, reader, writer, spoiled>>

-----------------------------------------------------------------------------
(* Behaviours *)

Read(r) ==
    \/ ReadVersion(r) \/ ListHit(r) \/ ListMiss(r)
    \/ AcquireQueryLock(r) \/ MissQueryLock(r)
    \/ GetCards(r) \/ AcquireHydrationLock(r) \/ MissHydrationLock(r) \/ Reread(r)
    \/ Fetch(r) \/ FetchFails(r) \/ Store(r) \/ Unlock(r)

Checkout(b) == Buy(b) \/ ReadVersionToInvalidate(b) \/ Invalidate(b)

Sync(c) == (\E p \in Products : SyncWrite(c, p)) \/ DeactivateAbsent(c) \/ BumpVersion(c)

Expire == \/ \E key \in CardKeys : CardExpires(key)
          \/ \E key \in ListKeys : ListExpires(key)
          \/ \E lock \in locks : LockExpires(lock)

Next ==
    \/ \E r \in Readers : Read(r)
    \/ \E b \in Buyers : Checkout(b)
    \/ \E c \in Syncs : Sync(c)
    \/ Expire

Spec == Init /\ [][Next]_vars
-----------------------------------------------------------------------------
(* Properties *)

Rows     == [qty : Nat, on : BOOLEAN, look : Looks, gen : Nat]
LockKeys == {QueryLock(key) : key \in ListKeys}
            \union {HydrationLock(v, S) : v \in Versions, S \in SUBSET Products}

IsRowMap(f) == DOMAIN f \subseteq Products /\ f \in [DOMAIN f -> Rows]

\* Every variable holds a value the code can give it; stock is never negative,
\* and a call that has ended holds no lock.
TypeOK ==
    /\ row \in [Products -> Rows]
    /\ version \in Versions
    /\ cards \in [CardKeys -> Rows \union {None}]
    /\ lists \in [ListKeys -> [ids : SUBSET Products] \union {None}]
    /\ locks \subseteq LockKeys
    /\ expiries \in 0 .. MaxExpiries
    /\ pc \in [Readers -> {"start", "list", "trylock", "retrylock", "cards", "hydrate",
                           "reread", "fetch", "store", "unlock", "done"}]
    /\ target \in [Readers -> Targets]
    /\ ver \in [Readers -> Versions]
    /\ ids \in [Readers -> SUBSET Products]
    /\ DOMAIN have = Readers /\ DOMAIN fetched = Readers
    /\ \A r \in Readers : IsRowMap(have[r]) /\ IsRowMap(fetched[r])
    /\ held \in [Readers -> LockKeys \union {None}]
    /\ \A r \in Readers : held[r] # None => pc[r] \in {"fetch", "store", "unlock"}
    /\ bpc \in [Buyers -> {"start", "bought", "invalidating", "done"}]
    /\ bver \in [Buyers -> Versions]
    /\ written \in [Syncs -> SUBSET Products]
    /\ bumped \subseteq Syncs
    /\ spoiled \subseteq CardKeys
    /\ published \in [Versions -> [Products -> Nat]]

\* A sync has written the product since the version was published.
Outdated(v, p) == row[p].gen > published[v][p]

\* A new catalog version never shows an older catalog: what is cached under a
\* version, and what is answered for it, is no older than what the syncs had written
\* when it was published, although versions are read long before the rows and syncs
\* overlap; and a list is the page its query selects until a sync writes a product
\* (products.service.ts:51-106, reconciliation.runner.ts:149-160).
CachedUnderItsVersion ==
    /\ \A v \in Versions, p \in Products :
        cards[<<v, p>>] # None => cards[<<v, p>>].gen >= published[v][p]
    /\ \A v \in Versions, query \in Queries :
        LET list == lists[KeyOf[<<v, query>>]] IN
        list # None /\ (\A p \in Products : ~Outdated(v, p))
            => list.ids = Page(normalizeQuery(query), OnSale)
    /\ \A r \in Readers : \A p \in DOMAIN have[r] : have[r][p].gen >= published[ver[r]][p]

\* A list shows a product its query does not ask for only when a sync has written that
\* product since the list's version was published; although ids come from a cache, and
\* cards from calls for other queries and for single products, which nobody filters
\* again (products.service.ts:49-80, 273-353).
ListsMatchTheirQueries ==
    \A r \in Readers : IsList(r) =>
        \A p \in DOMAIN have[r] : Outdated(ver[r], p) \/ Matches(Query(r), have[r][p].look)

\* However many calls miss, as many of them query the database for one list, or
\* for one set of missing cards, as locks have expired under their holders, plus
\* one; although releaseLock deletes locks of others (cache.service.ts:89-95).
StampedeBounded ==
    \A lock \in {held[r] : r \in Readers} \ {None} :
        Cardinality(Holders(lock)) <= expiries + (IF lock \in locks THEN 1 ELSE 0)

\* A card of the current version differs from its row only while a checkout is under
\* way, or since a sync has written the row, or because a reader stored what it had
\* read before the change, or because Redis failed to delete it; never because a
\* checkout has deleted the card of another version (products.service.ts:185-193).
StaleIsExplained ==
    \A p \in Products : LET key == <<version, p>> IN
        (cards[key] # None /\ cards[key] # row[p]) =>
            \/ Outdated(version, p)
            \/ \E b \in Buyers : Bought[b] = p /\ bpc[b] \in {"bought", "invalidating"}
            \/ key \in spoiled
-----------------------------------------------------------------------------
(* The inductive invariants behind the properties *)

\* What a call has on its way to the database: a list call looks for nothing by
\* name and has nothing until it knows its list or holds the lock of its query.
CallsInOrder ==
    \A r \in Readers :
        /\ pc[r] \in {"list", "trylock", "retrylock", "hydrate", "reread"} => IsList(r)
        /\ pc[r] \in {"start", "list", "trylock", "retrylock"} => ids[r] = {}
        /\ pc[r] \in {"start", "list", "trylock", "retrylock", "cards"} => DOMAIN have[r] = {}
        /\ pc[r] \in {"fetch", "store"} /\ HasQueryLock(r) => ids[r] = {}
        /\ pc[r] # "store" => DOMAIN fetched[r] = {}

\* What a copy under a version is: a row since the version was published, and the
\* look of the product unless a sync has written it again.
Copy(v, p, copy) ==
    /\ published[v][p] <= copy.gen /\ copy.gen <= row[p].gen
    /\ copy.gen = row[p].gen => copy.look = row[p].look

\* The version is incremented after the rows are written, and read before they are.
VersionsLag ==
    /\ \A v \in Versions, p \in Products : v <= version => published[v][p] <= row[p].gen
    /\ \A r \in Readers : ver[r] <= version
    /\ \A r \in Readers : \A p \in DOMAIN have[r] : Copy(ver[r], p, have[r][p])
    /\ \A r \in Readers : \A p \in DOMAIN fetched[r] : Copy(ver[r], p, fetched[r][p])
    /\ \A v \in Versions, p \in Products :
        cards[<<v, p>>] # None => v <= version /\ Copy(v, p, cards[<<v, p>>])

\* StampedeBounded counts finitely many calls, whatever their number.
HoldersAreFinite == \A lock \in {held[r] : r \in Readers} \ {None} : IsFiniteSet(Holders(lock))

\* As StaleIsExplained, of a checkout that has still to delete this very card.
Pending(p) ==
    \/ Outdated(version, p)
    \/ \E b \in Buyers :
        /\ Bought[b] = p
        /\ bpc[b] = "bought" \/ (bpc[b] = "invalidating" /\ bver[b] = version)
    \/ <<version, p>> \in spoiled

StaleIsPending ==
    \A p \in Products : cards[<<version, p>>] \notin {None, row[p]} => Pending(p)

CacheInv ==
    /\ TypeOK
    /\ CallsInOrder
    /\ VersionsLag
    /\ HoldersAreFinite
    /\ StampedeBounded
    /\ StaleIsPending

\* No sync has written a row since the version was published.
Untouched(v) == \A p \in Products : ~Outdated(v, p)

\* A product that a list of the version may name.
MayShow(v, q, p) == Outdated(v, p) \/ Matches(q, row[p].look)

\* What a list may hold under the key of a query and a version.
RightPage(list, v, query) == list # None =>
    /\ v <= version
    /\ Untouched(v) => list.ids = Page(normalizeQuery(query), OnSale)
    /\ \A p \in list.ids : MayShow(v, normalizeQuery(query), p)

\* It holds under any query that has the key.
ListsArePages ==
    \A v \in Versions, query \in Queries : RightPage(lists[KeyOf[<<v, query>>]], v, query)

\* What a list call is about to store or to answer is of its query.
RightCall(r) == IsList(r) =>
    /\ \A p \in ids[r] \union DOMAIN have[r] \union DOMAIN fetched[r] :
        MayShow(ver[r], Query(r), p)
    /\ pc[r] = "store" /\ HasQueryLock(r) /\ Untouched(ver[r]) =>
         DOMAIN fetched[r] = Page(Query(r), OnSale)

CallsMatch == \A r \in Readers : RightCall(r)

ListInv == ListsArePages /\ CallsMatch

\* Everything the proofs of the properties rest on.
CacheProofInvariants == CacheInv /\ ListInv
=============================================================================
