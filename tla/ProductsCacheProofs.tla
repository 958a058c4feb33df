------------------------- MODULE ProductsCacheProofs -------------------------
(* Safety of ProductsCache for every set of calls, checkouts, products and *)
(* queries, and every number of versions and of expired locks.             *)
EXTENDS ProductsCache, FiniteSetTheorems, TLAPS

\* What most steps need of the constants.
LEMMA Constants ==
    /\ Bought \in [Buyers -> Products] /\ Stock \in [Products -> Nat]
    /\ MaxVersion \in Nat \ {0} /\ MaxExpiries \in Nat
    /\ None \notin Products /\ Queries \intersect Products = {}
    /\ Targets \subseteq Queries \union Products
BY CacheAssumption DEF CacheAssumption

USE Constants

-----------------------------------------------------------------------------
(* The parts of CacheInv *)

Labels == {"start", "list", "trylock", "retrylock", "cards", "hydrate",
           "reread", "fetch", "store", "unlock", "done"}

\* What CacheInv says of one call.
CallOK(r) ==
    /\ pc[r] \in Labels /\ target[r] \in Targets /\ ver[r] \in Versions
    /\ ids[r] \in SUBSET Products
    /\ IsRowMap(have[r]) /\ IsRowMap(fetched[r])
    /\ held[r] \in LockKeys \union {None}
    /\ held[r] # None => pc[r] \in {"fetch", "store", "unlock"}
    /\ CallsInOrder!(r)
    /\ ver[r] <= version
    /\ \A p \in DOMAIN have[r] : Copy(ver[r], p, have[r][p])
    /\ \A p \in DOMAIN fetched[r] : Copy(ver[r], p, fetched[r][p])

CallsOK ==
    /\ target = [r \in Readers |-> target[r]] /\ pc = [r \in Readers |-> pc[r]]
    /\ ver = [r \in Readers |-> ver[r]] /\ ids = [r \in Readers |-> ids[r]]
    /\ DOMAIN have = Readers /\ DOMAIN fetched = Readers
    /\ held = [r \in Readers |-> held[r]]
    /\ \A r \in Readers : CallOK(r)

\* What it says of the rows and their copies.
SharedOK ==
    /\ row \in [Products -> Rows] /\ version \in Versions
    /\ cards \in [CardKeys -> Rows \union {None}]
    /\ lists \in [ListKeys -> [ids : SUBSET Products] \union {None}]
    /\ locks \subseteq LockKeys /\ expiries \in 0 .. MaxExpiries
    /\ bpc \in [Buyers -> {"start", "bought", "invalidating", "done"}]
    /\ bver \in [Buyers -> Versions]
    /\ written \in [Syncs -> SUBSET Products] /\ bumped \subseteq Syncs
    /\ spoiled \subseteq CardKeys /\ published \in [Versions -> [Products -> Nat]]
    /\ \A v \in Versions, p \in Products : v <= version => published[v][p] <= row[p].gen
    /\ \A v \in Versions, p \in Products :
        cards[<<v, p>>] # None => v <= version /\ Copy(v, p, cards[<<v, p>>])
    /\ StaleIsPending

\* What it says of the calls that hold a lock.
FewHolders(calls, bound) == IsFiniteSet(calls) /\ Cardinality(calls) <= bound
Bound(lock) == expiries + (IF lock \in locks THEN 1 ELSE 0)
LocksOK == \A lock \in LockKeys \ {None} : FewHolders(Holders(lock), Bound(lock))

\* The three parts are all of it.
LEMMA CacheParts == CacheInv <=> CallsOK /\ SharedOK /\ LocksOK
<1>1. CallsOK /\ SharedOK <=> TypeOK /\ CallsInOrder /\ VersionsLag /\ StaleIsPending
  <2>1. CallsOK /\ SharedOK => TypeOK
    BY DEF CallsOK, CallOK, SharedOK, TypeOK, Labels
  <2>2. CallsOK /\ SharedOK => CallsInOrder /\ VersionsLag /\ StaleIsPending
    BY DEF CallsOK, CallOK, SharedOK, CallsInOrder, VersionsLag
  <2>3. ASSUME TypeOK, VersionsLag, StaleIsPending PROVE SharedOK
    <3>1. /\ \A v \in Versions, p \in Products : v <= version => published[v][p] <= row[p].gen
          /\ \A v \in Versions, p \in Products :
               cards[<<v, p>>] # None => v <= version /\ Copy(v, p, cards[<<v, p>>])
      BY <2>3 DEF VersionsLag
    <3> QED
      BY <2>3, <3>1 DEF SharedOK, TypeOK
  <2>4. ASSUME TypeOK, CallsInOrder, VersionsLag PROVE CallsOK
    <3>1. ASSUME NEW r \in Readers PROVE CallOK(r)
      <4>1. CallsInOrder!(r)
        BY <2>4 DEF CallsInOrder
      <4> QED
        BY <2>4, <4>1 DEF CallOK, TypeOK, VersionsLag, Labels
    <3> QED
      BY <2>4, <3>1 DEF CallsOK, TypeOK
  <2> QED
    BY <2>1, <2>2, <2>3, <2>4
<1>2. ASSUME TypeOK PROVE HoldersAreFinite /\ StampedeBounded <=> LocksOK
  <2>1. {held[r] : r \in Readers} \ {None} \subseteq LockKeys \ {None}
    BY <1>2 DEF TypeOK
  <2>2. LocksOK => HoldersAreFinite /\ StampedeBounded
    BY <2>1 DEF LocksOK, FewHolders, Bound, HoldersAreFinite, StampedeBounded
  <2>3. ASSUME HoldersAreFinite, StampedeBounded, NEW lock \in LockKeys \ {None}
        PROVE  FewHolders(Holders(lock), Bound(lock))
    <3>1. CASE lock \in {held[r] : r \in Readers}
      BY <2>3, <3>1 DEF FewHolders, Bound, HoldersAreFinite, StampedeBounded
    <3>2. CASE lock \notin {held[r] : r \in Readers}
      <4>1. Holders(lock) = {}
        BY <3>2 DEF Holders
      <4>2. Bound(lock) \in Nat
        BY <1>2 DEF TypeOK, Bound
      <4> QED
        BY <4>1, <4>2, FS_EmptySet DEF FewHolders
    <3> QED
      BY <3>1, <3>2
  <2> QED
    BY <2>2, <2>3 DEF LocksOK
<1> QED
  BY <1>1, <1>2 DEF CacheInv

\* The first state: nothing is cached, held or under way.
LEMMA CacheInit == Init => CacheInv
<1> SUFFICES ASSUME Init PROVE CallsOK /\ SharedOK /\ LocksOK
  BY CacheParts
<1>1. 1 \in Versions
  BY DEF Versions
<1>2. ASSUME NEW r \in Readers PROVE CallOK(r)
  BY <1>1, <1>2 DEF Init, CallOK, Labels, NoRows, IsRowMap
<1>3. CallsOK
  BY <1>2 DEF Init, CallsOK
<1>4. SharedOK
  BY <1>1, CacheAssumption DEF CacheAssumption, Init, SharedOK, Rows, StaleIsPending, CardKeys
<1>5. ASSUME NEW lock \in LockKeys \ {None} PROVE FewHolders(Holders(lock), Bound(lock))
  <2>1. Holders(lock) = {}
    BY <1>5 DEF Init, Holders
  <2>2. Bound(lock) \in Nat
    BY DEF Init, Bound
  <2> QED
    BY <2>1, <2>2, FS_EmptySet DEF FewHolders
<1> QED
  BY <1>3, <1>4, <1>5 DEF LocksOK

-----------------------------------------------------------------------------
(* The steps of a call *)

\* Nothing of another call changes.
Elsewhere(r) ==
    /\ target' = target /\ pc' = [q \in Readers |-> pc'[q]]
    /\ ver' = [q \in Readers |-> ver'[q]] /\ ids' = [q \in Readers |-> ids'[q]]
    /\ DOMAIN have' = Readers /\ DOMAIN fetched' = Readers
    /\ held' = [q \in Readers |-> held'[q]]
    /\ \A q \in Readers \ {r} :
        /\ pc'[q] = pc[q] /\ ver'[q] = ver[q] /\ ids'[q] = ids[q]
        /\ have'[q] = have[q] /\ fetched'[q] = fetched[q] /\ held'[q] = held[q]

\* A call does nothing to another one.
LEMMA ReadIsLocal == ASSUME CallsOK, NEW r \in Readers, Read(r) PROVE Elsewhere(r)
<1> USE DEF CallsOK, Step, reader, Elsewhere
<1>1. CASE ReadVersion(r)
  BY <1>1 DEF ReadVersion
<1>2. CASE ListHit(r)
  BY <1>2 DEF ListHit
<1>3. CASE ListMiss(r)
  BY <1>3 DEF ListMiss
<1>4. CASE AcquireQueryLock(r)
  BY <1>4 DEF AcquireQueryLock, TakeLock
<1>5. CASE MissQueryLock(r)
  BY <1>5 DEF MissQueryLock
<1>6. CASE GetCards(r)
  BY <1>6 DEF GetCards
<1>7. CASE AcquireHydrationLock(r)
  BY <1>7 DEF AcquireHydrationLock, TakeLock
<1>8. CASE MissHydrationLock(r)
  BY <1>8 DEF MissHydrationLock
<1>9. CASE Reread(r)
  BY <1>9 DEF Reread
<1>10. CASE Fetch(r)
  BY <1>10 DEF Fetch
<1>11. CASE FetchFails(r)
  BY <1>11 DEF FetchFails
<1>12. CASE Store(r)
  BY <1>12 DEF Store
<1>13. CASE Unlock(r)
  BY <1>13 DEF Unlock
<1> QED
  BY <1>1, <1>2, <1>3, <1>4, <1>5, <1>6, <1>7, <1>8, <1>9, <1>10, <1>11, <1>12, <1>13 DEF Read

\* Versions are never lost or published anew, and a row changes but for its stock only
\* when a sync writes it.
Grows ==
    /\ version' \in Versions /\ version' >= version /\ row' \in [Products -> Rows]
    /\ \A v \in Versions : v <= version => published'[v] = published[v]
    /\ \A p \in Products : \/ /\ row'[p].gen = row[p].gen
                               /\ row'[p].look = row[p].look /\ row'[p].on = row[p].on
                            \/ row'[p].gen > row[p].gen

\* So a copy stays what it is.
LEMMA CopyStays ==
    ASSUME SharedOK, Grows, NEW v \in Versions, v <= version, NEW p \in Products,
           NEW copy \in Rows, Copy(v, p, copy)
    PROVE  /\ published'[v][p] <= copy.gen /\ copy.gen <= row'[p].gen
           /\ copy.gen = row'[p].gen => copy.look = row'[p].look
<1>1. row[p].gen \in Nat /\ row'[p].gen \in Nat /\ copy.gen \in Nat
  BY DEF SharedOK, Grows, Rows
<1>2. published'[v] = published[v]
  BY DEF Grows
<1> QED
  BY <1>1, <1>2 DEF Grows, Copy

\* What holds of a call goes on to hold while others take steps.
LEMMA OthersStay ==
    ASSUME CallsOK, SharedOK, Grows, NEW q \in Readers, target' = target, pc'[q] = pc[q], ver'[q] = ver[q], ids'[q] = ids[q],
           have'[q] = have[q], fetched'[q] = fetched[q], held'[q] = held[q]
    PROVE  CallOK(q)'
<1>1. CallOK(q)
  BY DEF CallsOK
<1>2. ver[q] \in Versions /\ version \in Versions /\ version' \in Versions /\ ver[q] <= version'
  BY <1>1 DEF CallOK, SharedOK, Grows, Versions
<1>3. CallsInOrder!(q)'
  BY <1>1 DEF CallOK, IsList, HasQueryLock, ListKey, QueryLock
<1>4. IsRowMap(have[q])' /\ IsRowMap(fetched[q])'
  BY <1>1 DEF CallOK, IsRowMap
<1>5. /\ \A p \in DOMAIN have[q] : p \in Products /\ have[q][p] \in Rows
      /\ \A p \in DOMAIN fetched[q] : p \in Products /\ fetched[q][p] \in Rows
  BY <1>1 DEF CallOK, IsRowMap
<1>6. \A p \in DOMAIN have'[q] : Copy(ver[q], p, have[q][p])'
  BY <1>1, <1>2, <1>5, CopyStays DEF CallOK, Copy
<1>7. \A p \in DOMAIN fetched'[q] : Copy(ver[q], p, fetched[q][p])'
  BY <1>1, <1>2, <1>5, CopyStays DEF CallOK, Copy
<1> QED
  BY <1>1, <1>2, <1>3, <1>4, <1>6, <1>7 DEF CallOK

\* A step of a call writes no row and publishes no version.
LEMMA ReadQuiet ==
    ASSUME NEW r \in Readers, Read(r)
    PROVE  /\ row' = row /\ version' = version /\ published' = published /\ target' = target
BY DEF Read, ReadVersion, ListHit, ListMiss, AcquireQueryLock, MissQueryLock, GetCards,
   AcquireHydrationLock, MissHydrationLock, Reread, Fetch, FetchFails, Store, Unlock, db, writer,
   syncs

\* Steps that leave rows and versions alone make nothing grow.
LEMMA QuietGrows ==
    ASSUME SharedOK, row' = row, version' = version, published' = published PROVE Grows
BY DEF Grows, SharedOK, Versions

\* A step of one call keeps the calls in order if it keeps its own.
LEMMA CallStep ==
    ASSUME CallsOK, SharedOK, NEW r \in Readers, Read(r), CallOK(r)'
    PROVE  CallsOK'
<1>1. Elsewhere(r)
  BY ReadIsLocal
<1>2. Grows
  BY ReadQuiet, QuietGrows
<1>3. \A q \in Readers : CallOK(q)'
  BY <1>1, <1>2, OthersStay DEF Elsewhere
<1> QED
  BY <1>1, <1>3 DEF CallsOK, Elsewhere

\* What a call gets from the cache are rows of the version it has read, or later ones.
LEMMA CardsFit ==
    ASSUME SharedOK, NEW r \in Readers, CallOK(r), NEW wanted, wanted \subseteq Products, NEW hits,
           hits = CachedCards(r, wanted) \/ hits = NoRows
    PROVE  /\ IsRowMap(hits) /\ DOMAIN hits \subseteq wanted
           /\ \A p \in DOMAIN hits : Copy(ver[r], p, hits[p])
<1>1. CASE hits = NoRows
  BY <1>1 DEF NoRows, IsRowMap
<1>2. CASE hits = CachedCards(r, wanted)
  <2>1. \A p \in wanted : cards[<<ver[r], p>>] # None =>
          cards[<<ver[r], p>>] \in Rows /\ Copy(ver[r], p, cards[<<ver[r], p>>])
    BY DEF SharedOK, CallOK, CardKeys
  <2>2. /\ DOMAIN hits = {q \in wanted : cards[<<ver[r], q>>] # None}
        /\ \A p \in DOMAIN hits : hits[p] = cards[<<ver[r], p>>]
        /\ hits = [p \in DOMAIN hits |-> hits[p]]
    BY <1>2 DEF CachedCards
  <2> QED
    BY <2>1, <2>2 DEF IsRowMap
<1> QED
  BY <1>1, <1>2

\* Two maps of such rows make one.
LEMMA WithFits ==
    ASSUME NEW f, NEW g, IsRowMap(f), IsRowMap(g), NEW v,
           \A p \in DOMAIN f : Copy(v, p, f[p]), \A p \in DOMAIN g : Copy(v, p, g[p])
    PROVE  /\ IsRowMap(With(f, g)) /\ DOMAIN With(f, g) = DOMAIN f \union DOMAIN g
           /\ \A p \in DOMAIN With(f, g) : Copy(v, p, With(f, g)[p])
<1>1. /\ DOMAIN With(f, g) = DOMAIN f \union DOMAIN g
      /\ \A p \in DOMAIN f \union DOMAIN g :
           With(f, g)[p] = IF p \in DOMAIN g THEN g[p] ELSE f[p]
      /\ With(f, g) = [p \in DOMAIN With(f, g) |-> With(f, g)[p]]
  BY DEF With
<1> HIDE DEF With
<1> QED
  BY <1>1 DEF IsRowMap

-----------------------------------------------------------------------------
(* The lock of a query and the lock of a set of cards *)

\* The names of locks.
LEMMA LockNames ==
    ASSUME NEW r \in Readers, CallOK(r)
    PROVE  /\ IsList(r) => QueryLock(ListKey(r)) \in LockKeys /\ ListKey(r) \in ListKeys
           /\ Missing(r) \in SUBSET Products
           /\ HydrationLock(ver[r], Missing(r)) \in LockKeys
           /\ HydrationLock(ver[r], Missing(r)) # QueryLock(ListKey(r))
<1>1. ASSUME IsList(r) PROVE ListKey(r) \in ListKeys
  BY <1>1 DEF CallOK, IsList, ListKey, ListKeys
<1>2. Missing(r) \in SUBSET Products
  BY DEF CallOK, Missing
<1>3. HydrationLock(ver[r], Missing(r)) \in LockKeys
  BY <1>2 DEF CallOK, LockKeys
<1>4. HydrationLock(ver[r], Missing(r)) # QueryLock(ListKey(r))
  BY DEF HydrationLock, QueryLock
<1> QED
  BY <1>1, <1>2, <1>3, <1>4 DEF LockKeys

-----------------------------------------------------------------------------
(* What a step leaves true of its own call *)

\* It reads the version, then its list or nothing.
LEMMA ListOwn ==
    ASSUME CallsOK, SharedOK, NEW r \in Readers, ReadVersion(r) \/ ListHit(r) \/ ListMiss(r)
    PROVE  CallOK(r)'
<1>1. /\ CallOK(r) /\ version \in Versions /\ version' = version /\ target' = target
      /\ row' = row /\ published' = published
  BY ReadQuiet DEF CallsOK, SharedOK, Read
<1>2. /\ have' = have /\ fetched' = fetched /\ held' = held
  BY DEF ReadVersion, ListHit, ListMiss
<1> USE DEF Step
<1>3. CASE ReadVersion(r)
  <2>1. /\ pc[r] = "start" /\ pc'[r] = (IF IsList(r) THEN "list" ELSE "cards")
        /\ ver'[r] = version /\ ids'[r] = (IF IsList(r) THEN {} ELSE {target[r]})
    BY <1>3 DEF ReadVersion, CallsOK
  <2>2. DOMAIN have[r] = {} /\ DOMAIN fetched[r] = {} /\ held[r] = None
    BY <1>1, <2>1 DEF CallOK
  <2>3. ids'[r] \in SUBSET Products
    BY <1>1, <2>1 DEF CallOK, IsList
  <2> QED
    BY <1>1, <1>2, <2>1, <2>2, <2>3 DEF CallOK, IsList, Labels, Versions, IsRowMap
<1>4. CASE ListHit(r)
  <2>1. /\ pc[r] = "list" /\ pc'[r] = "cards" /\ ver' = ver
        /\ lists[ListKey(r)] # None /\ ids'[r] = lists[ListKey(r)].ids
    BY <1>4 DEF ListHit, CallsOK
  <2>2. ids'[r] \in SUBSET Products
    BY <1>1, <2>1, LockNames DEF CallOK, SharedOK
  <2> QED
    BY <1>1, <1>2, <2>1, <2>2 DEF CallOK, IsList, Labels, IsRowMap, Copy
<1>5. CASE ListMiss(r)
  <2>1. pc[r] = "list" /\ pc'[r] = "trylock" /\ ver' = ver /\ ids' = ids
    BY <1>5 DEF ListMiss, CallsOK
  <2> QED
    BY <1>1, <1>2, <2>1 DEF CallOK, IsList, Labels, IsRowMap, Copy
<1> QED
  BY <1>3, <1>4, <1>5

\* It takes a lock, or does without.
LEMMA LockOwn ==
    ASSUME CallsOK, SharedOK, NEW r \in Readers,
           \/ AcquireQueryLock(r) \/ MissQueryLock(r)
           \/ AcquireHydrationLock(r) \/ MissHydrationLock(r)
    PROVE  CallOK(r)'
<1>1. /\ CallOK(r) /\ version' = version /\ target' = target
      /\ row' = row /\ published' = published
  BY ReadQuiet DEF CallsOK, Read
<1>2. ver' = ver /\ ids' = ids /\ have' = have /\ fetched' = fetched
  BY DEF AcquireQueryLock, MissQueryLock, AcquireHydrationLock, MissHydrationLock
<1> USE DEF Step
<1>3. CASE AcquireQueryLock(r)
  <2>1. /\ pc[r] \in {"trylock", "retrylock"} /\ pc'[r] = "fetch"
        /\ held'[r] = QueryLock(ListKey(r))
    BY <1>3 DEF AcquireQueryLock, TakeLock, CallsOK
  <2> QED
    BY <1>1, <1>2, <2>1, LockNames DEF CallOK, IsList, Labels, IsRowMap, Copy
<1>4. CASE MissQueryLock(r)
  <2>1. /\ pc[r] \in {"trylock", "retrylock"} /\ pc'[r] \in {"retrylock", "done"}
        /\ held' = held
    BY <1>4 DEF MissQueryLock, CallsOK
  <2> QED
    BY <1>1, <1>2, <2>1 DEF CallOK, IsList, Labels, IsRowMap, Copy
<1>5. CASE AcquireHydrationLock(r)
  <2>1. /\ pc[r] = "hydrate" /\ pc'[r] = "fetch"
        /\ held'[r] = HydrationLock(ver[r], Missing(r))
    BY <1>5 DEF AcquireHydrationLock, TakeLock, CallsOK
  <2>2. ~HasQueryLock(r)'
    BY <1>1, <1>2, <2>1, LockNames DEF HasQueryLock, ListKey
  <2> QED
    BY <1>1, <1>2, <2>1, <2>2, LockNames DEF CallOK, IsList, Labels, IsRowMap, Copy
<1>6. CASE MissHydrationLock(r)
  <2>1. pc[r] = "hydrate" /\ pc'[r] = "reread" /\ held' = held
    BY <1>6 DEF MissHydrationLock, CallsOK
  <2> QED
    BY <1>1, <1>2, <2>1 DEF CallOK, IsList, Labels, IsRowMap, Copy
<1> QED
  BY <1>3, <1>4, <1>5, <1>6

\* It gets cards, from the cache at first or once more.
LEMMA CardsOwn ==
    ASSUME CallsOK, SharedOK, NEW r \in Readers, GetCards(r) \/ Reread(r)
    PROVE  CallOK(r)'
<1>1. /\ CallOK(r) /\ version' = version /\ target' = target
      /\ row' = row /\ published' = published
  BY ReadQuiet DEF CallsOK, Read
<1>2. ver' = ver /\ ids' = ids /\ fetched' = fetched /\ held' = held
  BY DEF GetCards, Reread
<1> USE DEF Step
<1>3. CASE GetCards(r)
  <2>1. PICK hits \in {CachedCards(r, ids[r]), NoRows} :
          /\ have'[r] = hits /\ pc[r] = "cards"
          /\ pc'[r] = IF ids[r] \subseteq DOMAIN hits THEN "done"
                      ELSE IF IsList(r) THEN "hydrate" ELSE "fetch"
    BY <1>3 DEF GetCards, CallsOK
  <2>2. /\ pc'[r] \in {"done", "hydrate", "fetch"} /\ (pc'[r] = "hydrate" => IsList(r))
        /\ pc'[r] = "fetch" => ~IsList(r)
    BY <2>1, Zenon
  <2>3. IsRowMap(hits) /\ \A p \in DOMAIN hits : Copy(ver[r], p, hits[p])
    <3>1. ids[r] \subseteq Products /\ (hits = CachedCards(r, ids[r]) \/ hits = NoRows)
      BY <1>1 DEF CallOK
    <3> QED
      BY <1>1, <3>1, CardsFit, Zenon
  <2>4. IsRowMap(have[r])' /\ \A p \in DOMAIN have'[r] : Copy(ver[r], p, have[r][p])'
    BY <1>1, <1>2, <2>1, <2>3 DEF IsRowMap, Copy
  <2> QED
    BY <1>1, <1>2, <2>1, <2>2, <2>4 DEF CallOK, IsList, HasQueryLock, Labels, IsRowMap, Copy
<1>4. CASE Reread(r)
  <2>1. PICK hits \in {CachedCards(r, Missing(r)), NoRows} :
          have'[r] = With(have[r], hits) /\ pc[r] = "reread" /\ pc'[r] = "done"
    BY <1>4 DEF Reread, CallsOK
  <2>0. /\ Missing(r) \subseteq Products
        /\ hits = CachedCards(r, Missing(r)) \/ hits = NoRows
    BY <1>1 DEF CallOK, Missing
  <2>2. IsRowMap(hits) /\ \A p \in DOMAIN hits : Copy(ver[r], p, hits[p])
    BY <1>1, <2>0, CardsFit, Zenon
  <2>3. IsRowMap(have[r]) /\ \A p \in DOMAIN have[r] : Copy(ver[r], p, have[r][p])
    BY <1>1 DEF CallOK
  <2>4. IsRowMap(have[r])' /\ \A p \in DOMAIN have'[r] : Copy(ver[r], p, have[r][p])'
    <3>1. /\ IsRowMap(With(have[r], hits))
          /\ \A p \in DOMAIN With(have[r], hits) : Copy(ver[r], p, With(have[r], hits)[p])
      BY <2>2, <2>3, WithFits
    <3> QED
      BY <1>1, <1>2, <2>1, <3>1 DEF IsRowMap, Copy
  <2> QED
    BY <1>1, <1>2, <2>1, <2>4 DEF CallOK, IsList, Labels, IsRowMap, Copy
<1> QED
  BY <1>3, <1>4

\* It queries the database, stores what it has read, and releases its lock.
LEMMA FetchOwn ==
    ASSUME CallsOK, SharedOK, NEW r \in Readers,
           Fetch(r) \/ FetchFails(r) \/ Store(r) \/ Unlock(r)
    PROVE  CallOK(r)'
<1>1. /\ CallOK(r) /\ version' = version /\ target' = target /\ ver' = ver /\ ids' = ids
      /\ row' = row /\ published' = published
  BY ReadQuiet DEF CallsOK, Read, Fetch, FetchFails, Store, Unlock
<1> USE DEF Step
<1>2. CASE Fetch(r)
  <2> DEFINE rows == [p \in Wanted(r) |-> row[p]]
  <2>1. /\ pc[r] = "fetch" /\ pc'[r] = "store" /\ held' = held
        /\ fetched'[r] = rows /\ have'[r] = With(have[r], rows)
    BY <1>2 DEF Fetch, CallsOK
  <2>2. Wanted(r) \in SUBSET Products
    BY DEF Wanted, OnSale, Page
  <2>3. IsRowMap(rows) /\ \A p \in DOMAIN rows : Copy(ver[r], p, rows[p])
    BY <1>1, <2>2 DEF IsRowMap, SharedOK, CallOK, Copy, Rows
  <2>4. IsRowMap(have[r]) /\ \A p \in DOMAIN have[r] : Copy(ver[r], p, have[r][p])
    BY <1>1 DEF CallOK
  <2> HIDE DEF rows
  <2>5. IsRowMap(have[r])' /\ \A p \in DOMAIN have'[r] : Copy(ver[r], p, have[r][p])'
    <3>1. /\ IsRowMap(With(have[r], rows))
          /\ \A p \in DOMAIN With(have[r], rows) : Copy(ver[r], p, With(have[r], rows)[p])
      BY <2>3, <2>4, WithFits
    <3> QED
      BY <1>1, <2>1, <3>1 DEF IsRowMap, Copy
  <2>6. IsRowMap(fetched[r])' /\ \A p \in DOMAIN fetched'[r] : Copy(ver[r], p, fetched[r][p])'
    BY <1>1, <2>1, <2>3 DEF IsRowMap, Copy
  <2>7. HasQueryLock(r)' = HasQueryLock(r)
    BY <1>1, <2>1 DEF HasQueryLock, IsList, ListKey
  <2> QED
    BY <1>1, <2>1, <2>5, <2>6, <2>7 DEF CallOK, Labels, Copy
<1>3. CASE FetchFails(r)
  <2>1. /\ pc[r] = "fetch" /\ pc'[r] = "unlock" /\ held' = held
        /\ fetched' = fetched /\ have'[r] = NoRows
    BY <1>3 DEF FetchFails, AfterFetchFailure, CallsOK
  <2> QED
    BY <1>1, <2>1 DEF CallOK, Labels, IsRowMap, Copy, NoRows
<1>4. CASE Store(r)
  <2>1. /\ pc[r] = "store" /\ pc'[r] = "unlock" /\ held' = held
        /\ have' = have /\ fetched'[r] = NoRows
    BY <1>4 DEF Store, CallsOK
  <2> QED
    BY <1>1, <2>1 DEF CallOK, Labels, IsRowMap, Copy, NoRows
<1>5. CASE Unlock(r)
  <2>1. /\ pc[r] = "unlock" /\ pc'[r] = "done" /\ held'[r] = None
        /\ have' = have /\ fetched' = fetched
    BY <1>5 DEF Unlock, CallsOK
  <2> QED
    BY <1>1, <2>1 DEF CallOK, Labels, IsRowMap, Copy
<1> QED
  BY <1>2, <1>3, <1>4, <1>5

-----------------------------------------------------------------------------
(* What a step leaves true of the rows, their copies and the locks *)

\* What touches neither rows nor copies keeps what holds of them.
LEMMA QuietShared ==
    ASSUME SharedOK, UNCHANGED <<db, cards, lists, writer, spoiled>>,
           locks' \subseteq LockKeys, expiries' \in 0 .. MaxExpiries
    PROVE  SharedOK'
<1>1. /\ row' = row /\ version' = version /\ cards' = cards /\ lists' = lists
      /\ bpc' = bpc /\ bver' = bver /\ written' = written /\ bumped' = bumped
      /\ spoiled' = spoiled /\ published' = published
  BY DEF db, writer, syncs
<1>2. StaleIsPending'
  BY <1>1 DEF SharedOK, StaleIsPending, Pending, Outdated
<1>3. \A v \in Versions, p \in Products :
        cards'[<<v, p>>] # None => v <= version' /\ Copy(v, p, cards[<<v, p>>])'
  BY <1>1 DEF SharedOK, Copy
<1> QED
  BY <1>1, <1>2, <1>3 DEF SharedOK

\* As many calls hold a lock as before, and it still exists if it did.
LEMMA SameHolders ==
    ASSUME LocksOK, SharedOK, held' = held, locks \subseteq locks', expiries' = expiries
    PROVE  LocksOK'
<1> SUFFICES ASSUME NEW lock \in LockKeys \ {None}
             PROVE  FewHolders(Holders(lock), Bound(lock))'
  BY DEF LocksOK
<1>1. FewHolders(Holders(lock), Bound(lock))
  BY DEF LocksOK
<1>2. Holders(lock)' = Holders(lock)
  BY DEF Holders
<1>3. Bound(lock) \in Nat /\ Bound(lock)' \in Nat /\ Bound(lock) <= Bound(lock)'
  BY DEF Bound, SharedOK
<1> QED
  BY <1>1, <1>2, <1>3, FS_CardinalityType DEF FewHolders

\* A lock that is taken has one holder more, which did not hold another.
LEMMA OneHolderMore ==
    ASSUME LocksOK, SharedOK, CallsOK, NEW r \in Readers, held[r] = None,
           NEW taken \in LockKeys, TakeLock(r, taken)
    PROVE  LocksOK'
<1> SUFFICES ASSUME NEW lock \in LockKeys \ {None}
             PROVE  FewHolders(Holders(lock), Bound(lock))'
  BY DEF LocksOK
<1>1. FewHolders(Holders(lock), Bound(lock))
  BY DEF LocksOK
<1>2. /\ taken \notin locks /\ locks' = locks \union {taken} /\ expiries' = expiries
      /\ held' = [held EXCEPT ![r] = taken]
  BY DEF TakeLock, LockIsFree
<1>3. held = [q \in Readers |-> held[q]] /\ expiries \in Nat
  BY DEF CallsOK, SharedOK
<1>4. CASE lock # taken
  <2>1. Holders(lock)' = Holders(lock)
    BY <1>2, <1>3, <1>4 DEF Holders
  <2>2. Bound(lock)' = Bound(lock)
    BY <1>2, <1>4 DEF Bound
  <2> QED
    BY <1>1, <2>1, <2>2 DEF FewHolders
<1>5. CASE lock = taken
  <2>1. Holders(lock)' = Holders(lock) \union {r}
    BY <1>2, <1>3, <1>5 DEF Holders
  <2>2. Bound(lock)' = Bound(lock) + 1 /\ Bound(lock) \in Nat
    BY <1>2, <1>3, <1>5 DEF Bound
  <2>3. r \notin Holders(lock)
    BY <1>5 DEF Holders
  <2>4. /\ IsFiniteSet(Holders(lock) \union {r})
        /\ Cardinality(Holders(lock) \union {r}) = Cardinality(Holders(lock)) + 1
        /\ Cardinality(Holders(lock)) \in Nat
    BY <1>1, <2>3, FS_AddElement, FS_CardinalityType DEF FewHolders
  <2> QED
    BY <1>1, <2>1, <2>2, <2>4 DEF FewHolders
<1> QED
  BY <1>4, <1>5

\* A call that gives up its lock is a holder less, whoever held the key it deletes.
LEMMA OneHolderLess ==
    ASSUME LocksOK, SharedOK, CallsOK, NEW r \in Readers, Unlock(r)
    PROVE  LocksOK'
<1> SUFFICES ASSUME NEW lock \in LockKeys \ {None}
             PROVE  FewHolders(Holders(lock), Bound(lock))'
  BY DEF LocksOK
<1>1. FewHolders(Holders(lock), Bound(lock))
  BY DEF LocksOK
<1>2. /\ locks \ {held[r]} \subseteq locks' /\ locks' \subseteq locks /\ expiries' = expiries
      /\ held' = [held EXCEPT ![r] = None]
  BY DEF Unlock
<1>3. held = [q \in Readers |-> held[q]] /\ expiries \in Nat
  BY DEF CallsOK, SharedOK
<1>4. CASE lock # held[r]
  <2>1. Holders(lock)' = Holders(lock)
    BY <1>2, <1>3, <1>4 DEF Holders
  <2>2. Bound(lock)' = Bound(lock)
    BY <1>2, <1>4 DEF Bound
  <2> QED
    BY <1>1, <2>1, <2>2 DEF FewHolders
<1>5. CASE lock = held[r]
  <2>1. Holders(lock)' = Holders(lock) \ {r} /\ r \in Holders(lock)
    BY <1>2, <1>3, <1>5 DEF Holders
  <2>2. Bound(lock)' >= Bound(lock) - 1 /\ Bound(lock) \in Nat /\ Bound(lock)' \in Nat
    BY <1>2, <1>3, <1>5 DEF Bound
  <2>3. /\ IsFiniteSet(Holders(lock) \ {r})
        /\ Cardinality(Holders(lock) \ {r}) = Cardinality(Holders(lock)) - 1
        /\ Cardinality(Holders(lock)) \in Nat
    BY <1>1, <2>1, FS_RemoveElement, FS_CardinalityType DEF FewHolders
  <2> QED
    BY <1>1, <2>1, <2>2, <2>3 DEF FewHolders
<1> QED
  BY <1>4, <1>5

\* A lock that expires while it is held is counted.
LEMMA ExpiredIsCounted ==
    ASSUME LocksOK, SharedOK, NEW gone, LockExpires(gone)
    PROVE  LocksOK'
<1> SUFFICES ASSUME NEW lock \in LockKeys \ {None}
             PROVE  FewHolders(Holders(lock), Bound(lock))'
  BY DEF LocksOK
<1>1. FewHolders(Holders(lock), Bound(lock)) /\ Cardinality(Holders(lock)) \in Nat
  BY FS_CardinalityType DEF LocksOK, FewHolders
<1>2. /\ locks' = locks \ {gone} /\ held' = held
      /\ expiries' = IF Holders(gone) = {} THEN expiries ELSE expiries + 1
  BY DEF LockExpires, reader
<1>3. Holders(lock)' = Holders(lock)
  BY <1>2 DEF Holders
<1>4. expiries \in Nat
  BY DEF SharedOK
<1>5. CASE lock = gone /\ Holders(gone) = {}
  <2>1. Cardinality(Holders(lock)) = 0 /\ Bound(lock)' \in Nat
    BY <1>2, <1>4, <1>5, FS_EmptySet DEF Bound
  <2> QED
    BY <1>1, <1>3, <2>1 DEF FewHolders
<1>6. CASE ~(lock = gone /\ Holders(gone) = {})
  <2>1. Bound(lock)' \in Nat /\ Bound(lock) \in Nat /\ Bound(lock)' >= Bound(lock)
    BY <1>2, <1>4, <1>6 DEF Bound
  <2> QED
    BY <1>1, <1>3, <2>1 DEF FewHolders
<1> QED
  BY <1>5, <1>6

\* What a call stores are rows of its version; a card that its row has left
\* behind by then is spoiled.
LEMMA StoreShared ==
    ASSUME CallsOK, SharedOK, NEW r \in Readers, Store(r)
    PROVE  SharedOK'
<1>1. CallOK(r)
  BY DEF CallsOK
<1>2. /\ row' = row /\ version' = version /\ locks' = locks /\ expiries' = expiries
      /\ bpc' = bpc /\ bver' = bver /\ written' = written /\ bumped' = bumped
      /\ published' = published /\ pc[r] = "store"
  BY DEF Store, db, writer, syncs, Step
<1>3. PICK kept \in SUBSET DOMAIN fetched[r] :
        /\ cards' = [key \in CardKeys |-> IF key \in {ver[r]} \X kept THEN fetched[r][key[2]]
                                          ELSE cards[key]]
        /\ spoiled' = (spoiled \ ({ver[r]} \X kept))
                      \union {key \in {ver[r]} \X kept : fetched[r][key[2]] # row[key[2]]}
  BY DEF Store
<1>4. /\ kept \subseteq Products /\ ver[r] \in Versions /\ ver[r] <= version
      /\ \A p \in kept : fetched[r][p] \in Rows /\ Copy(ver[r], p, fetched[r][p])
  BY <1>1 DEF CallOK, IsRowMap
<1>5. ASSUME NEW v \in Versions, NEW p \in Products
      PROVE  /\ (v = ver[r] /\ p \in kept) => /\ cards'[<<v, p>>] = fetched[r][p]
                                              /\ fetched[r][p] # row[p] => <<v, p>> \in spoiled'
             /\ ~(v = ver[r] /\ p \in kept) => /\ cards'[<<v, p>>] = cards[<<v, p>>]
                                               /\ <<v, p>> \in spoiled => <<v, p>> \in spoiled'
  BY <1>3 DEF CardKeys
<1>6. cards' \in [CardKeys -> Rows \union {None}] /\ spoiled' \subseteq CardKeys
  <2>1. ASSUME NEW v \in Versions, NEW p \in Products PROVE cards'[<<v, p>>] \in Rows \union {None}
    <3>1. cards[<<v, p>>] \in Rows \union {None}
      BY DEF SharedOK, CardKeys
    <3>2. CASE v = ver[r] /\ p \in kept
      BY <1>4, <1>5, <3>2
    <3>3. CASE ~(v = ver[r] /\ p \in kept)
      BY <1>5, <3>1, <3>3
    <3> QED
      BY <3>2, <3>3
  <2>2. spoiled' \subseteq CardKeys
    BY <1>3, <1>4 DEF SharedOK, CardKeys
  <2>3. \A key \in CardKeys : cards'[key] \in Rows \union {None}
    BY <2>1 DEF CardKeys
  <2> QED
    BY <1>3, <2>2, <2>3
<1>7. lists' \in [ListKeys -> [ids : SUBSET Products] \union {None}]
  <2>1. lists' = lists \/ lists' = [lists EXCEPT ![ListKey(r)] = [ids |-> DOMAIN fetched[r]]]
    BY DEF Store
  <2>2. [ids |-> DOMAIN fetched[r]] \in [ids : SUBSET Products]
    <3>1. DOMAIN fetched[r] \subseteq Products
      BY <1>1 DEF CallOK, IsRowMap
    <3> QED
      BY <3>1
  <2> QED
    BY <2>1, <2>2 DEF SharedOK
<1>8. \A v \in Versions, p \in Products :
        cards'[<<v, p>>] # None => v <= version' /\ Copy(v, p, cards[<<v, p>>])'
  <2> SUFFICES ASSUME NEW v \in Versions, NEW p \in Products, cards'[<<v, p>>] # None
               PROVE  v <= version /\ Copy(v, p, cards'[<<v, p>>])
    BY <1>2 DEF Copy
  <2>1. CASE v = ver[r] /\ p \in kept
    BY <1>4, <1>5, <2>1
  <2>2. CASE ~(v = ver[r] /\ p \in kept)
    BY <1>5, <2>2 DEF SharedOK
  <2> QED
    BY <2>1, <2>2
<1>9. StaleIsPending'
  <2> SUFFICES ASSUME NEW p \in Products, cards'[<<version, p>>] # None,
                      cards'[<<version, p>>] # row[p]
               PROVE  Pending(p)'
    BY <1>2 DEF StaleIsPending
  <2> QED
    BY <1>2, <1>5 DEF SharedOK, StaleIsPending, Pending, Outdated
<1> QED
  BY <1>2, <1>6, <1>7, <1>8, <1>9 DEF SharedOK

\* CacheParts of the next state.
LEMMA CachePartsNext == CacheInv' <=> CallsOK' /\ SharedOK' /\ LocksOK'
BY CacheParts, PTL

\* A step of a call that sets at most a lock keeps what holds of the rows.
LEMMA ReadShared == ASSUME CallsOK, SharedOK, NEW r \in Readers, Read(r) PROVE SharedOK'
<1>1. CallOK(r) /\ locks \subseteq LockKeys /\ expiries \in 0 .. MaxExpiries
  BY DEF CallsOK, SharedOK
<1> USE DEF redis, db, writer, syncs, Step
<1>2. CASE Store(r)
  BY <1>2, StoreShared
<1>3. ASSUME UNCHANGED <<db, cards, lists, writer, spoiled>>, expiries' = expiries,
             locks' \subseteq LockKeys
      PROVE  SharedOK'
  BY <1>1, <1>3, QuietShared
<1>4. CASE ReadVersion(r) \/ ListHit(r) \/ ListMiss(r) \/ GetCards(r) \/ Reread(r)
           \/ Fetch(r) \/ FetchFails(r)
  BY <1>1, <1>3, <1>4 DEF ReadVersion, ListHit, ListMiss, GetCards, Reread, Fetch, FetchFails
<1>5. ASSUME NEW lock \in LockKeys, TakeLock(r, lock) \/ MissLock(lock)
      PROVE  locks' \subseteq LockKeys /\ cards' = cards /\ lists' = lists /\ expiries' = expiries
  BY <1>1, <1>5 DEF TakeLock, MissLock
<1>6. CASE AcquireQueryLock(r) \/ MissQueryLock(r)
  <2>1. QueryLock(ListKey(r)) \in LockKeys
    BY <1>1, <1>6, LockNames DEF CallOK, AcquireQueryLock, MissQueryLock
  <2> QED
    BY <1>3, <1>5, <1>6, <2>1 DEF AcquireQueryLock, MissQueryLock
<1>7. CASE AcquireHydrationLock(r) \/ MissHydrationLock(r)
  <2>1. HydrationLock(ver[r], Missing(r)) \in LockKeys
    BY <1>1, LockNames
  <2> QED
    BY <1>3, <1>5, <1>7, <2>1 DEF AcquireHydrationLock, MissHydrationLock
<1>8. CASE Unlock(r)
  BY <1>1, <1>3, <1>8 DEF Unlock
<1> QED
  BY <1>2, <1>4, <1>6, <1>7, <1>8 DEF Read

\* It takes or gives up at most its own lock.
LEMMA ReadLocks ==
    ASSUME CallsOK, SharedOK, LocksOK, NEW r \in Readers, Read(r)
    PROVE  LocksOK'
<1>1. CallOK(r)
  BY DEF CallsOK
<1> USE DEF redis, Step
<1>2. CASE ReadVersion(r) \/ ListHit(r) \/ ListMiss(r) \/ GetCards(r) \/ Reread(r)
           \/ Fetch(r) \/ FetchFails(r) \/ Store(r)
  BY <1>2, SameHolders DEF ReadVersion, ListHit, ListMiss, GetCards, Reread, Fetch, FetchFails, Store
<1>3. CASE MissQueryLock(r) \/ MissHydrationLock(r)
  BY <1>3, SameHolders DEF MissQueryLock, MissHydrationLock, MissLock
<1>4. CASE AcquireQueryLock(r)
  <2>1. QueryLock(ListKey(r)) \in LockKeys /\ held[r] = None
    BY <1>1, <1>4, LockNames DEF CallOK, AcquireQueryLock
  <2> QED
    BY <1>4, <2>1, OneHolderMore DEF AcquireQueryLock
<1>5. CASE AcquireHydrationLock(r)
  <2>1. HydrationLock(ver[r], Missing(r)) \in LockKeys /\ held[r] = None
    BY <1>1, <1>5, LockNames DEF CallOK, AcquireHydrationLock
  <2> QED
    BY <1>5, <2>1, OneHolderMore DEF AcquireHydrationLock
<1>6. CASE Unlock(r)
  BY <1>6, OneHolderLess
<1> QED
  BY <1>2, <1>3, <1>4, <1>5, <1>6 DEF Read

\* A step of a call keeps the whole of CacheInv.
LEMMA ReadStep == ASSUME CacheInv, NEW r \in Readers, Read(r) PROVE CacheInv'
<1>1. CallsOK /\ SharedOK /\ LocksOK
  BY CacheParts
<1>2. CallOK(r)'
  BY <1>1, ListOwn, LockOwn, CardsOwn, FetchOwn DEF Read
<1>3. CallsOK'
  BY <1>1, <1>2, CallStep
<1> QED
  BY <1>1, <1>3, ReadShared, ReadLocks, CachePartsNext

-----------------------------------------------------------------------------
(* The steps of the writers and of the clock *)

\* A step that leaves the calls alone leaves them in order, unless a version is lost.
LEMMA CallsStay ==
    ASSUME CallsOK, SharedOK, UNCHANGED reader, Grows
    PROVE  CallsOK'
<1>1. /\ target' = target /\ pc' = pc /\ ver' = ver /\ ids' = ids
      /\ have' = have /\ fetched' = fetched /\ held' = held
  BY DEF reader
<1>2. \A q \in Readers : CallOK(q)'
  BY <1>1, OthersStay
<1> QED
  BY <1>1, <1>2 DEF CallsOK

\* The cards that no step touches stay copies of their rows.
LEMMA CardsStay ==
    ASSUME SharedOK, Grows, cards' = cards
    PROVE  \A v \in Versions, p \in Products :
             cards'[<<v, p>>] # None => v <= version' /\ Copy(v, p, cards[<<v, p>>])'
<1> SUFFICES ASSUME NEW v \in Versions, NEW p \in Products, cards[<<v, p>>] # None
             PROVE  v <= version' /\ Copy(v, p, cards[<<v, p>>])'
  OBVIOUS
<1>1. /\ v <= version /\ Copy(v, p, cards[<<v, p>>]) /\ cards[<<v, p>>] \in Rows
  BY DEF SharedOK, CardKeys
<1>2. v <= version'
  BY <1>1 DEF SharedOK, Grows, Versions
<1> QED
  BY <1>1, <1>2, CopyStays DEF Copy

\* A checkout that has changed a row has its card still to delete.
LEMMA BuyShared ==
    ASSUME SharedOK, NEW b \in Buyers, Buy(b)
    PROVE  SharedOK' /\ Grows
<1> DEFINE sold == Bought[b]
<1>1. /\ version' = version /\ cards' = cards /\ lists' = lists /\ locks' = locks
      /\ expiries' = expiries /\ bver' = bver /\ written' = written /\ bumped' = bumped
      /\ spoiled' = spoiled /\ published' = published
      /\ bpc[b] = "start" /\ bpc' = [bpc EXCEPT ![b] = "bought"]
  BY DEF Buy, redis, syncs
<1>2. sold \in Products /\ row[sold] \in Rows /\ row[sold].qty > 0
  BY DEF SharedOK, Buy, InStock
<1>3. row' = [row EXCEPT ![sold] = [qty |-> row[sold].qty - 1, on |-> row[sold].on,
                                    look |-> row[sold].look, gen |-> row[sold].gen]]
  <2>1. row' = [row EXCEPT ![sold] = [row[sold] EXCEPT !.qty = row[sold].qty - 1]]
    BY Zenon DEF Buy
  <2>2. [row[sold] EXCEPT !.qty = row[sold].qty - 1]
          = [qty |-> row[sold].qty - 1, on |-> row[sold].on, look |-> row[sold].look,
             gen |-> row[sold].gen]
    BY <1>2 DEF Rows
  <2> QED
    BY <2>1, <2>2
<1>4. /\ row' \in [Products -> Rows]
      /\ \A p \in Products : /\ row'[p].gen = row[p].gen /\ row'[p].look = row[p].look
                             /\ row'[p].on = row[p].on
  BY <1>2, <1>3 DEF SharedOK, Rows
<1>5. StaleIsPending'
  <2> SUFFICES ASSUME NEW p \in Products, cards[<<version, p>>] \notin {None, row'[p]}
               PROVE  Pending(p)'
    BY <1>1 DEF StaleIsPending
  <2>1. CASE p = sold
    BY <1>1, <2>1 DEF Pending, SharedOK
  <2>2. CASE p # sold
    <3>1. row'[p] = row[p] /\ Pending(p)
      BY <1>3, <2>2 DEF SharedOK, StaleIsPending
    <3> QED
      BY <1>1, <3>1 DEF Pending, Outdated, SharedOK
  <2> QED
    BY <2>1, <2>2
<1> HIDE DEF sold
<1>6. Grows
  BY <1>1, <1>4 DEF Grows, SharedOK, Versions
<1>7. \A v \in Versions, p \in Products :
        cards'[<<v, p>>] # None => v <= version' /\ Copy(v, p, cards[<<v, p>>])'
  BY <1>1, <1>6, CardsStay
<1> QED
  BY <1>1, <1>4, <1>5, <1>6, <1>7 DEF SharedOK

\* It deletes the card of the version it has read, which is the current one or is of no use.
LEMMA InvalidationShared ==
    ASSUME SharedOK, NEW b \in Buyers, ReadVersionToInvalidate(b) \/ Invalidate(b)
    PROVE  SharedOK'
<1>1. /\ row' = row /\ version' = version /\ lists' = lists /\ locks' = locks
      /\ expiries' = expiries /\ written' = written /\ bumped' = bumped
      /\ published' = published
  BY DEF ReadVersionToInvalidate, Invalidate, redis, db, syncs
<1>2. CASE ReadVersionToInvalidate(b)
  <2>1. /\ bpc[b] = "bought" /\ bpc' = [bpc EXCEPT ![b] = "invalidating"]
        /\ bver' = [bver EXCEPT ![b] = version] /\ cards' = cards /\ spoiled' = spoiled
    BY <1>2 DEF ReadVersionToInvalidate, redis
  <2>2. ASSUME NEW p \in Products, Pending(p) PROVE Pending(p)'
    BY <1>1, <2>1, <2>2 DEF Pending, Outdated, SharedOK
  <2>3. StaleIsPending'
    BY <1>1, <2>1, <2>2 DEF SharedOK, StaleIsPending
  <2>4. \A v \in Versions, p \in Products :
          cards'[<<v, p>>] # None => v <= version' /\ Copy(v, p, cards[<<v, p>>])'
    BY <1>1, <2>1 DEF SharedOK, Copy
  <2> QED
    BY <1>1, <2>1, <2>3, <2>4 DEF SharedOK
<1>3. CASE Invalidate(b)
  <2>1. bpc[b] = "invalidating" /\ bpc' = [bpc EXCEPT ![b] = "done"] /\ bver' = bver
    BY <1>3 DEF Invalidate
  <2>2. \/ cards' = [cards EXCEPT ![CardOf(b)] = None] /\ spoiled' = spoiled \ {CardOf(b)}
        \/ cards' = cards /\ spoiled' = spoiled \union {CardOf(b)}
    BY <1>3 DEF Invalidate
  <2>3. CardOf(b) \in CardKeys
    BY DEF CardOf, CardKeys, SharedOK
  <2>4. cards' \in [CardKeys -> Rows \union {None}] /\ spoiled' \subseteq CardKeys
    BY <2>2, <2>3 DEF SharedOK
  <2>5. \A key \in CardKeys : cards'[key] # None =>
          cards'[key] = cards[key] /\ (key = CardOf(b) \/ key \in spoiled => key \in spoiled')
    BY <2>2 DEF SharedOK
  <2>6. \A v \in Versions, p \in Products :
          cards'[<<v, p>>] # None => v <= version' /\ Copy(v, p, cards[<<v, p>>])'
    BY <1>1, <2>5 DEF SharedOK, CardKeys, Copy
  <2>7. StaleIsPending'
    <3> SUFFICES ASSUME NEW p \in Products, cards'[<<version, p>>] \notin {None, row[p]}
                 PROVE  Pending(p)'
      BY <1>1 DEF StaleIsPending
    <3>1. <<version, p>> \in CardKeys
      BY DEF SharedOK, CardKeys
    <3>2. Pending(p)
      BY <2>5, <3>1 DEF SharedOK, StaleIsPending
    <3>3. CASE <<version, p>> = CardOf(b)
      BY <1>1, <2>5, <3>1, <3>3 DEF Pending
    <3>4. CASE <<version, p>> # CardOf(b)
      BY <1>1, <2>1, <2>5, <3>1, <3>2, <3>4 DEF Pending, Outdated, CardOf, SharedOK
    <3> QED
      BY <3>3, <3>4
  <2> QED
    BY <1>1, <2>1, <2>4, <2>6, <2>7 DEF SharedOK
<1> QED
  BY <1>2, <1>3

\* A row that is taken off sale is a row.
LEMMA OffSale ==
    ASSUME NEW old \in Rows, NEW n \in Nat
    PROVE  LET off == [old EXCEPT !.on = FALSE, !.gen = n] IN off \in Rows /\ off.gen = n
BY DEF Rows

\* A sync writes rows, and publishes them under a version that has no card yet.
LEMMA SyncShared ==
    ASSUME SharedOK, NEW c \in Syncs, Sync(c)
    PROVE  SharedOK' /\ Grows
<1>1. /\ cards' = cards /\ lists' = lists /\ locks' = locks /\ expiries' = expiries
      /\ bpc' = bpc /\ bver' = bver /\ spoiled' = spoiled
  BY DEF Sync, SyncWrite, DeactivateAbsent, BumpVersion, redis
<1>2. ASSUME version' = version, bumped' = bumped, published' = published,
             written' \in [Syncs -> SUBSET Products], row' \in [Products -> Rows],
             \A p \in Products : row'[p] = row[p] \/ row'[p].gen > row[p].gen
      PROVE  SharedOK' /\ Grows
  <2>1. Grows
    BY <1>2 DEF SharedOK, Grows, Versions
  <2>2. \A v \in Versions, p \in Products :
          cards'[<<v, p>>] # None => v <= version' /\ Copy(v, p, cards[<<v, p>>])'
    BY <1>1, <2>1, CardsStay
  <2>3. ASSUME NEW p \in Products
        PROVE  row[p].gen \in Nat /\ row'[p].gen \in Nat /\ row'[p].gen >= row[p].gen
    <3>1. row[p].gen \in Nat /\ row'[p].gen \in Nat
      BY <1>2 DEF SharedOK, Rows
    <3> QED
      BY <1>2, <3>1
  <2>4. \A v \in Versions, p \in Products : v <= version' => published'[v][p] <= row'[p].gen
    <3> SUFFICES ASSUME NEW v \in Versions, NEW p \in Products, v <= version
                 PROVE  published[v][p] <= row'[p].gen
      BY <1>2
    <3>1. published[v][p] \in Nat /\ published[v][p] <= row[p].gen
      BY DEF SharedOK
    <3> QED
      BY <2>3, <3>1
  <2>5. ASSUME NEW p \in Products, cards[<<version, p>>] \notin {None, row'[p]} PROVE Pending(p)'
    <3>1. CASE row'[p] = row[p]
      <4>1. Pending(p)
        BY <2>5, <3>1 DEF SharedOK, StaleIsPending
      <4> QED
        BY <1>1, <1>2, <3>1, <4>1 DEF Pending, Outdated
    <3>2. CASE row'[p].gen > row[p].gen
      <4>1. published[version][p] \in Nat /\ published[version][p] <= row[p].gen
        BY DEF SharedOK, Versions
      <4> QED
        BY <1>2, <2>3, <3>2, <4>1 DEF Pending, Outdated
    <3> QED
      BY <1>2, <3>1, <3>2
  <2>6. StaleIsPending'
    BY <1>1, <1>2, <2>5 DEF StaleIsPending
  <2> QED
    BY <1>1, <1>2, <2>1, <2>2, <2>4, <2>6 DEF SharedOK
<1>3. ASSUME NEW p \in Products, SyncWrite(c, p) PROVE SharedOK' /\ Grows
  <2>1. PICK offer \in Offers[p] :
          row' = [row EXCEPT ![p] = [qty |-> Stock[p], on |-> offer.on, look |-> offer.look,
                                     gen |-> row[p].gen + 1]]
    BY <1>3 DEF SyncWrite
  <2>2. /\ version' = version /\ bumped' = bumped /\ published' = published
        /\ written' = [written EXCEPT ![c] = written[c] \union {p}]
    BY <1>3 DEF SyncWrite
  <2>3. row[p].gen \in Nat /\ offer \in [on : BOOLEAN, look : Looks] /\ Stock[p] \in Nat
    BY CacheAssumption DEF CacheAssumption, SharedOK, Rows
  <2>4. /\ row' \in [Products -> Rows] /\ row'[p].gen = row[p].gen + 1
        /\ \A o \in Products \ {p} : row'[o] = row[o]
    BY <2>1, <2>3 DEF SharedOK, Rows
  <2>5. written' \in [Syncs -> SUBSET Products]
    BY <2>2 DEF SharedOK
  <2> QED
    BY <1>2, <2>2, <2>3, <2>4, <2>5
<1>4. CASE DeactivateAbsent(c)
  <2>1. /\ version' = version /\ bumped' = bumped /\ published' = published
        /\ written' = [written EXCEPT ![c] = Products]
        /\ row' = [p \in Products |-> IF p \in written[c] THEN row[p]
                                      ELSE [row[p] EXCEPT !.on = FALSE, !.gen = row[p].gen + 1]]
    BY <1>4 DEF DeactivateAbsent
  <2>2. \A p \in Products : row[p] \in Rows
    BY DEF SharedOK
  <2>3. ASSUME NEW p \in Products
        PROVE  row'[p] \in Rows /\ (row'[p] = row[p] \/ row'[p].gen = row[p].gen + 1)
    <3> DEFINE off == [row[p] EXCEPT !.on = FALSE, !.gen = row[p].gen + 1]
    <3>1. off \in Rows /\ off.gen = row[p].gen + 1
      <4>1. row[p] \in Rows /\ row[p].gen + 1 \in Nat
        BY <2>2 DEF Rows
      <4> QED
        BY <4>1, OffSale
    <3>2. row'[p] \in {row[p], off}
      BY <2>1
    <3> HIDE DEF off
    <3> QED
      BY <2>2, <3>1, <3>2
  <2>4. \A p \in Products : row'[p] = row[p] \/ row'[p].gen > row[p].gen
    <3>1. \A p \in Products : row[p].gen \in Nat
      BY <2>2 DEF Rows
    <3> QED
      BY <2>3, <3>1
  <2>5. written' \in [Syncs -> SUBSET Products]
    BY <2>1 DEF SharedOK
  <2>6. row' \in [Products -> Rows]
    BY <2>1, <2>3
  <2> QED
    BY <1>2, <2>1, <2>4, <2>5, <2>6
<1>5. CASE BumpVersion(c)
  <2>1. /\ row' = row /\ version' = version + 1 /\ version < MaxVersion /\ written' = written
        /\ written[c] = Products /\ bumped' = bumped \union {c}
        /\ published' = [published EXCEPT ![version + 1] = [p \in Products |-> Due(c, p)]]
    BY <1>5 DEF BumpVersion, AllWritten
  <2>2. version \in Nat /\ version \in Versions /\ version + 1 \in Versions
    BY <2>1 DEF SharedOK, Versions
  <2>3. \A p \in Products : row[p].gen \in Nat /\ Due(c, p) = row[p].gen
    BY <2>1 DEF SharedOK, Rows, Due
  <2>4. /\ published' \in [Versions -> [Products -> Nat]]
        /\ \A p \in Products : published'[version + 1][p] = row[p].gen
        /\ \A v \in Versions : v # version + 1 => published'[v] = published[v]
    BY <2>1, <2>2, <2>3 DEF SharedOK
  <2>5. Grows
    BY <2>1, <2>2, <2>4 DEF SharedOK, Grows, Versions
  <2>6. \A v \in Versions, p \in Products :
          cards'[<<v, p>>] # None => v <= version' /\ Copy(v, p, cards[<<v, p>>])'
    BY <1>1, <2>5, CardsStay
  <2>7. \A v \in Versions, p \in Products : v <= version' => published'[v][p] <= row'[p].gen
    <3> SUFFICES ASSUME NEW v \in Versions, NEW p \in Products, v <= version + 1
                 PROVE  published'[v][p] <= row[p].gen
      BY <2>1
    <3>1. CASE v = version + 1
      BY <2>3, <2>4, <3>1
    <3>2. CASE v # version + 1
      <4>1. v <= version /\ published'[v] = published[v]
        BY <2>2, <2>4, <3>2 DEF Versions
      <4> QED
        BY <4>1 DEF SharedOK
    <3> QED
      BY <3>1, <3>2
  <2>8. \A p \in Products : cards[<<version + 1, p>>] = None
    BY <2>2 DEF SharedOK
  <2>9. StaleIsPending'
    BY <1>1, <2>1, <2>8 DEF StaleIsPending
  <2> QED
    BY <1>1, <2>1, <2>2, <2>4, <2>5, <2>6, <2>7, <2>9 DEF SharedOK
<1> QED
  BY <1>3, <1>4, <1>5 DEF Sync

\* What expires is gone.
LEMMA ExpiryShared ==
    ASSUME SharedOK, Expire
    PROVE  SharedOK'
<1>1. /\ row' = row /\ version' = version /\ bpc' = bpc /\ bver' = bver
      /\ written' = written /\ bumped' = bumped /\ published' = published
  BY DEF Expire, CardExpires, ListExpires, LockExpires, writer, syncs, db
<1>2. ASSUME NEW key \in CardKeys, CardExpires(key) PROVE SharedOK'
  <2>1. /\ lists' = lists /\ locks' = locks /\ expiries' = expiries
        /\ cards' = [cards EXCEPT ![key] = None] /\ spoiled' = spoiled \ {key}
    BY <1>2 DEF CardExpires
  <2>2. cards' \in [CardKeys -> Rows \union {None}]
    BY <2>1 DEF SharedOK
  <2>3. \A other \in CardKeys : cards'[other] # None => other # key /\ cards'[other] = cards[other]
    BY <2>1 DEF SharedOK
  <2>4. \A v \in Versions, p \in Products :
          cards'[<<v, p>>] # None => v <= version' /\ Copy(v, p, cards[<<v, p>>])'
    BY <1>1, <2>3 DEF SharedOK, CardKeys, Copy
  <2>5. ASSUME NEW p \in Products, cards'[<<version, p>>] \notin {None, row[p]} PROVE Pending(p)'
    <3>1. <<version, p>> \in CardKeys
      BY DEF SharedOK, CardKeys
    <3>2. Pending(p) /\ <<version, p>> # key
      BY <2>3, <2>5, <3>1 DEF SharedOK, StaleIsPending
    <3> QED
      BY <1>1, <2>1, <3>2 DEF Pending, Outdated
  <2>6. StaleIsPending'
    BY <1>1, <2>5 DEF StaleIsPending
  <2> QED
    BY <1>1, <2>1, <2>2, <2>4, <2>6 DEF SharedOK
<1>3. ASSUME UNCHANGED <<cards, spoiled>>, lists' \in [ListKeys -> [ids : SUBSET Products] \union {None}],
             locks' \subseteq LockKeys, expiries' \in 0 .. MaxExpiries
      PROVE  SharedOK'
  <2>1. StaleIsPending'
    BY <1>1, <1>3 DEF SharedOK, StaleIsPending, Pending, Outdated
  <2>2. \A v \in Versions, p \in Products :
          cards'[<<v, p>>] # None => v <= version' /\ Copy(v, p, cards[<<v, p>>])'
    BY <1>1, <1>3 DEF SharedOK, Copy
  <2> QED
    BY <1>1, <1>3, <2>1, <2>2 DEF SharedOK
<1>4. ASSUME NEW key \in ListKeys, ListExpires(key) PROVE SharedOK'
  BY <1>3, <1>4 DEF ListExpires, SharedOK
<1>5. ASSUME NEW lock \in locks, LockExpires(lock) PROVE SharedOK'
  BY <1>3, <1>5 DEF LockExpires, SharedOK
<1> QED
  BY <1>2, <1>4, <1>5 DEF Expire

\* Every step keeps the whole of CacheInv.
LEMMA CacheNext == ASSUME CacheInv, [Next]_vars PROVE CacheInv'
<1>1. CallsOK /\ SharedOK /\ LocksOK
  BY CacheParts
<1> USE DEF redis, db, writer, syncs
<1>2. CASE \E r \in Readers : Read(r)
  BY <1>2, ReadStep
<1>3. ASSUME SharedOK', UNCHANGED <<reader, locks, expiries>>, Grows PROVE CacheInv'
  <2>1. CallsOK'
    BY <1>1, <1>3, CallsStay
  <2>2. LocksOK'
    BY <1>1, <1>3, SameHolders DEF reader
  <2> QED
    BY <1>3, <2>1, <2>2, CachePartsNext
<1>4. ASSUME NEW b \in Buyers, Checkout(b) PROVE CacheInv'
  <2>1. UNCHANGED <<reader, locks, expiries>>
    BY <1>4 DEF Checkout, Buy, ReadVersionToInvalidate, Invalidate
  <2>2. CASE Buy(b)
    BY <1>1, <1>3, <2>1, <2>2, BuyShared
  <2>3. CASE ReadVersionToInvalidate(b) \/ Invalidate(b)
    <3>1. Grows
      BY <1>1, <2>3, QuietGrows DEF ReadVersionToInvalidate, Invalidate
    <3> QED
      BY <1>1, <1>3, <2>1, <2>3, <3>1, InvalidationShared
  <2> QED
    BY <1>4, <2>2, <2>3 DEF Checkout
<1>5. ASSUME NEW c \in Syncs, Sync(c) PROVE CacheInv'
  <2>1. UNCHANGED <<reader, locks, expiries>>
    BY <1>5 DEF Sync, SyncWrite, DeactivateAbsent, BumpVersion
  <2> QED
    BY <1>1, <1>3, <1>5, <2>1, SyncShared
<1>6. CASE Expire
  <2>1. SharedOK' /\ Grows /\ UNCHANGED reader
    BY <1>1, <1>6, ExpiryShared, QuietGrows DEF Expire, CardExpires, ListExpires, LockExpires
  <2>2. CASE UNCHANGED <<locks, expiries>>
    BY <1>3, <2>1, <2>2
  <2>3. ASSUME NEW lock \in locks, LockExpires(lock) PROVE CacheInv'
    BY <1>1, <2>1, <2>3, CallsStay, ExpiredIsCounted, CachePartsNext
  <2> QED
    BY <1>6, <2>2, <2>3 DEF Expire, CardExpires, ListExpires
<1>7. CASE UNCHANGED vars
  <2>1. SharedOK' /\ Grows
    BY <1>1, <1>7, QuietShared, QuietGrows DEF vars, SharedOK
  <2> QED
    BY <1>3, <1>7, <2>1 DEF vars
<1> QED
  BY <1>2, <1>4, <1>5, <1>6, <1>7 DEF Next

\* In every reachable state the calls are in order, versions lag behind their
\* rows, locks have few holders and stale cards are still to be deleted.
THEOREM CacheInvariance == Spec => []CacheInv
<1>1. Init => CacheInv
  BY CacheInit
<1>2. CacheInv /\ [Next]_vars => CacheInv'
  BY CacheNext
<1> QED
  BY <1>1, <1>2, PTL DEF Spec

\* The stock is never negative, what is cached is a row or a list of products,
\* and a call that has ended holds no lock.
THEOREM CacheTypes == Spec => []TypeOK
<1>1. CacheInv => TypeOK
  BY DEF CacheInv
<1> QED
  BY <1>1, CacheInvariance, PTL

\* As many calls query the database for one list or one set of cards as locks
\* have expired under their holders, plus one: however many calls there are, and
\* although releaseLock deletes whatever lock is there.
THEOREM StampedesBounded == Spec => []StampedeBounded
<1>1. CacheInv => StampedeBounded
  BY DEF CacheInv
<1> QED
  BY <1>1, CacheInvariance, PTL

\* A stale card of the current version is about to be deleted or replaced, or was
\* stored late, or Redis failed to delete it: for every number of checkouts and syncs.
THEOREM StaleExplained == Spec => []StaleIsExplained
<1>1. CacheInv => StaleIsExplained
  <2> SUFFICES ASSUME CacheInv, NEW p \in Products, cards[<<version, p>>] # None,
                      cards[<<version, p>>] # row[p]
               PROVE  \/ Outdated(version, p)
                      \/ \E b \in Buyers : Bought[b] = p /\ bpc[b] \in {"bought", "invalidating"}
                      \/ <<version, p>> \in spoiled
    BY DEF StaleIsExplained
  <2>1. Pending(p)
    BY DEF CacheInv, StaleIsPending
  <2> QED
    BY <2>1 DEF Pending
<1> QED
  BY <1>1, CacheInvariance, PTL

-----------------------------------------------------------------------------
(* Lists, where no brand and no device model is named "all" *)

\* The word that stands for a filter that is not given names nothing itself: the
\* key of a query would otherwise be that of another.
NoneNamedAll == \A query \in Queries : "all" \notin {Normal[query.brand], Normal[query.device]}

\* A key is of one version and of one normalized query.
LEMMA KeysTellApart ==
    ASSUME NoneNamedAll, NEW v \in Versions, NEW w \in Versions, NEW q1 \in Queries, NEW q2 \in Queries,
           KeyOf[<<v, q1>>] = KeyOf[<<w, q2>>]
    PROVE  v = w /\ normalizeQuery(q1) = normalizeQuery(q2)
<1> DEFINE m1 == normalizeQuery(q1)
           m2 == normalizeQuery(q2)
<1>1. QueryKey(v, m1) = QueryKey(w, m2)
  BY DEF KeyOf
<1>2. m1.brand = Normal[q1.brand] /\ m1.device = Normal[q1.device]
  BY DEF normalizeQuery
<1>3. m2.brand = Normal[q2.brand] /\ m2.device = Normal[q2.device]
  BY DEF normalizeQuery
<1>4. /\ m1 = [brand |-> m1.brand, device |-> m1.device, sort |-> m1.sort, page |-> m1.page,
               pageSize |-> m1.pageSize]
      /\ m2 = [brand |-> m2.brand, device |-> m2.device, sort |-> m2.sort, page |-> m2.page,
               pageSize |-> m2.pageSize]
  BY DEF normalizeQuery
<1> HIDE DEF m1, m2
<1>5. /\ v = w /\ m1.sort = m2.sort /\ m1.page = m2.page /\ m1.pageSize = m2.pageSize
      /\ OrAll(m1.brand) = OrAll(m2.brand) /\ OrAll(m1.device) = OrAll(m2.device)
  BY <1>1 DEF QueryKey
<1>6. m1.brand = m2.brand /\ m1.device = m2.device
  BY <1>2, <1>3, <1>5 DEF NoneNamedAll, OrAll
<1>7. m1 = m2
  BY <1>4, <1>5, <1>6
<1> QED
  BY <1>5, <1>7 DEF m1, m2

\* What a version shows of the products no sync has written since it was published
\* is what they are, and what it may show it may go on showing.
LEMMA ShownStays ==
    ASSUME SharedOK, Grows, NEW v \in Versions, v <= version
    PROVE  /\ Untouched(v)' => Untouched(v) /\ OnSale' = OnSale
           /\ \A q : \A p \in Products : MayShow(v, q, p) => MayShow(v, q, p)'
<1>1. ASSUME NEW p \in Products
      PROVE  /\ Outdated(v, p) => Outdated(v, p)'
             /\ Outdated(v, p)' \/ (row'[p].look = row[p].look /\ row'[p].on = row[p].on)
  <2>1. /\ row[p].gen \in Nat /\ row'[p].gen \in Nat /\ published[v][p] \in Nat
        /\ published[v][p] <= row[p].gen
    BY DEF SharedOK, Grows, Rows
  <2>2. published'[v] = published[v]
    BY DEF Grows
  <2> QED
    BY <2>1, <2>2 DEF Outdated, Grows
<1>2. Untouched(v)' => Untouched(v) /\ OnSale' = OnSale
  <2> SUFFICES ASSUME Untouched(v)' PROVE Untouched(v) /\ OnSale' = OnSale
    OBVIOUS
  <2>1. \A p \in Products : /\ ~Outdated(v, p)
                            /\ row'[p].look = row[p].look /\ row'[p].on = row[p].on
    BY <1>1 DEF Untouched
  <2> QED
    BY <2>1 DEF Untouched, OnSale
<1>3. ASSUME NEW q, NEW p \in Products, MayShow(v, q, p) PROVE MayShow(v, q, p)'
  BY <1>1, <1>3 DEF MayShow
<1> QED
  BY <1>2, <1>3

\* What holds of the lists goes on to hold while the catalog grows.
LEMMA ListsStay ==
    ASSUME SharedOK, ListsArePages, Grows, NEW v \in Versions, NEW query \in Queries,
           lists'[KeyOf[<<v, query>>]] \in {None, lists[KeyOf[<<v, query>>]]}
    PROVE  RightPage(lists[KeyOf[<<v, query>>]], v, query)'
<1> DEFINE list == lists[KeyOf[<<v, query>>]]
<1>1. RightPage(list, v, query)
  BY DEF ListsArePages
<1> SUFFICES ASSUME list' # None PROVE RightPage(list, v, query)'
  BY DEF RightPage
<1>2. /\ list' = list /\ v <= version
      /\ Untouched(v) => list.ids = Page(normalizeQuery(query), OnSale)
      /\ \A p \in list.ids : MayShow(v, normalizeQuery(query), p)
  BY <1>1 DEF RightPage
<1>3. list.ids \subseteq Products
  <2>1. KeyOf[<<v, query>>] \in ListKeys
    BY DEF ListKeys
  <2> QED
    BY <1>2, <2>1 DEF SharedOK
<1>4. v <= version'
  BY <1>2 DEF SharedOK, Grows, Versions
<1>5. Untouched(v)' => list.ids = Page(normalizeQuery(query), OnSale')
  BY <1>2, ShownStays
<1>6. \A p \in list.ids : MayShow(v, normalizeQuery(query), p)'
  BY <1>2, <1>3, ShownStays
<1> QED
  BY <1>2, <1>4, <1>5, <1>6 DEF RightPage

\* So it does of a call that takes no step.
LEMMA CallStays ==
    ASSUME CallsOK, SharedOK, NEW q \in Readers, RightCall(q), Grows,
           target' = target, pc'[q] = pc[q], ver'[q] = ver[q], ids'[q] = ids[q],
           have'[q] = have[q], fetched'[q] = fetched[q], held'[q] = held[q]
    PROVE  RightCall(q)'
<1>1. /\ ver[q] \in Versions /\ ver[q] <= version
      /\ ids[q] \union DOMAIN have[q] \union DOMAIN fetched[q] \subseteq Products
  BY DEF CallsOK, CallOK, IsRowMap
<1>2. /\ IsList(q)' = IsList(q) /\ Query(q)' = Query(q) /\ HasQueryLock(q)' = HasQueryLock(q)
  BY DEF IsList, Query, HasQueryLock, ListKey
<1>3. PICK v \in Versions : v = ver[q] /\ v = ver'[q] /\ v <= version
  BY <1>1
<1>4. PICK query : query = Query(q) /\ query = Query(q)'
  BY <1>2
<1>5. /\ Untouched(v)' => Untouched(v) /\ OnSale' = OnSale
      /\ \A p \in Products : MayShow(v, query, p) => MayShow(v, query, p)'
  BY <1>3, ShownStays
<1>6. \A p \in ids[q] \union DOMAIN have[q] \union DOMAIN fetched[q] :
        IsList(q) => MayShow(v, query, p)'
  BY <1>1, <1>3, <1>4, <1>5 DEF RightCall
<1>7. pc[q] = "store" /\ HasQueryLock(q) /\ IsList(q) /\ Untouched(v)' =>
        DOMAIN fetched[q] = Page(query, OnSale')
  BY <1>3, <1>4, <1>5 DEF RightCall
<1> QED
  BY <1>2, <1>3, <1>4, <1>6, <1>7 DEF RightCall, MayShow, Outdated, Untouched

\* The products of a page are on sale and match its query.
LEMMA PageMatches ==
    ASSUME NEW query, NEW onSale, NEW p \in Page(query, onSale)
    PROVE  p \in DOMAIN onSale /\ Matches(query, onSale[p])
BY DEF Page

\* A step of a call changes nothing that may be shown, for any version.
LEMMA ReadSteady ==
    ASSUME CallsOK, SharedOK, NEW r \in Readers, Read(r)
    PROVE  /\ Grows /\ IsList(r)' = IsList(r) /\ Query(r)' = Query(r)
           /\ row' = row /\ version' = version /\ published' = published /\ OnSale' = OnSale
<1>1. row' = row /\ version' = version /\ published' = published /\ target' = target
  BY ReadQuiet
<1> QED
  BY <1>1, QuietGrows DEF IsList, Query, OnSale

\* A call that finds its list finds products that its version may show.
LEMMA ListOwnRight ==
    ASSUME CallsOK, SharedOK, ListsArePages, NEW r \in Readers, RightCall(r),
           ReadVersion(r) \/ ListHit(r) \/ ListMiss(r)
    PROVE  RightCall(r)'
<1>1. /\ IsList(r)' = IsList(r) /\ Query(r)' = Query(r)
      /\ row' = row /\ published' = published
  BY ReadSteady DEF Read
<1>2. CallOK(r) /\ have' = have /\ fetched' = fetched
  BY DEF CallsOK, ReadVersion, ListHit, ListMiss
<1> USE DEF Step
<1>3. SUFFICES ASSUME IsList(r) PROVE RightCall(r)'
  BY <1>1 DEF RightCall
<1>4. /\ DOMAIN have[r] = {} /\ DOMAIN fetched[r] = {} /\ pc'[r] # "store"
  BY <1>2 DEF CallOK, CallsOK, ReadVersion, ListHit, ListMiss
<1>5. \A p \in ids'[r] : MayShow(ver'[r], Query(r), p)
  <2>1. CASE ReadVersion(r)
    BY <1>3, <2>1 DEF ReadVersion, CallsOK
  <2>2. CASE ListHit(r)
    <3>1. lists[ListKey(r)] # None /\ ids'[r] = lists[ListKey(r)].ids /\ ver' = ver
      BY <2>2 DEF ListHit, CallsOK
    <3>2. RightPage(lists[KeyOf[<<ver[r], target[r]>>]], ver[r], target[r])
      BY <1>2, <1>3 DEF ListsArePages, IsList, CallOK
    <3> QED
      BY <3>1, <3>2 DEF RightPage, ListKey, Query
  <2>3. CASE ListMiss(r)
    BY <1>3, <2>3 DEF ListMiss, RightCall
  <2> QED
    BY <2>1, <2>2, <2>3
<1> QED
  BY <1>1, <1>2, <1>4, <1>5 DEF RightCall, MayShow, Outdated

\* A call that takes a lock, fails, stores or gives up has nothing new.
LEMMA NothingNewRight ==
    ASSUME CallsOK, SharedOK, NEW r \in Readers, RightCall(r),
           \/ AcquireQueryLock(r) \/ MissQueryLock(r)
           \/ AcquireHydrationLock(r) \/ MissHydrationLock(r)
           \/ FetchFails(r) \/ Store(r) \/ Unlock(r)
    PROVE  RightCall(r)'
<1>1. /\ IsList(r)' = IsList(r) /\ Query(r)' = Query(r)
      /\ row' = row /\ published' = published
  BY ReadSteady DEF Read
<1> USE DEF Step, NoRows, AfterFetchFailure
<1>2. /\ ids' = ids /\ ver' = ver /\ DOMAIN have'[r] \subseteq DOMAIN have[r]
      /\ pc'[r] # "store" /\ DOMAIN fetched'[r] \subseteq DOMAIN fetched[r]
  BY DEF CallsOK, AcquireQueryLock, MissQueryLock, AcquireHydrationLock, MissHydrationLock,
     FetchFails, Store, Unlock
<1> QED
  BY <1>1, <1>2 DEF RightCall, MayShow, Outdated

\* A call gets no cards but those it looks for.
LEMMA CardsRight ==
    ASSUME CallsOK, SharedOK, NEW r \in Readers, RightCall(r), GetCards(r) \/ Reread(r)
    PROVE  RightCall(r)'
<1>1. /\ IsList(r)' = IsList(r) /\ Query(r)' = Query(r)
      /\ row' = row /\ published' = published
  BY ReadSteady DEF Read
<1>2. /\ CallOK(r) /\ ids' = ids /\ ver' = ver /\ fetched' = fetched
      /\ Missing(r) \subseteq ids[r]
  BY DEF CallsOK, GetCards, Reread, Missing
<1>3. pc'[r] # "store"
  BY DEF CallsOK, GetCards, Reread, Step
<1>4. DOMAIN have'[r] \subseteq DOMAIN have[r] \union ids[r]
  <2>1. CASE GetCards(r)
    <3>1. have'[r] \in {CachedCards(r, ids[r]), NoRows}
      BY <2>1 DEF GetCards, CallsOK
    <3> QED
      BY <3>1 DEF CachedCards, NoRows
  <2>2. CASE Reread(r)
    <3>1. have'[r] \in {With(have[r], CachedCards(r, Missing(r))), With(have[r], NoRows)}
      BY <2>2 DEF Reread, CallsOK
    <3>2. \A hits : DOMAIN With(have[r], hits) = DOMAIN have[r] \union DOMAIN hits
      BY DEF With
    <3>3. /\ DOMAIN CachedCards(r, Missing(r)) \subseteq ids[r]
          /\ DOMAIN NoRows = {}
      BY <1>2 DEF CachedCards, NoRows
    <3> QED
      BY <3>1, <3>2, <3>3
  <2> QED
    BY <2>1, <2>2
<1> QED
  BY <1>1, <1>2, <1>3, <1>4 DEF RightCall, MayShow, Outdated

\* What it fetches are cards it looks for, or the page of its query if it looks for nothing.
LEMMA FetchRight ==
    ASSUME CallsOK, SharedOK, NEW r \in Readers, RightCall(r), Fetch(r)
    PROVE  RightCall(r)'
<1>1. /\ IsList(r)' = IsList(r) /\ Query(r)' = Query(r) /\ row' = row
      /\ published' = published /\ OnSale' = OnSale
  BY ReadSteady DEF Read
<1>2. CallOK(r) /\ ids' = ids /\ ver' = ver /\ held' = held /\ target' = target
  BY DEF CallsOK, Fetch
<1>3. /\ DOMAIN fetched'[r] = Wanted(r) /\ DOMAIN have'[r] = DOMAIN have[r] \union Wanted(r)
      /\ pc[r] = "fetch"
  BY DEF Fetch, CallsOK, Step, With
<1>4. ASSUME IsList(r), NEW p \in Wanted(r) PROVE MayShow(ver[r], Query(r), p)
  <2>1. CASE ids[r] = {}
    <3>1. p \in Page(Query(r), OnSale)
      BY <2>1 DEF Wanted
    <3>2. p \in DOMAIN OnSale /\ Matches(Query(r), OnSale[p])
      BY <3>1, PageMatches
    <3>3. OnSale[p] = row[p].look
      BY <3>2 DEF OnSale
    <3> QED
      BY <3>2, <3>3 DEF MayShow
  <2>2. CASE ids[r] # {}
    BY <1>4, <2>2 DEF Wanted, Missing, RightCall
  <2> QED
    BY <2>1, <2>2
<1>5. HasQueryLock(r)' = HasQueryLock(r)
  BY <1>1, <1>2 DEF HasQueryLock, IsList, ListKey
<1>6. HasQueryLock(r) => Wanted(r) = Page(Query(r), OnSale)
  BY <1>2, <1>3 DEF CallOK, Wanted
<1>7. IsList(r) => \A p \in ids'[r] \union DOMAIN have'[r] \union DOMAIN fetched'[r] :
        MayShow(ver[r], Query(r), p)
  BY <1>2, <1>3, <1>4 DEF RightCall
<1> QED
  BY <1>1, <1>2, <1>3, <1>5, <1>6, <1>7 DEF RightCall, MayShow, Outdated

\* A list is stored under the key of the query it is the page of.
LEMMA StoreRight ==
    ASSUME NoneNamedAll, CallsOK, SharedOK, ListsArePages, NEW r \in Readers, RightCall(r), Store(r)
    PROVE  ListsArePages'
<1>1. /\ row' = row /\ version' = version /\ published' = published /\ OnSale' = OnSale /\ Grows
  BY ReadSteady DEF Read
<1>2. CallOK(r) /\ pc[r] = "store"
  BY DEF CallsOK, Store, Step
<1> SUFFICES ASSUME NEW v \in Versions, NEW query \in Queries
             PROVE  RightPage(lists[KeyOf[<<v, query>>]], v, query)'
  BY DEF ListsArePages
<1>3. CASE lists'[KeyOf[<<v, query>>]] = lists[KeyOf[<<v, query>>]]
  BY <1>1, <1>3, ListsStay
<1>4. CASE lists'[KeyOf[<<v, query>>]] # lists[KeyOf[<<v, query>>]]
  <2>1. /\ HasQueryLock(r)
        /\ lists' = [lists EXCEPT ![ListKey(r)] = [ids |-> DOMAIN fetched[r]]]
    BY <1>4 DEF Store
  <2>2. KeyOf[<<v, query>>] = KeyOf[<<ver[r], target[r]>>]
    BY <1>4, <2>1 DEF SharedOK, ListKey
  <2>3. v = ver[r] /\ normalizeQuery(query) = Query(r)
    BY <1>2, <2>1, <2>2, KeysTellApart DEF CallOK, HasQueryLock, IsList, Query
  <2>4. lists'[KeyOf[<<v, query>>]] = [ids |-> DOMAIN fetched[r]]
    BY <1>2, <2>1, <2>2, LockNames DEF SharedOK, HasQueryLock, ListKey
  <2>5. /\ v <= version' /\ Untouched(v)' = Untouched(v)
    BY <1>1, <1>2, <2>3 DEF CallOK, Untouched, Outdated
  <2>6. /\ Untouched(v) => DOMAIN fetched[r] = Page(normalizeQuery(query), OnSale)
        /\ \A p \in DOMAIN fetched[r] : MayShow(v, normalizeQuery(query), p)
    BY <1>2, <2>1, <2>3 DEF RightCall, HasQueryLock
  <2>7. \A p \in DOMAIN fetched[r] : MayShow(v, normalizeQuery(query), p)'
    BY <1>1, <2>6 DEF MayShow, Outdated
  <2> QED
    BY <1>1, <2>4, <2>5, <2>6, <2>7 DEF RightPage
<1> QED
  BY <1>3, <1>4

\* What writers and the clock do to the catalog.
LEMMA WritersGrow ==
    ASSUME SharedOK, \/ \E b \in Buyers : Checkout(b)
                     \/ \E c \in Syncs : Sync(c)
                     \/ Expire
    PROVE  Grows
<1>1. ASSUME NEW b \in Buyers, Checkout(b) PROVE Grows
  <2>1. CASE Buy(b)
    BY <2>1, BuyShared
  <2>2. CASE ReadVersionToInvalidate(b) \/ Invalidate(b)
    BY <2>2, QuietGrows DEF ReadVersionToInvalidate, Invalidate, db, syncs
  <2> QED
    BY <1>1, <2>1, <2>2 DEF Checkout
<1>2. ASSUME NEW c \in Syncs, Sync(c) PROVE Grows
  BY <1>2, SyncShared
<1>3. CASE Expire
  BY <1>3, QuietGrows DEF Expire, CardExpires, ListExpires, LockExpires, db, writer, syncs
<1> QED
  BY <1>1, <1>2, <1>3

\* ListInv at first: no list, and no call with anything.
LEMMA ListInit == Init => ListInv
<1> SUFFICES ASSUME Init PROVE ListInv
  OBVIOUS
<1>1. ASSUME NEW v \in Versions, NEW query \in Queries PROVE lists[KeyOf[<<v, query>>]] = None
  <2>1. KeyOf[<<v, query>>] \in ListKeys
    BY DEF ListKeys
  <2> QED
    BY <2>1 DEF Init
<1>2. CallsMatch
  BY DEF Init, CallsMatch, RightCall, NoRows
<1> QED
  BY <1>1, <1>2 DEF ListInv, ListsArePages, RightPage

\* A step of a call keeps it.
LEMMA ReadKeepsLists ==
    ASSUME NoneNamedAll, CallsOK, SharedOK, ListInv, NEW r \in Readers, Read(r)
    PROVE  ListInv'
<1>1. Grows /\ Elsewhere(r)
  BY ReadSteady, ReadIsLocal
<1>2. ListsArePages /\ \A q \in Readers : RightCall(q)
  BY DEF ListInv, CallsMatch
<1>3. RightCall(r)'
  BY <1>2, ListOwnRight, NothingNewRight, CardsRight, FetchRight DEF Read
<1>4. ASSUME NEW q \in Readers \ {r} PROVE RightCall(q)'
  BY <1>1, <1>2, CallStays DEF Elsewhere
<1>5. ListsArePages'
  <2>1. CASE Store(r)
    BY <1>2, <2>1, StoreRight
  <2>2. CASE ~Store(r)
    <3>1. lists' = lists
      BY <2>2 DEF Read, ReadVersion, ListHit, ListMiss, AcquireQueryLock, MissQueryLock, GetCards,
         AcquireHydrationLock, MissHydrationLock, Reread, Fetch, FetchFails, Unlock, TakeLock,
         MissLock, redis
    <3>2. ASSUME NEW v \in Versions, NEW query \in Queries
          PROVE  RightPage(lists[KeyOf[<<v, query>>]], v, query)'
      BY <1>1, <1>2, <3>1, ListsStay
    <3> QED
      BY <3>2 DEF ListsArePages
  <2> QED
    BY <2>1, <2>2
<1> QED
  BY <1>3, <1>4, <1>5 DEF ListInv, CallsMatch

\* Every step keeps it.
LEMMA ListNext == ASSUME NoneNamedAll, CacheInv, ListInv, [Next]_vars PROVE ListInv'
<1>1. CallsOK /\ SharedOK
  BY CacheParts
<1>2. ListsArePages /\ \A q \in Readers : RightCall(q)
  BY DEF ListInv, CallsMatch
<1>3. CASE \E r \in Readers : Read(r)
  BY <1>1, <1>3, ReadKeepsLists
<1>4. ASSUME Grows, UNCHANGED reader, \A key \in ListKeys : lists'[key] \in {None, lists[key]}
      PROVE  ListInv'
  <2>1. \A q \in Readers : RightCall(q)'
    BY <1>1, <1>2, <1>4, CallStays DEF reader
  <2>2. ASSUME NEW v \in Versions, NEW query \in Queries
        PROVE  RightPage(lists[KeyOf[<<v, query>>]], v, query)'
    <3>1. KeyOf[<<v, query>>] \in ListKeys
      BY DEF ListKeys
    <3> QED
      BY <1>1, <1>2, <1>4, <3>1, ListsStay
  <2> QED
    BY <2>1, <2>2 DEF ListInv, CallsMatch, ListsArePages
<1>5. CASE (\E b \in Buyers : Checkout(b)) \/ (\E c \in Syncs : Sync(c))
  <2>1. UNCHANGED <<reader, lists>>
    BY <1>5 DEF Checkout, Buy, ReadVersionToInvalidate, Invalidate, Sync, SyncWrite,
       DeactivateAbsent, BumpVersion, redis
  <2>2. Grows
    BY <1>1, <1>5, WritersGrow
  <2> QED
    BY <1>4, <2>1, <2>2
<1>6. CASE Expire
  <2>1. UNCHANGED reader
    BY <1>6 DEF Expire, CardExpires, ListExpires, LockExpires
  <2>2. \A key \in ListKeys : lists'[key] \in {None, lists[key]}
    BY <1>1, <1>6 DEF Expire, CardExpires, ListExpires, LockExpires, SharedOK
  <2>3. Grows
    BY <1>1, <1>6, WritersGrow
  <2> QED
    BY <1>4, <2>1, <2>2, <2>3
<1>7. CASE UNCHANGED vars
  <2>1. UNCHANGED <<reader, lists, row, version, published>>
    BY <1>7 DEF vars, db, redis, writer, syncs
  <2>2. Grows
    BY <1>1, <2>1, QuietGrows
  <2> QED
    BY <1>4, <2>1, <2>2
<1> QED
  BY <1>3, <1>5, <1>6, <1>7 DEF Next

\* Where nothing is named "all", everything the run checks of the inductive
\* invariants holds, for any number of overlapping syncs and whatever they make of the
\* products: a list is the page of its query until a sync writes a product, and what a
\* list call stores or answers matches its query, or is of a product a sync has written.
THEOREM CacheAndLists == NoneNamedAll => (Spec => []CacheProofInvariants)
<1> SUFFICES ASSUME NoneNamedAll PROVE Spec => []CacheProofInvariants
  OBVIOUS
<1>1. Init => CacheProofInvariants
  BY CacheInit, ListInit DEF CacheProofInvariants
<1>2. CacheProofInvariants /\ [Next]_vars => CacheProofInvariants'
  BY CacheNext, ListNext DEF CacheProofInvariants
<1> QED
  BY <1>1, <1>2, PTL DEF Spec

\* Where nothing is named "all", what is cached under a version and what is answered for
\* it is no older than the rows were when the version was published, and a list none of
\* whose products a sync has written since is the page its query selects.
THEOREM VersionsKept == NoneNamedAll => (Spec => []CachedUnderItsVersion)
<1>1. CacheProofInvariants => CachedUnderItsVersion
  <2> SUFFICES ASSUME CacheProofInvariants PROVE CachedUnderItsVersion
    OBVIOUS
  <2>1. VersionsLag /\ ListsArePages /\ SharedOK /\ CallsOK
    BY CacheParts DEF CacheProofInvariants, CacheInv, ListInv
  <2>2. \A v \in Versions, p \in Products :
          cards[<<v, p>>] # None => cards[<<v, p>>].gen >= published[v][p]
    <3> SUFFICES ASSUME NEW v \in Versions, NEW p \in Products, cards[<<v, p>>] # None
                 PROVE  cards[<<v, p>>].gen >= published[v][p]
      OBVIOUS
    <3>1. cards[<<v, p>>].gen \in Nat /\ published[v][p] \in Nat
      BY <2>1 DEF SharedOK, CardKeys, Rows
    <3> QED
      BY <2>1, <3>1 DEF VersionsLag, Copy
  <2>3. \A r \in Readers : \A p \in DOMAIN have[r] : have[r][p].gen >= published[ver[r]][p]
    <3> SUFFICES ASSUME NEW r \in Readers, NEW p \in DOMAIN have[r]
                 PROVE  have[r][p].gen >= published[ver[r]][p]
      OBVIOUS
    <3>1. p \in Products /\ have[r][p] \in Rows /\ ver[r] \in Versions
      BY <2>1 DEF CallsOK, CallOK, IsRowMap
    <3>2. have[r][p].gen \in Nat /\ published[ver[r]][p] \in Nat
      BY <2>1, <3>1 DEF SharedOK, Rows
    <3> QED
      BY <2>1, <3>2 DEF VersionsLag, Copy
  <2>4. \A v \in Versions, query \in Queries :
          LET list == lists[KeyOf[<<v, query>>]] IN
          list # None /\ (\A p \in Products : ~Outdated(v, p))
            => list.ids = Page(normalizeQuery(query), OnSale)
    BY <2>1 DEF ListsArePages, RightPage, Untouched
  <2> QED
    BY <2>2, <2>3, <2>4 DEF CachedUnderItsVersion
<1> QED
  BY <1>1, CacheAndLists, PTL

\* Where nothing is named "all", a list call answers with a product that its query does
\* not ask for only if a sync has written that product since the list's version was
\* published: while ids and cards go through the cache, and brands and device models change.
THEOREM ListsMatch == NoneNamedAll => (Spec => []ListsMatchTheirQueries)
<1>1. CacheProofInvariants => ListsMatchTheirQueries
  <2> SUFFICES ASSUME CacheProofInvariants, NEW r \in Readers, IsList(r),
                      NEW p \in DOMAIN have[r], ~Outdated(ver[r], p)
               PROVE  Matches(Query(r), have[r][p].look)
    BY DEF ListsMatchTheirQueries
  <2>1. SharedOK /\ CallOK(r) /\ RightCall(r)
    BY CacheParts DEF CacheProofInvariants, ListInv, CallsMatch, CallsOK
  <2>2. /\ p \in Products /\ have[r][p] \in Rows /\ ver[r] \in Versions
        /\ Copy(ver[r], p, have[r][p])
    BY <2>1 DEF CallOK, IsRowMap
  <2>3. /\ have[r][p].gen \in Nat /\ row[p].gen \in Nat /\ published[ver[r]][p] \in Nat
    BY <2>1, <2>2 DEF SharedOK, Rows
  <2>4. have[r][p].look = row[p].look
    BY <2>2, <2>3 DEF Copy, Outdated
  <2> QED
    BY <2>1, <2>4 DEF RightCall, MayShow
<1> QED
  BY <1>1, CacheAndLists, PTL

-----------------------------------------------------------------------------
(* Pages *)

\* A page size that is not given, or is none, or too large, is replaced.
LEMMA PageSizes == \A query \in Queries : normalizeQuery(query).pageSize \in 1 .. 50
BY QueryAssumption DEF normalizeQuery, QueryAssumption

\* The products of a set that come before one of them.
Below(found, order, p) == {o \in found : Precedes(order, o, p)}

\* The place of a product among what a query finds is a number of its own.
LEMMA PlacesDiffer ==
    ASSUME NEW found \in SUBSET Products, IsFiniteSet(found), NEW order,
           \A p \in found : order[p] \in Int
    PROVE  \A p, o \in found :
               /\ Cardinality(Below(found, order, p)) \in Nat
               /\ Cardinality(Below(found, order, p)) = Cardinality(Below(found, order, o))
                  => p = o
<1> DEFINE below(p) == Below(found, order, p)
<1>1. \A p, o \in found : IdPlace[p] \in Int /\ (IdPlace[p] = IdPlace[o] => p = o)
  BY QueryAssumption DEF QueryAssumption
<1>2. \A p \in found : IsFiniteSet(below(p)) /\ Cardinality(below(p)) \in Nat
  BY FS_Subset, FS_CardinalityType DEF Below
<1>3. ASSUME NEW p \in found, NEW o \in found, Precedes(order, p, o)
      PROVE  Cardinality(below(p)) # Cardinality(below(o))
  <2>1. \A x \in found : Precedes(order, x, p) => Precedes(order, x, o)
    BY <1>1, <1>3 DEF Precedes
  <2>2. below(p) \in SUBSET below(o)
    BY <2>1 DEF Below
  <2>3. ~Precedes(order, p, p)
    BY <1>1 DEF Precedes
  <2>4. p \in below(o) /\ p \notin below(p)
    BY <1>3, <2>3 DEF Below
  <2> HIDE DEF below
  <2> QED
    BY <1>2, <2>2, <2>4, FS_Subset
<1>4. ASSUME NEW p \in found, NEW o \in found, Cardinality(below(p)) = Cardinality(below(o))
      PROVE  p = o
  <2>1. ~Precedes(order, p, o) /\ ~Precedes(order, o, p)
    BY <1>3, <1>4
  <2> HIDE DEF below
  <2> QED
    BY <1>1, <2>1 DEF Precedes
<1> QED
  BY <1>2, <1>4

\* The places a page has room for.
LEMMA PlacesOnPage ==
    ASSUME NEW b \in Nat, NEW s \in Nat \ {0}
    PROVE  b \div s \in Nat /\ b \in s * (b \div s) .. s * (b \div s) + s - 1
<1>1. b \div s \in Nat
  OBVIOUS
<1>2. s * (b \div s) <= b
  OBVIOUS
<1>3. b < s * (b \div s) + s
  OBVIOUS
<1> QED
  BY <1>1, <1>2, <1>3

\* A page of a query, by its number.
PageOf(query, n, onSale) == Page([normalizeQuery(query) EXCEPT !.page = n], onSale)

\* Each product a query finds is on exactly one of its pages, and no page has more
\* than its size, whatever price or relevance products share
\* (products.service.ts:223, 245-253, 431-445): the id decides.
THEOREM PagesPartition ==
    ASSUME NEW query \in Queries, NEW sold \in SUBSET Products, IsFiniteSet(sold),
           NEW onSale \in [sold -> Looks]
    PROVE  /\ \A p \in sold : Matches(normalizeQuery(query), onSale[p]) =>
                \E n \in Nat \ {0} : \A m \in Int : p \in PageOf(query, m, onSale) <=> m = n
           /\ \A n \in Nat \ {0} :
                Cardinality(PageOf(query, n, onSale)) <= normalizeQuery(query).pageSize
<1> DEFINE q     == normalizeQuery(query)
           size  == q.pageSize
           found == {p \in sold : Matches(q, onSale[p])}
           order == [p \in found |-> OrderBy(q.sort, onSale[p])]
           place(p) == Cardinality(Below(found, order, p))
<1>1. size \in 1 .. 50
  BY PageSizes
<1>2. \A n : PageOf(query, n, onSale) = {p \in found : place(p) \div size = n - 1}
  <2> TAKE n
  <2> DEFINE at == [q EXCEPT !.page = n]
  <2>1. /\ at.pageSize = size /\ at.page = n /\ at.sort = q.sort
        /\ at.brand = q.brand /\ at.device = q.device
    BY DEF normalizeQuery
  <2> HIDE DEF at, q
  <2>2. DOMAIN onSale = sold /\ \A look : Matches(at, look) <=> Matches(q, look)
    BY <2>1, Zenon DEF Matches
  <2>3. {p \in DOMAIN onSale : Matches(at, onSale[p])} = found
    BY <2>2
  <2>4. [p \in found |-> OrderBy(at.sort, onSale[p])] = order
    BY <2>1
  <2> HIDE DEF found, order
  <2> QED
    BY <2>1, <2>3, <2>4 DEF PageOf, Page, Below, at, q
<1>3. found \in SUBSET Products /\ IsFiniteSet(found)
  BY FS_Subset
<1>4. \A p \in found : order[p] \in Int
  BY QueryAssumption DEF OrderBy, QueryAssumption
<1> HIDE DEF q, order, found
<1>5. \A p, o \in found : place(p) \in Nat /\ (place(p) = place(o) => p = o)
  BY <1>3, <1>4, PlacesDiffer
<1> HIDE DEF place, size
<1>6. \A p \in found : \A m \in Int :
        p \in PageOf(query, m, onSale) <=> m = place(p) \div size + 1
  <2> TAKE p \in found, m \in Int
  <2>1. place(p) \div size \in Nat
    BY <1>1, <1>5, PlacesOnPage
  <2>2. p \in PageOf(query, m, onSale) <=> place(p) \div size = m - 1
    BY <1>2
  <2> QED
    BY <2>1, <2>2
<1>7. ASSUME NEW p \in found PROVE place(p) \div size + 1 \in Nat \ {0}
  <2>1. place(p) \div size \in Nat
    BY <1>1, <1>5, PlacesOnPage
  <2> QED
    BY <2>1
<1>8. ASSUME NEW n \in Nat \ {0} PROVE Cardinality(PageOf(query, n, onSale)) <= size
  <2> DEFINE page   == PageOf(query, n, onSale)
             places == size * (n - 1) .. size * (n - 1) + size - 1
             spot   == [p \in page |-> place(p)]
  <2>1. \A p \in page : p \in found /\ place(p) \in Nat /\ place(p) \div size = n - 1
    BY <1>2, <1>5
  <2>2. ASSUME NEW p \in page PROVE place(p) \in places
    <3>1. place(p) \in Nat /\ place(p) \div size = n - 1
      BY <2>1
    <3>2. size \in Nat \ {0}
      BY <1>1
    <3>3. place(p) \in size * (place(p) \div size) .. size * (place(p) \div size) + size - 1
      BY <3>1, <3>2, PlacesOnPage, Zenon
    <3> QED
      BY <3>1, <3>3, Zenon
  <2>3. \A p, o \in page : place(p) = place(o) => p = o
    BY <1>5, <2>1
  <2>4. size * (n - 1) \in Int /\ size \in Nat \ {0}
    BY <1>1
  <2> HIDE DEF page, places
  <2>5. spot \in Injection(page, places)
    BY <2>2, <2>3 DEF Injection, IsInjective
  <2>6. IsFiniteSet(places) /\ Cardinality(places) = size
    <3> DEFINE a == size * (n - 1)
    <3>1. a \in Int
      BY <2>4
    <3> HIDE DEF a
    <3>2. /\ IsFiniteSet(a .. a + size - 1)
          /\ Cardinality(a .. a + size - 1) = IF a > a + size - 1 THEN 0 ELSE a + size - 1 - a + 1
      BY <2>4, <3>1, FS_Interval
    <3> QED
      BY <2>4, <3>1, <3>2 DEF a, places
  <2>7. Cardinality(page) <= Cardinality(places)
    <3>1. PICK f \in Injection(page, places) : TRUE
      BY <2>5
    <3>2. IsFiniteSet(places)
      BY <2>6
    <3> QED
      BY <3>1, <3>2, FS_Injection
  <2> QED
    BY <2>6, <2>7 DEF page
<1>9. ASSUME NEW p \in sold, Matches(q, onSale[p]) PROVE p \in found
  BY <1>9 DEF found
<1> QED
  BY <1>6, <1>7, <1>8, <1>9 DEF q, size
=============================================================================
