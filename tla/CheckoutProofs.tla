--------------------------- MODULE CheckoutProofs ---------------------------
(* Safety of Checkout for every set of requests, keys and products. *)
EXTENDS Checkout, FiniteSetTheorems, WellFoundedInduction, TLAPS

-----------------------------------------------------------------------------
(* The functions of CheckoutData *)

\* Every nonempty set of natural numbers has a least element.
LEMMA LeastElement ==
    ASSUME NEW S \in SUBSET Nat, S # {}
    PROVE  \E m \in S : \A n \in S : m <= n
<1>1. PICK m \in S : \A n \in S : <<n, m>> \notin OpToRel(<, Nat)
  BY WFMin, NatLessThanWellFounded, Zenon
<1>2. \A n \in S : ~(n < m)
  BY <1>1, Zenon DEF OpToRel
<1> QED
  BY <1>2

\* A product of a request is named by one of its lines, which are of type Lines.
LEMMA LinesType ==
    ASSUME NEW r \in Requests
    PROVE  /\ Len(Body[r]) \in Nat
           /\ DOMAIN Body[r] = 1 .. Len(Body[r])
           /\ \A i \in 1 .. Len(Body[r]) :
                Body[r][i].product \in Products /\ Body[r][i].quantity \in Nat
           /\ ProductsOf(r) \subseteq Products
<1>1. Body[r] \in Seq(Lines)
  BY RequestAssumption DEF RequestAssumption
<1>2. Len(Body[r]) \in Nat /\ DOMAIN Body[r] = 1 .. Len(Body[r])
  BY <1>1
<1>3. \A i \in 1 .. Len(Body[r]) : Body[r][i] \in Lines
  BY <1>1
<1>4. \A line \in Lines : line.product \in Products /\ line.quantity \in Nat
  BY DEF Lines, Quantities
<1>5. ProductsOf(r) \subseteq Products
  BY <1>2, <1>3, <1>4 DEF ProductsOf
<1> QED
  BY <1>2, <1>3, <1>4, <1>5

\* A later line of a product has a later place: no two lines of a request are
\* the same element of its hash.
LEMMA PlacesDiffer ==
    ASSUME NEW r \in Requests, NEW i \in 1 .. Len(Body[r]), NEW j \in 1 .. Len(Body[r]),
           i < j, Body[r][i].product = Body[r][j].product
    PROVE  Place(r, i) # Place(r, j)
<1> DEFINE Upto(n) == {k \in 1 .. n : Body[r][k].product = Body[r][n].product}
<1>1. i \in Int /\ j \in Int
  BY LinesType
<1>2. IsFiniteSet(1 .. j)
  BY <1>1, FS_Interval
<1>3. IsFiniteSet(Upto(j))
  BY <1>2, FS_Subset, Zenon
<1>4. Upto(i) \in SUBSET Upto(j)
  BY <1>1
<1>5. j \in Upto(j) /\ j \notin Upto(i)
  BY <1>1
<1>6. Cardinality(Upto(i)) # Cardinality(Upto(j))
  <2> HIDE DEF Upto
  <2> QED
    BY <1>3, <1>4, <1>5, FS_Subset, Zenon
<1> QED
  BY <1>6, Zenon DEF Place

\* A request has as many hashed lines as lines.
LEMMA HashLength ==
    ASSUME NEW r \in Requests
    PROVE  Cardinality(RequestHash(r)) = Len(Body[r])
<1> DEFINE line == [i \in 1 .. Len(Body[r]) |->
                       <<Body[r][i].product, Place(r, i), Body[r][i].quantity>>]
<1>1. Len(Body[r]) \in Nat /\ DOMAIN Body[r] = 1 .. Len(Body[r])
  BY LinesType
<1>2. \A i, j \in 1 .. Len(Body[r]) : line[i] = line[j] => i = j
  <2> SUFFICES ASSUME NEW i \in 1 .. Len(Body[r]), NEW j \in 1 .. Len(Body[r]),
                      line[i] = line[j], i # j
               PROVE  FALSE
    OBVIOUS
  <2>1. Body[r][i].product = Body[r][j].product /\ Place(r, i) = Place(r, j)
    OBVIOUS
  <2>2. i < j \/ j < i
    BY <1>1
  <2> QED
    BY <2>1, <2>2, PlacesDiffer
<1>3. line \in Injection(1 .. Len(Body[r]), RequestHash(r))
  BY <1>1, <1>2 DEF Injection, IsInjective, RequestHash
<1>4. line \in Surjection(1 .. Len(Body[r]), RequestHash(r))
  BY <1>1 DEF Surjection, RequestHash
<1>5. ExistsBijection(1 .. Len(Body[r]), RequestHash(r))
  BY <1>3, <1>4, Zenon DEF ExistsBijection, Bijection
<1> QED
  BY <1>1, <1>5, FS_CountingElements

\* A product of a request has a first line, and its quantity is a number.
LEMMA QuantityType ==
    ASSUME NEW r \in Requests, NEW p \in ProductsOf(r)
    PROVE  Quantity(r, p) \in Nat
<1> DEFINE named == {i \in 1 .. Len(Body[r]) : Body[r][i].product = p}
<1>1. named \in SUBSET Nat /\ named # {}
  BY LinesType DEF ProductsOf
<1>2. PICK first \in named : \A i \in named : first <= i
  <2> HIDE DEF named
  <2> QED
    BY <1>1, LeastElement
<1>3. {j \in 1 .. first : Body[r][j].product = Body[r][first].product} = {first}
  BY <1>1, <1>2, LinesType
<1>4. Place(r, first) = 1
  BY <1>3, FS_Singleton, Zenon DEF Place
<1>5. \E line \in RequestHash(r) : line[1] = p /\ line[2] = 1
  <2> DEFINE line == <<Body[r][first].product, Place(r, first), Body[r][first].quantity>>
  <2>1. line \in RequestHash(r)
    BY LinesType DEF RequestHash
  <2>2. line[1] = p /\ line[2] = 1
    BY <1>4
  <2> QED
    BY <2>1, <2>2
<1>6. \A line \in RequestHash(r) : line[3] \in Nat
  BY LinesType DEF RequestHash
<1> QED
  BY <1>5, <1>6 DEF Quantity

\* The products of a request are those of its hash.
LEMMA ProductsOfHash ==
    ASSUME NEW r \in Requests
    PROVE  ProductsOf(r) = {line[1] : line \in RequestHash(r)}
<1> DEFINE line(i) == <<Body[r][i].product, Place(r, i), Body[r][i].quantity>>
<1>1. \A i \in DOMAIN Body[r] : line(i)[1] = Body[r][i].product
  OBVIOUS
<1>2. RequestHash(r) = {line(i) : i \in DOMAIN Body[r]}
  BY Zenon DEF RequestHash
<1> HIDE DEF line
<1>3. {hashed[1] : hashed \in RequestHash(r)} = {line(i)[1] : i \in DOMAIN Body[r]}
  BY <1>2
<1> QED
  BY <1>1, <1>3 DEF ProductsOf

\* Two requests with one hash ask for the same quantities of the same products,
\* and can be ordered from the same shelf.
LEMMA SameHash ==
    ASSUME NEW r \in Requests, NEW o \in Requests, RequestHash(r) = RequestHash(o)
    PROVE  /\ ProductsOf(r) = ProductsOf(o)
           /\ \A p : Quantity(r, p) = Quantity(o, p)
           /\ \A onSale : Orderable(r, onSale) <=> Orderable(o, onSale)
<1>1. ProductsOf(r) = ProductsOf(o)
  BY ProductsOfHash
<1>2. \A p : Quantity(r, p) = Quantity(o, p)
  BY DEF Quantity
<1>3. Len(Body[r]) = Len(Body[o])
  BY HashLength
<1> QED
  BY <1>1, <1>2, <1>3 DEF Orderable

-----------------------------------------------------------------------------
(* Sums *)

\* What MapThenSumSet makes of a function: the sum of a set is that of the set
\* without some element, and that element's value.
Some(s) == CHOOSE x \in s : TRUE
SumsUp(sum, S, w) ==
    sum = [s \in SUBSET S |-> IF s = {} THEN 0 ELSE w[Some(s)] + sum[s \ {Some(s)}]]

\* The units that such a sum counts.
Units(s, w) == UNION {{x} \X (1 .. w[x]) : x \in s}

\* One element more brings the units it has.
LEMMA OneMore ==
    ASSUME NEW s, NEW x, x \notin s, NEW w, IsFiniteSet(s), IsFiniteSet(Units(s, w)), w[x] \in Nat
    PROVE  /\ IsFiniteSet(Units(s \union {x}, w))
           /\ Cardinality(Units(s \union {x}, w)) = Cardinality(Units(s, w)) + w[x]
<1> DEFINE new == {x} \X (1 .. w[x])
<1>1. IsFiniteSet(1 .. w[x]) /\ Cardinality(1 .. w[x]) = w[x]
  BY FS_Interval
<1>2. IsFiniteSet({x}) /\ Cardinality({x}) = 1
  BY FS_Singleton
<1>3. IsFiniteSet(new) /\ Cardinality(new) = w[x]
  <2>1. IsFiniteSet(new) /\ Cardinality(new) = Cardinality({x}) * Cardinality(1 .. w[x])
    BY <1>1, <1>2, FS_Product, Zenon
  <2> QED
    BY <1>1, <1>2, <2>1
<1>4. Units(s \union {x}, w) = Units(s, w) \union new
  BY DEF Units
<1>5. Units(s, w) \intersect new = {}
  BY DEF Units
<1>6. Cardinality(Units(s, w)) \in Nat
  BY FS_CardinalityType
<1> HIDE DEF new
<1>7. /\ IsFiniteSet(Units(s, w) \union new)
      /\ Cardinality(Units(s, w) \union new)
           = Cardinality(Units(s, w)) + Cardinality(new)
             - Cardinality(Units(s, w) \intersect new)
  BY <1>3, FS_Union, Zenon
<1>8. Cardinality(Units(s, w) \intersect new) = 0
  BY <1>5, FS_EmptySet
<1>9. Cardinality(Units(s, w) \union new) = Cardinality(Units(s, w)) + w[x]
  BY <1>3, <1>6, <1>7, <1>8
<1> QED
  BY <1>4, <1>7, <1>9

\* A finite set has finitely many units.
LEMMA FiniteUnits ==
    ASSUME NEW s, IsFiniteSet(s), NEW w, \A x \in s : w[x] \in Nat
    PROVE  IsFiniteSet(Units(s, w))
<1> DEFINE part == [x \in s |-> {x} \X (1 .. w[x])]
           parts == {part[x] : x \in s}
<1>1. IsFiniteSet(parts)
  <2>1. part \in Surjection(s, parts)
    BY DEF Surjection
  <2> QED
    BY <2>1, FS_Surjection, Zenon
<1>2. ASSUME NEW x \in s PROVE IsFiniteSet(part[x])
  <2>1. IsFiniteSet({x}) /\ IsFiniteSet(1 .. w[x])
    <3>1. 1 \in Int /\ w[x] \in Int
      OBVIOUS
    <3> QED
      BY <3>1, FS_Interval, FS_Singleton, Zenon
  <2>2. IsFiniteSet({x} \X (1 .. w[x]))
    BY <2>1, FS_Product, Zenon
  <2> QED
    BY <2>2
<1>3. \A units \in parts : IsFiniteSet(units)
  BY <1>2
<1> HIDE DEF parts
<1>4. IsFiniteSet(UNION parts)
  BY <1>1, <1>3, FS_UNION
<1> QED
  BY <1>4 DEF Units, parts

\* Counting units is a sum.
LEMMA CountSumsUp ==
    ASSUME NEW S, IsFiniteSet(S), NEW w, \A x \in S : w[x] \in Nat
    PROVE  SumsUp([s \in SUBSET S |-> Cardinality(Units(s, w))], S, w)
<1> SUFFICES ASSUME NEW s \in SUBSET S
             PROVE  Cardinality(Units(s, w)) =
                      IF s = {} THEN 0
                      ELSE w[Some(s)] + [t \in SUBSET S |-> Cardinality(Units(t, w))][s \ {Some(s)}]
  BY Zenon DEF SumsUp
<1>1. CASE s = {}
  <2>1. Units(s, w) = {}
    BY <1>1 DEF Units
  <2> QED
    BY <1>1, <2>1, FS_EmptySet
<1>2. CASE s # {}
  <2> DEFINE x == Some(s)
             rest == s \ {x}
  <2>1. x \in s
    BY <1>2 DEF Some
  <2>2. rest \in SUBSET S /\ s = rest \union {x} /\ x \notin rest
    BY <2>1
  <2> HIDE DEF x, rest
  <2>3. IsFiniteSet(rest) /\ w[x] \in Nat
    BY <2>1, <2>2, FS_Subset
  <2>4. IsFiniteSet(Units(rest, w))
    BY <2>2, <2>3, FiniteUnits
  <2>5. Cardinality(Units(s, w)) = Cardinality(Units(rest, w)) + w[x]
    BY <2>2, <2>3, <2>4, OneMore
  <2>6. Cardinality(Units(rest, w)) \in Nat
    BY <2>4, FS_CardinalityType
  <2> QED
    BY <1>2, <2>2, <2>3, <2>5, <2>6 DEF x, rest
<1> QED
  BY <1>1, <1>2

\* It is the only one: there is no smallest set on which another sum differs.
LEMMA SumsAreCounts ==
    ASSUME NEW S, IsFiniteSet(S), NEW w, \A x \in S : w[x] \in Nat, NEW sum, SumsUp(sum, S, w)
    PROVE  \A s \in SUBSET S : sum[s] = Cardinality(Units(s, w))
<1> DEFINE count == [s \in SUBSET S |-> Cardinality(Units(s, w))]
           bad == {s \in SUBSET S : sum[s] # count[s]}
           sizes == {Cardinality(s) : s \in bad}
<1>0. SumsUp(count, S, w)
  BY CountSumsUp
<1> SUFFICES bad = {}
  OBVIOUS
<1> SUFFICES ASSUME bad # {} PROVE FALSE
  OBVIOUS
<1>1. \A s \in SUBSET S : IsFiniteSet(s) /\ Cardinality(s) \in Nat
  BY FS_Subset, FS_CardinalityType
<1>2. sizes \in SUBSET Nat /\ sizes # {}
  BY <1>1
<1>3. PICK s \in bad : \A t \in bad : Cardinality(s) <= Cardinality(t)
  <2> HIDE DEF bad
  <2>1. PICK m \in sizes : \A n \in sizes : m <= n
    <3> HIDE DEF sizes
    <3> QED
      BY <1>2, LeastElement
  <2> QED
    BY <2>1
<1>4. s \in SUBSET S /\ sum[s] # count[s]
  OBVIOUS
<1>5. /\ sum[s] = IF s = {} THEN 0 ELSE w[Some(s)] + sum[s \ {Some(s)}]
      /\ count[s] = IF s = {} THEN 0 ELSE w[Some(s)] + count[s \ {Some(s)}]
  <2> HIDE DEF count
  <2> QED
    BY <1>0, <1>4, Zenon DEF SumsUp
<1>6. s # {} /\ sum[s \ {Some(s)}] # count[s \ {Some(s)}]
  BY <1>4, <1>5, Zenon
<1>7. Some(s) \in s
  BY <1>6 DEF Some
<1>8. s \ {Some(s)} \in bad
  BY <1>4, <1>6
<1>9. Cardinality(s \ {Some(s)}) = Cardinality(s) - 1
  BY <1>1, <1>4, <1>7, FS_RemoveElement
<1> HIDE DEF bad
<1> QED
  BY <1>1, <1>3, <1>4, <1>8, <1>9

\* What each request asks of a product.
Asked(p) == [o \in Requests |-> Quantity(o, p)]

\* The units that orders ask for are a sum of that kind, and can be counted.
LEMMA OrderedIsCount ==
    ASSUME NEW p, NEW of \in SUBSET Requests, IsFiniteSet(of)
    PROVE  LET asking == {o \in of : p \in ProductsOf(o)} IN
             /\ IsFiniteSet(Units(asking, Asked(p)))
             /\ Ordered(p, of) = Cardinality(Units(asking, Asked(p)))
<1> DEFINE asking == {o \in of : p \in ProductsOf(o)}
           w == Asked(p)
           Makes(sum) == sum = [s \in SUBSET asking |->
                                  IF s = {} THEN 0
                                  ELSE LET x == CHOOSE x \in s : TRUE
                                       IN  Quantity(x, p) + sum[s \ {x}]]
           total == CHOOSE sum : Makes(sum)
<1>1. IsFiniteSet(asking) /\ \A o \in asking : w[o] \in Nat
  BY FS_Subset, QuantityType DEF Asked
<1>2. Ordered(p, of) = total[asking]
  BY Zenon DEF Ordered, MapThenSumSet, MapThenFoldSet
<1>3. ASSUME NEW s \in SUBSET asking, s # {} PROVE Quantity(Some(s), p) = w[Some(s)]
  BY <1>3 DEF Asked, Some
<1>4. ASSUME NEW sum PROVE Makes(sum) <=> SumsUp(sum, asking, w)
  BY <1>3 DEF SumsUp, Some
<1>5. \E sum : SumsUp(sum, asking, w)
  <2> HIDE DEF asking, w
  <2> QED
    BY <1>1, CountSumsUp
<1>6. SumsUp(total, asking, w)
  <2> HIDE DEF Makes
  <2> QED
    BY <1>4, <1>5, Zenon
<1> HIDE DEF asking, w, total
<1>7. total[asking] = Cardinality(Units(asking, w))
  BY <1>1, <1>6, SumsAreCounts
<1>8. IsFiniteSet(Units(asking, w))
  BY <1>1, FiniteUnits
<1> QED
  BY <1>2, <1>7, <1>8 DEF asking, w

\* One order more asks for what it asks for.
LEMMA OrderedByOneMore ==
    ASSUME NEW p, NEW of \in SUBSET Requests, IsFiniteSet(of), NEW r \in Requests \ of
    PROVE  /\ Ordered(p, of) \in Nat
           /\ Ordered(p, of \union {r})
                = Ordered(p, of) + (IF p \in ProductsOf(r) THEN Quantity(r, p) ELSE 0)
<1> DEFINE asking == {o \in of : p \in ProductsOf(o)}
           more == {o \in of \union {r} : p \in ProductsOf(o)}
           w == Asked(p)
<1>1. IsFiniteSet(of \union {r})
  BY FS_AddElement
<1>2. /\ IsFiniteSet(Units(asking, w)) /\ Ordered(p, of) = Cardinality(Units(asking, w))
      /\ Ordered(p, of \union {r}) = Cardinality(Units(more, w))
  BY <1>1, OrderedIsCount
<1>3. Cardinality(Units(asking, w)) \in Nat
  BY <1>2, FS_CardinalityType
<1>4. CASE p \notin ProductsOf(r)
  <2>1. more = asking
    BY <1>4
  <2> HIDE DEF asking, more, w
  <2> QED
    BY <1>2, <1>3, <1>4, <2>1
<1>5. CASE p \in ProductsOf(r)
  <2>1. more = asking \union {r} /\ r \notin asking
    BY <1>5
  <2>2. IsFiniteSet(asking)
    BY FS_Subset
  <2>3. w[r] = Quantity(r, p) /\ w[r] \in Nat
    BY <1>5, QuantityType DEF Asked
  <2> HIDE DEF asking, more, w
  <2>4. Cardinality(Units(more, w)) = Cardinality(Units(asking, w)) + w[r]
    BY <1>2, <2>1, <2>2, <2>3, OneMore
  <2> QED
    BY <1>2, <1>3, <1>5, <2>3, <2>4
<1> QED
  BY <1>4, <1>5

-----------------------------------------------------------------------------
(* The first state, and facts of every step *)

USE RequestAssumption, StockAssumption, RetryAssumption, NameAssumption, NoneAssumption
    DEF RequestAssumption, StockAssumption, RetryAssumption, NameAssumption,
        NoneAssumption

\* A response with an error status, as Abort and Answer make them.
LEMMA ErrorResponse ==
    ASSUME NEW status \in {400, 409, 422, 500},
           NEW cause \in {"invalid", "reused_key", "unavailable", "unpriced", "insufficient",
                          "write_conflict", "unique_violation", "deadlock", "timeout",
                          "invalidation", "overflow"}
    PROVE  Response(status, None, cause) \in Responses
BY DEF Response, Responses

\* The database starts with no orders and no reserved units.
LEMMA InitCore == Init => CoreInv
<1> SUFFICES ASSUME Init PROVE CoreInv
  OBVIOUS
<1>1. NoResult \in Responses
  BY DEF NoResult, Response, Responses
<1>2. TypeOK
  BY <1>1 DEF Init, TypeOK, Row, InTransaction
<1> QED
  BY <1>2 DEF Init, CoreInv, LocksExclusive, LockedBeforeUse, ReservedIsCurrent,
     SnapshotsArePast, RowsAreOrders, UnansweredBeforeCommit, OneOrderPerKey,
     TruthfulAnswers, NoResult, Response, InTransaction

\* Rolling back and answering with an error preserves the invariant, if the
\* answer is 409 only when the key is booked for another payload.
LEMMA AbortCore ==
    ASSUME CoreInv, NEW r \in Requests, pc[r] = "begin" \/ InTransaction(r),
           NEW status \in {409, 422, 500},
           NEW cause \in {"reused_key", "unavailable", "unpriced", "insufficient", "write_conflict",
                          "unique_violation", "deadlock", "timeout", "overflow"},
           status = 409 => \E o \in orders : KeyOf[r] = KeyOf[o]
                                             /\ RequestHash(r) # RequestHash(o),
           Abort(r, status, cause)
    PROVE  CoreInv'
<1> USE DEF Abort, CloseTransaction, Answer, Goto, store, CoreInv
<1>1. Response(status, None, cause) \in Responses
  BY ErrorResponse
<1>2. TypeOK'
  BY <1>1 DEF TypeOK, InTransaction
<1>3. LocksExclusive' /\ LockedBeforeUse' /\ ReservedIsCurrent'
  BY DEF TypeOK, LocksExclusive, LockedBeforeUse, ReservedIsCurrent
<1>4. RowsAreOrders' /\ OneOrderPerKey'
  BY DEF RowsAreOrders, OneOrderPerKey
<1>5. SnapshotsArePast' /\ UnansweredBeforeCommit'
  BY DEF TypeOK, SnapshotsArePast, UnansweredBeforeCommit, InTransaction
<1>6. TruthfulAnswers'
  BY DEF TypeOK, TruthfulAnswers, UnansweredBeforeCommit, Response, InTransaction
<1> QED
  BY <1>2, <1>3, <1>4, <1>5, <1>6

\* So does starting over, or giving up after the last attempt.
LEMMA RetryCore ==
    ASSUME CoreInv, NEW r \in Requests, InTransaction(r),
           NEW cause \in {"write_conflict", "deadlock"},
           RetryOrGiveUp(r, cause)
    PROVE  CoreInv'
<1>1. CASE /\ MayRetry(r)
           /\ attempt' = [attempt EXCEPT ![r] = @ + 1]
           /\ CloseTransaction(r)
           /\ Goto(r, "begin")
           /\ UNCHANGED <<store, result>>
  <2> USE <1>1 DEF CloseTransaction, Goto, store, CoreInv
  <2>1. attempt' \in [Requests -> 0 .. MaxAttempts - 1]
    BY DEF TypeOK, MayRetry
  <2>2. TypeOK'
    BY <2>1 DEF TypeOK, InTransaction
  <2>3. LocksExclusive'
    BY DEF TypeOK, LocksExclusive
  <2>4. LockedBeforeUse'
    BY DEF TypeOK, LockedBeforeUse, LockNames
  <2>5. ReservedIsCurrent'
    BY DEF TypeOK, ReservedIsCurrent
  <2>6. RowsAreOrders' /\ OneOrderPerKey' /\ TruthfulAnswers'
    BY DEF RowsAreOrders, OneOrderPerKey, TruthfulAnswers
  <2>7. SnapshotsArePast' /\ UnansweredBeforeCommit'
    BY DEF TypeOK, SnapshotsArePast, UnansweredBeforeCommit, InTransaction
  <2> QED
    BY <2>2, <2>3, <2>4, <2>5, <2>6, <2>7
<1>2. CASE Abort(r, 500, cause)
  BY <1>2, AbortCore
<1> QED
  BY <1>1, <1>2 DEF RetryOrGiveUp

\* Steps that leave the store and the other requests' transactions alone.
LEMMA RefuseCore == ASSUME CoreInv, NEW r \in Requests, Refuse(r) PROVE CoreInv'
<1> USE DEF Refuse, Answer, Goto, store, CoreInv
<1>1. Response(400, None, "invalid") \in Responses
  BY ErrorResponse
<1>2. TypeOK'
  BY <1>1 DEF TypeOK, InTransaction
<1>3. LocksExclusive' /\ LockedBeforeUse' /\ ReservedIsCurrent'
  BY DEF TypeOK, LocksExclusive, LockedBeforeUse, ReservedIsCurrent
<1>4. RowsAreOrders' /\ OneOrderPerKey'
  BY DEF RowsAreOrders, OneOrderPerKey
<1>5. SnapshotsArePast' /\ UnansweredBeforeCommit'
  BY DEF TypeOK, SnapshotsArePast, UnansweredBeforeCommit, InTransaction
<1>6. TruthfulAnswers'
  BY DEF TypeOK, TruthfulAnswers, UnansweredBeforeCommit, Response, InTransaction
<1> QED
  BY <1>2, <1>3, <1>4, <1>5, <1>6

\* A request that starts has seen and locked nothing.
LEMMA StartCore == ASSUME CoreInv, NEW r \in Requests, Start(r) PROVE CoreInv'
<1> USE DEF Start, Goto, store, CoreInv
<1>1. TypeOK'
  BY DEF TypeOK, InTransaction
<1>2. LocksExclusive' /\ ReservedIsCurrent'
  BY DEF LocksExclusive, ReservedIsCurrent
<1>5. LockedBeforeUse'
  BY DEF TypeOK, LockedBeforeUse
<1>3. RowsAreOrders' /\ OneOrderPerKey' /\ TruthfulAnswers'
  BY DEF RowsAreOrders, OneOrderPerKey, TruthfulAnswers
<1>4. SnapshotsArePast' /\ UnansweredBeforeCommit'
  BY DEF TypeOK, SnapshotsArePast, UnansweredBeforeCommit, InTransaction
<1> QED
  BY <1>1, <1>2, <1>3, <1>4, <1>5

\* A transaction that begins sees what is committed, and has locked nothing.
LEMMA BeginCore == ASSUME CoreInv, NEW r \in Requests, Begin(r) PROVE CoreInv'
<1> USE DEF Begin, Goto, store, CoreInv
<1>1. [inv |-> inv, active |-> active, priced |-> priced, idem |-> idem] \in Snapshots
  BY DEF TypeOK, Snapshots
<1>2. TypeOK'
  BY <1>1 DEF TypeOK, InTransaction
<1>3. LocksExclusive' /\ LockedBeforeUse'
  BY DEF TypeOK, LocksExclusive, LockedBeforeUse
<1>4. reserved[r] = {}
  BY DEF TypeOK, InTransaction
<1>5. ReservedIsCurrent'
  BY <1>4 DEF TypeOK, ReservedIsCurrent
<1>6. RowsAreOrders' /\ OneOrderPerKey' /\ TruthfulAnswers'
  BY DEF RowsAreOrders, OneOrderPerKey, TruthfulAnswers
<1>7. SnapshotsArePast' /\ UnansweredBeforeCommit'
  BY DEF TypeOK, SnapshotsArePast, UnansweredBeforeCommit, InTransaction
<1> QED
  BY <1>2, <1>3, <1>5, <1>6, <1>7

\* A lock is granted only if nobody holds its number.
LEMMA AcquireLockCore == ASSUME CoreInv, NEW r \in Requests, AcquireLock(r) PROVE CoreInv'
<1> USE DEF CoreInv
<1>1. PICK name \in LockNames(r) :
        /\ IsNextLock(r, name)
        /\ \A other \in Requests \ {r} : ~Holds(other, LockId[name])
        /\ got' = [got EXCEPT ![r] = @ \union {name}]
  BY DEF AcquireLock
<1>2. /\ pc[r] = "locking"
      /\ pc' = [pc EXCEPT ![r] = IF got'[r] = LockNames(r) THEN "deciding" ELSE "locking"]
      /\ UNCHANGED <<store, attempt, snap, reserved, result>>
  BY DEF AcquireLock, Goto
<1>3. name \in Keys \union Products
  BY LinesType DEF LockNames
<1>4. TypeOK'
  BY <1>1, <1>2, <1>3 DEF TypeOK, InTransaction, store
<1>5. LocksExclusive'
  BY <1>1 DEF TypeOK, LocksExclusive, Holds
<1>6. LockedBeforeUse' /\ ReservedIsCurrent'
  BY <1>1, <1>2 DEF TypeOK, LockedBeforeUse, ReservedIsCurrent, store
<1>7. RowsAreOrders' /\ OneOrderPerKey' /\ TruthfulAnswers'
  BY <1>2 DEF RowsAreOrders, OneOrderPerKey, TruthfulAnswers, store
<1>8. SnapshotsArePast' /\ UnansweredBeforeCommit'
  BY <1>2 DEF TypeOK, SnapshotsArePast, UnansweredBeforeCommit, InTransaction, store
<1> QED
  BY <1>4, <1>5, <1>6, <1>7, <1>8

\* What the snapshot shows under the request's key is an order of that key.
LEMMA ExistingIsOrder ==
    ASSUME CoreInv, NEW r \in Requests, InTransaction(r), Existing(r) # None
    PROVE  /\ Existing(r).orderId \in orders
           /\ KeyOf[Existing(r).orderId] = KeyOf[r]
           /\ Existing(r).requestHash = RequestHash(Existing(r).orderId)
<1>1. Existing(r) = idem[KeyOf[r]]
  BY DEF CoreInv, SnapshotsArePast, Existing
<1>2. PICK o \in orders : KeyOf[o] = KeyOf[r] /\ idem[KeyOf[r]] = IdemRow(o)
  BY <1>1 DEF CoreInv, RowsAreOrders
<1> QED
  BY <1>1, <1>2 DEF IdemRow

\* A replay answers with that order, which is not its own.
LEMMA ReplayCore == ASSUME CoreInv, NEW r \in Requests, Replay(r) PROVE CoreInv'
<1> DEFINE res == Response(200, Existing(r).orderId, "none")
<1> USE DEF CoreInv
<1>1. /\ pc[r] = "deciding"
      /\ pc' = [pc EXCEPT ![r] = "invalidating"]
      /\ CloseTransaction(r)
      /\ result' = [result EXCEPT ![r] = res]
      /\ UNCHANGED <<store, attempt>>
  BY DEF Replay, Goto
<1>2. /\ Existing(r).orderId \in orders
      /\ SameRequest(r, Existing(r).orderId)
  BY ExistingIsOrder DEF Replay, SamePayload, SameRequest, InTransaction
<1>3. Existing(r).orderId # r
  BY <1>1, <1>2 DEF UnansweredBeforeCommit, InTransaction
<1>4. res \in Responses
  BY <1>2 DEF TypeOK, Response, Responses
<1>5. TypeOK'
  BY <1>1, <1>4 DEF TypeOK, InTransaction, CloseTransaction, store
<1>6. LocksExclusive' /\ LockedBeforeUse' /\ ReservedIsCurrent'
  BY <1>1 DEF TypeOK, LocksExclusive, LockedBeforeUse, ReservedIsCurrent,
     CloseTransaction, store
<1>7. RowsAreOrders' /\ OneOrderPerKey'
  BY <1>1 DEF RowsAreOrders, OneOrderPerKey, store
<1>8. SnapshotsArePast' /\ UnansweredBeforeCommit'
  BY <1>1 DEF TypeOK, SnapshotsArePast, UnansweredBeforeCommit, InTransaction,
     CloseTransaction, store
<1>9. TruthfulAnswers'
  <2> SUFFICES ASSUME NEW q \in Requests
               PROVE  TruthfulAnswers!(q)'
    BY DEF TruthfulAnswers
  <2>1. CASE q = r
    BY <2>1, <1>1, <1>2, <1>3 DEF TypeOK, Response, store
  <2>2. CASE q # r
    BY <2>2, <1>1 DEF TypeOK, TruthfulAnswers, store
  <2> QED
    BY <2>1, <2>2
<1> QED
  BY <1>5, <1>6, <1>7, <1>8, <1>9

\* An order whose lines are accepted goes on to its first reservation.
LEMMA AcceptLinesCore == ASSUME CoreInv, NEW r \in Requests, AcceptLines(r) PROVE CoreInv'
<1> USE DEF AcceptLines, Goto, store, CoreInv
<1>1. TypeOK'
  BY DEF TypeOK, InTransaction
<1>2. LocksExclusive' /\ ReservedIsCurrent'
  BY DEF LocksExclusive, ReservedIsCurrent
<1>3. LockedBeforeUse'
  BY DEF TypeOK, LockedBeforeUse
<1>4. RowsAreOrders' /\ OneOrderPerKey' /\ TruthfulAnswers'
  BY DEF RowsAreOrders, OneOrderPerKey, TruthfulAnswers
<1>5. SnapshotsArePast' /\ UnansweredBeforeCommit'
  BY DEF TypeOK, SnapshotsArePast, UnansweredBeforeCommit, InTransaction
<1> QED
  BY <1>1, <1>2, <1>3, <1>4, <1>5

\* The UPDATE succeeds on a row that is still the snapshot's.
LEMMA ReserveLineCore == ASSUME CoreInv, NEW r \in Requests, ReserveLine(r) PROVE CoreInv'
<1> USE DEF CoreInv
<1>1. PICK p \in Products :
        /\ IsNextLine(r, p)
        /\ EnoughInSnapshot(r, p)
        /\ RowUnchanged(r, p)
        /\ reserved' = [reserved EXCEPT ![r] = @ \union {p}]
  BY DEF ReserveLine
<1>2. pc[r] = "reserving" /\ UNCHANGED <<store, pc, attempt, snap, got, result>>
  BY DEF ReserveLine
<1>3. TypeOK'
  BY <1>1, <1>2 DEF TypeOK, InTransaction, store
<1>4. LocksExclusive' /\ LockedBeforeUse'
  BY <1>2 DEF LocksExclusive, LockedBeforeUse
<1>5. p \in ProductsOf(r) \intersect got[r] /\ inv[p].avail >= Quantity(r, p)
  BY <1>1, <1>2 DEF IsNextLine, LockedBeforeUse, LockNames, EnoughInSnapshot, RowUnchanged
<1>6. ReservedIsCurrent'
  BY <1>1, <1>2, <1>5 DEF TypeOK, ReservedIsCurrent, RowUnchanged, store
<1>7. RowsAreOrders' /\ OneOrderPerKey' /\ TruthfulAnswers'
  BY <1>2 DEF RowsAreOrders, OneOrderPerKey, TruthfulAnswers, store
<1>8. SnapshotsArePast' /\ UnansweredBeforeCommit'
  BY <1>2 DEF SnapshotsArePast, UnansweredBeforeCommit, InTransaction, store
<1> QED
  BY <1>3, <1>4, <1>6, <1>7, <1>8

\* The commit: the locks keep every other transaction off the rows it changes,
\* and the unique constraint keeps its key to one order.
LEMMA CommitCore == ASSUME CoreInv, NEW r \in Requests, Commit(r) PROVE CoreInv'
<1> DEFINE res == Response(202, r, "none")
<1> USE DEF CoreInv
<1>1. /\ pc[r] = "reserving"
      /\ reserved[r] = ProductsOf(r)
      /\ idem[KeyOf[r]] = None
      /\ inv' = [p \in Products |->
                    IF p \in reserved[r] THEN Take(inv[p], Quantity(r, p)) ELSE inv[p]]
      /\ idem' = [idem EXCEPT ![KeyOf[r]] = IdemRow(r)]
      /\ orders' = orders \union {r}
      /\ outbox' = outbox \union {r}
      /\ CloseTransaction(r)
      /\ pc' = [pc EXCEPT ![r] = "invalidating"]
      /\ result' = [result EXCEPT ![r] = res]
      /\ UNCHANGED <<active, priced, attempt>>
  BY DEF Commit, ReadyToInsert, KeyIsFree, Goto
<1>2. r \notin orders /\ KeyOf[r] \in Keys
  BY <1>1 DEF UnansweredBeforeCommit, InTransaction
<1>3. \A p \in reserved[r] : /\ Quantity(r, p) \in Nat
                             /\ inv[p].avail >= Quantity(r, p)
  BY <1>1, QuantityType DEF ReservedIsCurrent
<1>4. TypeOK'
  <2>1. inv' \in [Products -> Row]
    <3> SUFFICES ASSUME NEW p \in Products PROVE inv'[p] \in Row
      BY <1>1
    <3>1. inv[p] \in Row
      BY DEF TypeOK
    <3> QED
      BY <3>1, <1>1, <1>3 DEF Take, Row
  <2>2. idem' \in [Keys -> IdemRows \union {None}]
    BY <1>1, <1>2 DEF TypeOK, IdemRows
  <2>3. result' \in [Requests -> Responses]
    BY <1>1 DEF TypeOK, Response, Responses
  <2> QED
    BY <1>1, <2>1, <2>2, <2>3 DEF TypeOK, InTransaction, CloseTransaction
<1>5. LocksExclusive' /\ LockedBeforeUse'
  BY <1>1 DEF TypeOK, LocksExclusive, LockedBeforeUse, CloseTransaction
<1>6. \A q \in Requests \ {r} : reserved[q] \intersect reserved[r] = {}
  <2> SUFFICES ASSUME NEW q \in Requests, NEW p \in reserved[q], p \in reserved[r]
               PROVE  q = r
    OBVIOUS
  <2>1. p \in got[q] /\ p \in got[r]
    BY DEF ReservedIsCurrent
  <2> QED
    BY <2>1 DEF LocksExclusive
<1>7. ReservedIsCurrent'
  <2> SUFFICES ASSUME NEW q \in Requests, NEW p \in reserved'[q]
               PROVE  ReservedIsCurrent!(q)!(p)'
    BY DEF ReservedIsCurrent
  <2>1. q # r /\ reserved'[q] = reserved[q] /\ got'[q] = got[q] /\ snap'[q] = snap[q]
    BY <1>1 DEF CloseTransaction, TypeOK
  <2>2. p \notin reserved[r] /\ p \in Products
    BY <2>1, <1>6 DEF TypeOK
  <2>3. inv'[p] = inv[p]
    BY <2>2, <1>1
  <2> QED
    BY <2>1, <2>3 DEF ReservedIsCurrent
<1>9. SnapshotsArePast' /\ UnansweredBeforeCommit'
  <2>1. SnapshotsArePast'
    <3> SUFFICES ASSUME NEW q \in Requests, InTransaction(q)', NEW k \in Keys
                 PROVE  (snap[q].idem[k] \in {None, idem[k]})'
      BY DEF SnapshotsArePast
    <3>1. q # r /\ InTransaction(q) /\ snap'[q] = snap[q]
      BY <1>1 DEF TypeOK, CloseTransaction, InTransaction
    <3>2. snap[q].idem[k] \in {None, idem[k]}
      BY <3>1 DEF SnapshotsArePast
    <3>3. k # KeyOf[r] => idem'[k] = idem[k]
      BY <1>1 DEF TypeOK
    <3> QED
      BY <3>1, <3>2, <3>3, <1>1
  <2>2. UnansweredBeforeCommit'
    BY <1>1 DEF TypeOK, UnansweredBeforeCommit, InTransaction
  <2> QED
    BY <2>1, <2>2
<1>10. OneOrderPerKey'
  <2>1. \A k \in Keys : idem'[k] = IF k = KeyOf[r] THEN IdemRow(r) ELSE idem[k]
    BY <1>1 DEF TypeOK
  <2>2. \A o \in orders : o \in Requests /\ KeyOf[o] \in Keys /\ KeyOf[o] # KeyOf[r]
    BY <1>1 DEF TypeOK, OneOrderPerKey
  <2>3. IdemRow(r).orderId = r
    BY DEF IdemRow
  <2> QED
    BY <1>1, <1>2, <2>1, <2>2, <2>3 DEF OneOrderPerKey
<1>11. RowsAreOrders'
  BY <1>1 DEF TypeOK, RowsAreOrders
<1>12. TruthfulAnswers'
  <2> SUFFICES ASSUME NEW q \in Requests PROVE TruthfulAnswers!(q)'
    BY DEF TruthfulAnswers
  <2>1. CASE q = r
    BY <2>1, <1>1 DEF TypeOK, Response
  <2>2. CASE q # r
    BY <2>2, <1>1 DEF TypeOK, TruthfulAnswers
  <2> QED
    BY <2>1, <2>2
<1> QED
  BY <1>4, <1>5, <1>7, <1>9, <1>10, <1>11, <1>12

\* A transaction that ends with an answer to the customer releases its locks.
LEMMA RespondCore == ASSUME CoreInv, NEW r \in Requests, Respond(r) PROVE CoreInv'
<1> USE DEF Respond, Goto, store, CoreInv
<1>1. TypeOK'
  BY DEF TypeOK, InTransaction
<1>2. LocksExclusive' /\ ReservedIsCurrent'
  BY DEF LocksExclusive, ReservedIsCurrent
<1>3. LockedBeforeUse'
  BY DEF TypeOK, LockedBeforeUse
<1>4. RowsAreOrders' /\ OneOrderPerKey' /\ TruthfulAnswers'
  BY DEF RowsAreOrders, OneOrderPerKey, TruthfulAnswers
<1>5. SnapshotsArePast' /\ UnansweredBeforeCommit'
  BY DEF TypeOK, SnapshotsArePast, UnansweredBeforeCommit, InTransaction
<1> QED
  BY <1>1, <1>2, <1>3, <1>4, <1>5

\* An invalidation that throws after the commit changes the answer alone.
LEMMA InvalidationFailureCore ==
    ASSUME CoreInv, NEW r \in Requests, InvalidationFailure(r) PROVE CoreInv'
<1> USE DEF InvalidationFailure, Answer, Goto, store, CoreInv
<1>1. Response(500, None, "invalidation") \in Responses
  BY ErrorResponse
<1>2. TypeOK'
  BY <1>1 DEF TypeOK, InTransaction
<1>3. LocksExclusive' /\ LockedBeforeUse' /\ ReservedIsCurrent'
  BY DEF TypeOK, LocksExclusive, LockedBeforeUse, ReservedIsCurrent
<1>4. RowsAreOrders' /\ OneOrderPerKey'
  BY DEF RowsAreOrders, OneOrderPerKey
<1>5. SnapshotsArePast' /\ UnansweredBeforeCommit'
  BY DEF TypeOK, SnapshotsArePast, UnansweredBeforeCommit, InTransaction
<1>6. TruthfulAnswers'
  BY DEF TypeOK, TruthfulAnswers, Response
<1> QED
  BY <1>2, <1>3, <1>4, <1>5, <1>6

\* A crash forgets every open transaction and keeps the store.
LEMMA CrashCore == ASSUME CoreInv, Crash PROVE CoreInv'
<1> USE DEF Crash, store, CoreInv
<1>1. NoResult \in Responses
  BY DEF NoResult, Response, Responses
<1>2. TypeOK'
  BY <1>1 DEF TypeOK, InTransaction, InFlight
<1>3. LocksExclusive' /\ LockedBeforeUse' /\ ReservedIsCurrent'
  BY DEF InTransaction, InFlight, LocksExclusive, LockedBeforeUse, ReservedIsCurrent
<1>4. RowsAreOrders' /\ OneOrderPerKey'
  BY DEF RowsAreOrders, OneOrderPerKey
<1>5. SnapshotsArePast' /\ UnansweredBeforeCommit'
  BY DEF TypeOK, SnapshotsArePast, UnansweredBeforeCommit, InTransaction, InFlight
<1>6. TruthfulAnswers'
  BY DEF TypeOK, TruthfulAnswers, NoResult, Response
<1> QED
  BY <1>2, <1>3, <1>4, <1>5, <1>6

\* Every step of the checkout preserves it.
LEMMA CoreStep == CoreInv /\ [Next]_vars => CoreInv'
<1> SUFFICES ASSUME CoreInv, [Next]_vars PROVE CoreInv'
  OBVIOUS
<1>1. ASSUME NEW r \in Requests, Proceed(r) PROVE CoreInv'
  <2>1. CASE Begin(r) \/ AcquireLock(r) \/ Respond(r)
    BY <2>1, BeginCore, AcquireLockCore, RespondCore
  <2>2. CASE RejectReusedKey(r)
    <3>1. InTransaction(r)
      BY <2>2 DEF RejectReusedKey, InTransaction
    <3>2. \E o \in orders : KeyOf[r] = KeyOf[o] /\ RequestHash(r) # RequestHash(o)
      BY <2>2, <3>1, ExistingIsOrder DEF RejectReusedKey, SamePayload
    <3> QED
      BY <2>2, <3>1, <3>2, AbortCore DEF RejectReusedKey
  <2>3. CASE Replay(r) \/ AcceptLines(r) \/ ReserveLine(r) \/ Commit(r)
    BY <2>3, ReplayCore, AcceptLinesCore, ReserveLineCore, CommitCore
  <2>4. CASE \/ RejectUnavailable(r) \/ RejectUnpriced(r) \/ RejectInsufficient(r)
             \/ Overflow(r)
    BY <2>4, AbortCore DEF RejectUnavailable, RejectUnpriced, RejectInsufficient, Overflow,
       ReadyToInsert, InTransaction
  <2>5. CASE WriteConflict(r)
    BY <2>5, RetryCore DEF WriteConflict, InTransaction
  <2>6. CASE DuplicateKey(r)
    BY <2>6, RetryCore, AbortCore DEF DuplicateKey, ReadyToInsert, InTransaction
  <2>7. CASE DeadlockVictim(r)
    <3>1. InTransaction(r)
      BY <2>7 DEF DeadlockVictim, InLockCycle, InTransaction
    <3> QED
      BY <2>7, <3>1, RetryCore, AbortCore DEF DeadlockVictim
  <2> QED
    BY <1>1, <2>1, <2>2, <2>3, <2>4, <2>5, <2>6, <2>7 DEF Proceed, Decide, Reserve, Insert
<1>2. ASSUME NEW r \in Requests, Fault(r) PROVE CoreInv'
  <2>1. CASE SerializationFailure(r)
    BY <2>1, RetryCore DEF SerializationFailure, InTransaction
  <2>2. CASE TransactionTimeout(r)
    BY <2>2, AbortCore DEF TransactionTimeout
  <2>3. CASE InvalidationFailure(r)
    BY <2>3, InvalidationFailureCore
  <2> QED
    BY <1>2, <2>1, <2>2, <2>3 DEF Fault
<1>3. CASE UNCHANGED vars
  BY <1>3 DEF vars, store, request, CoreInv, TypeOK, LocksExclusive, LockedBeforeUse,
     ReservedIsCurrent, SnapshotsArePast, RowsAreOrders,
     UnansweredBeforeCommit, OneOrderPerKey, TruthfulAnswers, InTransaction
<1> QED
  BY <1>1, <1>2, <1>3, RefuseCore, StartCore, CrashCore DEF Next, AllFinished

\* Only a commit writes to the database.
LEMMA OnlyCommitWrites ==
    [Next]_vars => UNCHANGED store \/ \E r \in Requests : Commit(r)
<1> SUFFICES ASSUME [Next]_vars PROVE UNCHANGED store \/ \E r \in Requests : Commit(r)
  OBVIOUS
<1>1. \A status, cause : \A r \in Requests : Abort(r, status, cause) => UNCHANGED store
  BY DEF Abort
<1>2. \A cause : \A r \in Requests : RetryOrGiveUp(r, cause) => UNCHANGED store
  BY <1>1 DEF RetryOrGiveUp
<1>3. ASSUME NEW r \in Requests, Proceed(r) PROVE UNCHANGED store \/ Commit(r)
  BY <1>1, <1>2, <1>3 DEF Proceed, Begin, AcquireLock, DeadlockVictim, Decide,
     RejectReusedKey, Replay, RejectUnavailable, RejectUnpriced, AcceptLines, Reserve,
     ReserveLine, RejectInsufficient, WriteConflict, Overflow, Insert, DuplicateKey, Respond
<1>4. \A r \in Requests : Fault(r) => UNCHANGED store
  BY <1>1, <1>2 DEF Fault, SerializationFailure, TransactionTimeout, InvalidationFailure
<1>5. \A r \in Requests : Refuse(r) \/ Start(r) => UNCHANGED store
  BY DEF Refuse, Start
<1>6. Crash \/ UNCHANGED vars => UNCHANGED store
  BY DEF Crash, vars
<1> QED
  BY <1>3, <1>4, <1>5, <1>6 DEF Next, AllFinished

\* What a commit does to a row: every product of the order has that many units,
\* and they are taken.
LEMMA CommitTakes ==
    ASSUME CoreInv, NEW r \in Requests, Commit(r), NEW p \in Products
    PROVE  /\ inv[p] \in Row /\ inv'[p] \in Row
           /\ p \notin ProductsOf(r) => inv'[p] = inv[p]
           /\ p \in ProductsOf(r) => /\ Quantity(r, p) \in Nat
                                     /\ inv[p] = snap[r].inv[p]
                                     /\ inv[p].avail >= Quantity(r, p)
                                     /\ inv'[p] = Take(inv[p], Quantity(r, p))
<1>1. /\ reserved[r] = ProductsOf(r)
      /\ inv' = [q \in Products |->
                    IF q \in reserved[r] THEN Take(inv[q], Quantity(r, q)) ELSE inv[q]]
  BY DEF Commit, ReadyToInsert
<1>2. p \in ProductsOf(r) => /\ Quantity(r, p) \in Nat
                             /\ inv[p] = snap[r].inv[p]
                             /\ inv[p].avail >= Quantity(r, p)
  BY <1>1, QuantityType DEF CoreInv, ReservedIsCurrent
<1>3. inv[p] \in Row
  BY DEF CoreInv, TypeOK
<1>4. inv'[p] = IF p \in ProductsOf(r) THEN Take(inv[p], Quantity(r, p)) ELSE inv[p]
  BY <1>1
<1>5. p \in ProductsOf(r) => Take(inv[p], Quantity(r, p)) \in Row
  BY <1>2, <1>3 DEF Take, Row
<1> QED
  BY <1>2, <1>3, <1>4, <1>5

\* The stock is conserved, too.
LEMMA InductiveStep == IInv /\ [Next]_vars => IInv'
<1> SUFFICES ASSUME IInv, [Next]_vars PROVE IInv'
  OBVIOUS
<1>1. CoreInv /\ CoreInv'
  BY CoreStep DEF IInv
<1>2. CASE UNCHANGED store
  BY <1>1, <1>2 DEF IInv, StockConserved, store
<1>3. ASSUME NEW r \in Requests, Commit(r), NEW p \in Products
      PROVE  inv'[p].avail >= 0 /\ inv'[p].avail + inv'[p].reserved = InitialQty[p]
  <2>1. inv[p].avail >= 0 /\ inv[p].avail + inv[p].reserved = InitialQty[p]
    BY DEF IInv, StockConserved
  <2>2. inv[p] \in Row
    BY <1>1 DEF CoreInv, TypeOK
  <2>3. CASE p \notin ProductsOf(r)
    BY <1>1, <1>3, <2>1, <2>3, CommitTakes
  <2>4. CASE p \in ProductsOf(r)
    <3>1. Quantity(r, p) \in Nat /\ inv[p].avail >= Quantity(r, p)
          /\ inv'[p] = Take(inv[p], Quantity(r, p))
      BY <1>1, <1>3, <2>4, CommitTakes
    <3> QED
      BY <2>1, <2>2, <3>1 DEF Take, Row
  <2> QED
    BY <2>3, <2>4
<1> QED
  BY <1>1, <1>2, <1>3, OnlyCommitWrites DEF IInv, StockConserved

\* At first nothing is reserved, locked or ordered, and the stock is the initial one.
LEMMA InitIInv == Init => IInv
BY InitCore DEF Init, IInv, StockConserved

\* Every reachable state satisfies the inductive invariant.
THEOREM Invariance == Spec => []IInv
BY InitIInv, InductiveStep, PTL DEF Spec

\* Every variable always has a value the code can give it.
THEOREM TypeCorrect == Spec => []TypeOK
<1>1. IInv => TypeOK
  BY DEF IInv, CoreInv
<1> QED
  BY <1>1, Invariance, PTL

\* However many checkouts overlap, retry or die: no unit is lost or sold twice.
THEOREM StockSafe == Spec => []StockConserved
<1>1. IInv => StockConserved
  BY DEF IInv, CoreInv
<1> QED
  BY <1>1, Invariance, PTL

\* An idempotency key never buys twice, and its row, order and event agree.
THEOREM IdempotencySafe == Spec => []OneOrderPerKey
<1>1. IInv => OneOrderPerKey
  BY DEF IInv, CoreInv
<1> QED
  BY <1>1, Invariance, PTL

\* What keeps the sum right: finitely many orders, and the sum itself.
Booked == IsFiniteSet(orders) /\ ReservedMatchesOrders

\* A commit reserves what its order asks for, and nothing else reserves.
LEMMA BookedStep == CoreInv /\ Booked /\ [Next]_vars => Booked'
<1> SUFFICES ASSUME CoreInv, Booked, [Next]_vars PROVE Booked'
  OBVIOUS
<1>1. CoreInv /\ orders \in SUBSET Requests
  BY DEF CoreInv, TypeOK
<1>2. CASE UNCHANGED store
  BY <1>2 DEF Booked, ReservedMatchesOrders, store
<1>3. ASSUME NEW r \in Requests, Commit(r) PROVE Booked'
  <2>1. orders' = orders \union {r}
    BY <1>3 DEF Commit
  <2>2. r \in Requests \ orders
    <3>1. idem[KeyOf[r]] = None /\ IdemRow(r) # None
      BY <1>3 DEF Commit, KeyIsFree
    <3> QED
      BY <1>1, <3>1 DEF CoreInv, OneOrderPerKey
  <2>3. IsFiniteSet(orders')
    BY <2>1, FS_AddElement DEF Booked
  <2>4. ASSUME NEW p \in Products PROVE inv'[p].reserved = Ordered(p, orders')
    <3>1. inv[p].reserved = Ordered(p, orders)
      BY DEF Booked, ReservedMatchesOrders
    <3>2. /\ Ordered(p, orders) \in Nat
          /\ Ordered(p, orders')
               = Ordered(p, orders) + (IF p \in ProductsOf(r) THEN Quantity(r, p) ELSE 0)
      BY <1>1, <2>1, <2>2, OrderedByOneMore DEF Booked
    <3>3. CASE p \notin ProductsOf(r)
      <4>1. inv'[p] = inv[p]
        BY <1>1, <1>3, <3>3, CommitTakes
      <4> QED
        BY <3>1, <3>2, <3>3, <4>1
    <3>4. CASE p \in ProductsOf(r)
      <4>1. inv'[p] = Take(inv[p], Quantity(r, p))
        BY <1>1, <1>3, <3>4, CommitTakes
      <4>2. inv'[p].reserved = inv[p].reserved + Quantity(r, p)
        BY <4>1 DEF Take
      <4> QED
        BY <3>1, <3>2, <3>4, <4>2
    <3> QED
      BY <3>3, <3>4
  <2> QED
    BY <2>3, <2>4 DEF Booked, ReservedMatchesOrders
<1> QED
  BY <1>2, <1>3, OnlyCommitWrites

\* Nothing is reserved for no orders.
LEMMA BookedInit == Init => Booked
<1> SUFFICES ASSUME Init, NEW p \in Products PROVE inv[p].reserved = Ordered(p, {})
  BY FS_EmptySet DEF Init, Booked, ReservedMatchesOrders
<1>1. inv[p].reserved = 0
  BY DEF Init
<1>2. Ordered(p, {}) = Cardinality({})
  <2>1. /\ {} \in SUBSET Requests /\ IsFiniteSet({})
        /\ Units({o \in {} : p \in ProductsOf(o)}, Asked(p)) = {}
    BY FS_EmptySet DEF Units
  <2> QED
    BY <2>1, OrderedIsCount
<1> QED
  BY <1>1, <1>2, FS_EmptySet

\* However often requests are retried, repeated or cut off: what is reserved is
\* the sum of what the committed orders ask for.
THEOREM ReservationsAdd == Spec => []ReservedMatchesOrders
<1>1. Booked => ReservedMatchesOrders
  BY DEF Booked
<1> QED
  BY <1>1, InitCore, CoreStep, BookedInit, BookedStep, PTL DEF Spec

\* No client is told of a purchase that did not happen, or of none that did.
THEOREM AnswersTrue == Spec => []TruthfulAnswers
<1>1. IInv => TruthfulAnswers
  BY DEF IInv, CoreInv
<1> QED
  BY <1>1, Invariance, PTL
=============================================================================
