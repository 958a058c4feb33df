---------------------------- MODULE CheckoutData ----------------------------
(***************************************************************************)
(* The requests POST /checkout receives, the seeded stock, and the pure    *)
(* functions CheckoutService applies to a request before it opens a        *)
(* transaction (validateRequest, normalizeRequest, hashRequest).  Shared   *)
(* by the mechanism (Checkout) and by what it promises (OrderDesk).        *)
(***************************************************************************)
EXTENDS Integers, Sequences, FiniteSetsExt

CONSTANTS
    Requests,     \* the HTTP requests that may be sent
    Keys,         \* (X-Customer-Id, Idempotency-Key) pairs
    Products,     \* product ids, as numbers: their order is the lock order
    KeyOf,        \* the pair each request carries
    Body,         \* the lines of each request, in the order the client sent
    InitialQty,   \* units of each product when the database is seeded
    InitialActive,\* the products that are active then
    InitialPriced,\* the products that have a price then: the schema does not ask for one
    Price,        \* the price of each product, in cents
    MaxInt,       \* the largest value of an Int column (2^31 - 1 in the code)
    None          \* no value

Quantities == 0 .. 99   \* 0 stands for every quantity validateRequest refuses
Lines == [product : Products, quantity : Quantities]

ASSUME RequestAssumption ==
    /\ Products \subseteq Nat
    /\ KeyOf \in [Requests -> Keys]
    /\ Body \in [Requests -> Seq(Lines)]

ASSUME StockAssumption ==
    /\ InitialQty \in [Products -> Nat]
    /\ InitialActive \subseteq Products
    /\ InitialPriced \subseteq Products
    /\ \A p \in Products : InitialQty[p] <= MaxInt

ASSUME PriceAssumption ==
    /\ Price \in [Products -> Nat]
    /\ MaxInt \in Nat

ASSUME NameAssumption ==
    /\ None \notin Requests
    /\ Keys \intersect Products = {}

-----------------------------------------------------------------------------
(* Requests *)

ProductsOf(r) == {Body[r][i].product : i \in DOMAIN Body[r]}

Valid(r) ==
    /\ Body[r] # << >>
    /\ \A i \in DOMAIN Body[r] : Body[r][i].quantity > 0

\* The place of a line among the lines of the same product.
Place(r, i) == Cardinality({j \in 1 .. i : Body[r][j].product = Body[r][i].product})

\* The lines stably sorted by product, which is all normalizeRequest keeps of
\* the order the client sent: lines of different products commute, lines of
\* the same product do not.  SHA-256 is taken to be injective.
RequestHash(r) ==
    {<<Body[r][i].product, Place(r, i), Body[r][i].quantity>> : i \in DOMAIN Body[r]}

\* What is asked of a product; an orderable request names it on one line only.
Quantity(r, p) == (CHOOSE line \in RequestHash(r) : line[1] = p /\ line[2] = 1)[3]

Total(r) == MapThenSumSet(LAMBDA p : Quantity(r, p) * Price[p], ProductsOf(r))

\* The value fits its column; the client library refuses to send one that does not.
Storable(n) == n <= MaxInt

\* The same purchase, sent again under the same key.
SameRequest(r, o) == KeyOf[r] = KeyOf[o] /\ RequestHash(r) = RequestHash(o)

\* findMany returns each product once, so a product named on two lines makes
\* the lengths differ just as an unknown or inactive product does.
Orderable(r, onSale) == Cardinality(ProductsOf(r) \intersect onSale) = Len(Body[r])

\* What the seeded catalog can be sold of a request, as far as its stock goes.
Sellable(r) == Orderable(r, InitialActive) /\ ProductsOf(r) \subseteq InitialPriced
=============================================================================
