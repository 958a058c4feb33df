----------------------------- MODULE MCCheckout -----------------------------
(* Instances of Checkout for TLC. *)
EXTENDS Checkout, TLC

CONSTANTS k1, k2, k3, r1, r2, r3, r4, r5

Line(p, n) == [product |-> p, quantity |-> n]

\* hashtext with no collision, and one that makes two requests wait in a cycle:
\* the key of each has the number of the other's product.
Injective == k1 :> 101 @@ k2 :> 102 @@ 1 :> 1 @@ 2 :> 2 @@ 3 :> 3
Colliding == k1 :> 101 @@ k2 :> 102 @@ k3 :> 103 @@ 1 :> 102 @@ 2 :> 101 @@ 3 :> 3 @@ 4 :> 4

\* Cheap products, and one whose price does not fit the column.
Cheap == [p \in Products |-> 1]
Dear  == 1 :> 1 @@ 2 :> 1 @@ 3 :> 10 @@ 4 :> 1

\* One purchase sent twice with its lines in another order, its key reused for
\* something else, and a competitor for the stock.
MixKeyOf == r1 :> k1 @@ r2 :> k1 @@ r3 :> k1 @@ r4 :> k2
MixBody  == r1 :> <<Line(1, 2), Line(2, 1)>> @@ r2 :> <<Line(2, 1), Line(1, 2)>>
            @@ r3 :> <<Line(3, 1)>> @@ r4 :> <<Line(2, 1), Line(1, 1)>>
MixQty   == 1 :> 2 @@ 2 :> 1 @@ 3 :> 1

\* Two requests whose locks collide, one of which has a total that overflows once
\* both lines are reserved, and three that are turned away: a product on two lines, a
\* product without a price, a line of nothing.
OddKeyOf == r1 :> k1 @@ r2 :> k2 @@ r3 :> k3 @@ r4 :> k3 @@ r5 :> k3
OddBody  == r1 :> <<Line(1, 1)>> @@ r2 :> <<Line(2, 1), Line(3, 1)>>
            @@ r3 :> <<Line(2, 1), Line(2, 1)>> @@ r4 :> <<Line(4, 1)>>
            @@ r5 :> <<Line(1, 0)>>
OddQty   == 1 :> 1 @@ 2 :> 3 @@ 3 :> 1 @@ 4 :> 1

\* Everybody wants one unit of the same product, each under a key of its own.
HotKeyOf == [r \in Requests |-> r]
HotBody  == [r \in Requests |-> <<Line(1, 1)>>]
HotQty   == 1 :> Cardinality(Requests)
HotLock  == [name \in Keys \union Products |-> name]
Crowd    == Permutations(Requests)
=============================================================================
