---------------------------- MODULE MCCatalogSync ---------------------------
(* Instances of CatalogSync for TLC. *)
EXTENDS CatalogSync, TLC

CONSTANTS k1, k2, r1, r2

Line(p, n) == [product |-> p, quantity |-> n]
Entry(n, on) == [qty |-> n, active |-> on]

SyncKeyOf == r1 :> k1 @@ r2 :> k2
SyncBody  == r1 :> <<Line(1, 1)>> @@ r2 :> <<Line(1, 1)>>
SyncLock  == k1 :> 101 @@ k2 :> 102 @@ 1 :> 1 @@ 2 :> 2
SyncPrice == 1 :> 1 @@ 2 :> 1
SyncQty   == 1 :> 2 @@ 2 :> 0

\* Everybody wants product 1, which the ERP restocks, while it pauses product 2;
\* or it lists nothing at all.
Restocked == 1 :> Entry(2, TRUE) @@ 2 :> Entry(1, FALSE)
Catalogs  == {Restocked, NoList}
=============================================================================
