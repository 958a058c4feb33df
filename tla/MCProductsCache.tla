--------------------------- MODULE MCProductsCache --------------------------
(* Two calls, each for one of two lists or for a product; a checkout of that *)
(* product; two syncs, which find the brands of the products exchanged.      *)
EXTENDS ProductsCache, TLC

CONSTANTS R1, R2, B1, P1, P2, S1, S2

MCBought == [b \in Buyers |-> P1]
MCStock  == [p \in Products |-> 1]

MCNormal  == "" :> "" @@ " Moto " :> "moto"
MCIdPlace == P1 :> 1 @@ P2 :> 2

ByAcme == [brand |-> "acme", devices |-> {}, price |-> 1, relevance |-> 0]
ByMoto == [brand |-> "moto", devices |-> {}, price |-> 2, relevance |-> 0]

MCLooks     == {ByAcme, ByMoto}
MCFirstLook == P1 :> ByAcme @@ P2 :> ByMoto
MCOffers    == P1 :> {[on |-> TRUE, look |-> ByMoto]} @@ P2 :> {[on |-> TRUE, look |-> ByAcme]}

\* The whole shop, one brand, and the second page of a shop with small pages.
Front   == [brand |-> "", device |-> "", sort |-> "", page |-> 0, pageSize |-> 0]
Moto    == [Front EXCEPT !.brand = " Moto "]
Dearest == [Front EXCEPT !.sort = "price_desc", !.page = 2, !.pageSize = 1]

MCQueries == {Front, Moto}
MCTargets == {Front, Moto, P1}

\* Calls that meet somewhere: in the lock of a list, in the cards and the
\* hydration locks of two lists, in the card of a product.
Pairs == {{Moto}, {Front, Moto}, {Front, P1}, {P1}}

MCInit == Init /\ {target[r] : r \in Readers} \in Pairs

NoSync  == \A c \in Syncs : written[c] = {}
OneSync == \E c \in Syncs : written[c] = {}
AllOn   == \A p \in Products : row[p].on
Asked   == {target[r] : r \in Readers}

\* Checkouts, syncs and expiring locks are combined where they meet: checkouts and
\* syncs in the card of a product, overlapping syncs in one list or one card, expiring
\* locks and a sync in one list.  The ERP lists P1 before P2.
Explored ==
    /\ \A c \in Syncs : written[c] # {P2}
    /\ \/ bpc[B1] = "start"
       \/ NoSync
       \/ OneSync /\ Asked = {P1}
    /\ \/ OneSync
       \/ Asked = {P1}
       \/ Asked = {Moto} /\ AllOn
    /\ \/ expiries = 0
       \/ OneSync /\ Asked = {Moto}

MCSpec == MCInit /\ [][Next]_vars

\* The pages of a query are the products on sale that match it, each once.
ASSUME PagesPartition ==
    \A on \in SUBSET Products : \A onSale \in [on -> Looks] :
        LET q == normalizeQuery(Dearest) IN
        /\ UNION {Page([q EXCEPT !.page = n], onSale) : n \in 1 .. 3} = on
        /\ \A n \in 1 .. 3 : Cardinality(Page([q EXCEPT !.page = n], onSale)) <= q.pageSize

Calls == Permutations({R1, R2}) \union Permutations({S1, S2})
=============================================================================
