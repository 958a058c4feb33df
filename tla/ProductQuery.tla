---------------------------- MODULE ProductQuery ----------------------------
(***************************************************************************)
(* The pure part of ProductsService.listProducts                           *)
(* (apps/api/src/products/products.service.ts): how a query is normalized, *)
(* the key its list is cached under, and the page of products it selects.  *)
(* A text is a value; what trim and toLowerCase make of it is given.  What *)
(* queries select and sort by is the look of a product, which changes when *)
(* a catalog sync writes it.                                               *)
(***************************************************************************)
EXTENDS Integers, FiniteSets

CONSTANTS
    Products,  \* product ids
    Queries,   \* query parameters as the controller passes them
    Normal,    \* trim and toLowerCase of a text, "" for a text that is not given
    Looks,     \* brand in lower case, slugs of the device models it fits, price (no price
               \* is above every price), and relevance by popularity and time of update
    IdPlace    \* the place of a product in the order of ids

ASSUME QueryAssumption ==
    /\ \A q \in Queries : {q.brand, q.device} \subseteq DOMAIN Normal
    /\ \A q \in Queries : q.page \in Int /\ q.pageSize \in Int
    /\ \A look \in Looks : look.price \in Nat /\ look.relevance \in Int
    /\ \A p, o \in Products : IdPlace[p] \in Int /\ (IdPlace[p] = IdPlace[o] => p = o)

\* A number that is not positive, and what is no number, counts as not given.
normalizeQuery(query) ==
    [brand    |-> Normal[query.brand],
     device   |-> Normal[query.device],
     sort     |-> IF query.sort = "" THEN "relevance" ELSE query.sort,
     page     |-> IF query.page > 0 THEN query.page ELSE 1,
     pageSize |-> CASE query.pageSize \in 1 .. 50 -> query.pageSize
                   [] query.pageSize > 50      -> 50
                   [] OTHER                    -> 24]

OrAll(text) == IF text = "" THEN "all" ELSE text

\* Mutant: the brand is left out of the key.
KeyWithoutBrand(v, q) == <<v, "all", OrAll(q.device), q.sort, q.page, q.pageSize>>

QueryKey(v, q) == <<v, OrAll(q.brand), OrAll(q.device), q.sort, q.page, q.pageSize>>

\* An unknown sort is the default one, although it has keys of its own.
OrderBy(sort, look) == CASE sort = "price_asc"  -> look.price
                         [] sort = "price_desc" -> -look.price
                         [] OTHER               -> -look.relevance

\* The id decides between products that are alike.
Precedes(order, o, p) == \/ order[o] < order[p]
                         \/ order[o] = order[p] /\ IdPlace[o] < IdPlace[p]

Matches(q, look) == /\ q.brand \in {"", look.brand}
                    /\ q.device = "" \/ q.device \in look.devices

\* skip and take, over the products on sale, by their looks, that match.
Page(q, onSale) ==
    LET found     == {p \in DOMAIN onSale : Matches(q, onSale[p])}
        order     == [p \in found |-> OrderBy(q.sort, onSale[p])]
        Before(p) == Cardinality({o \in found : Precedes(order, o, p)})
    IN  {p \in found : Before(p) \div q.pageSize = q.page - 1}
=============================================================================
