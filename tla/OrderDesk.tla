----------------------------- MODULE OrderDesk ------------------------------
(***************************************************************************)
(* What POST /checkout promises its clients, with no transactions, locks,  *)
(* snapshots or retries: a shelf, a book with at most one purchase per     *)
(* key, and answers that are true of both when they are given.  An answer  *)
(* may be an error, or get lost, at any time, before or after the purchase *)
(* was booked: the client asks again with the same key.                    *)
(***************************************************************************)
EXTENDS CheckoutData

VARIABLES
    shelf,  \* the units of each product that can still be bought
    book,   \* the purchase booked under each key, or None
    told    \* the status each request was answered, 0 while it has no answer

vars == <<shelf, book, told>>

Init ==
    /\ shelf = InitialQty
    /\ book = [k \in Keys |-> None]
    /\ told = [r \in Requests |-> 0]

Fillable(r) ==
    /\ Sellable(r)
    /\ \A p \in ProductsOf(r) : shelf[p] >= Quantity(r, p)

Booked(r) == book[KeyOf[r]]

\* The whole purchase is booked and taken off the shelf in one step.
Accept(r) ==
    /\ told[r] = 0
    /\ Valid(r)
    /\ Booked(r) = None
    /\ Fillable(r)
    /\ book' = [book EXCEPT ![KeyOf[r]] = r]
    /\ shelf' = [p \in Products |->
                    IF p \in ProductsOf(r) THEN shelf[p] - Quantity(r, p) ELSE shelf[p]]
    /\ UNCHANGED told

True(r, status) ==
    \/ status = 202 /\ Booked(r) = r
    \/ status = 200 /\ Booked(r) \notin {None, r} /\ SameRequest(r, Booked(r))
    \/ status = 409 /\ Booked(r) # None /\ ~SameRequest(r, Booked(r))
    \/ status = 422 /\ ~Fillable(r) /\ (Booked(r) = None \/ ~SameRequest(r, Booked(r)))
    \/ status = 400 /\ ~Valid(r) /\ Booked(r) # r

Tell(r) ==
    /\ told[r] = 0
    /\ \E status \in {200, 202, 400, 409, 422} :
        True(r, status) /\ told' = [told EXCEPT ![r] = status]
    /\ UNCHANGED <<shelf, book>>

\* An error, or no answer at all: possibly of every call that is open.
Fail ==
    /\ \E R \in SUBSET {r \in Requests : told[r] = 0} :
        told' = [r \in Requests |-> IF r \in R THEN 500 ELSE told[r]]
    /\ UNCHANGED <<shelf, book>>

Next == (\E r \in Requests : Accept(r) \/ Tell(r)) \/ Fail

Spec == Init /\ [][Next]_vars
=============================================================================
