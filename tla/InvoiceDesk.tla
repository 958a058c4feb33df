---------------------------- MODULE InvoiceDesk -----------------------------
(***************************************************************************)
(* What the asynchronous billing promises of every order, with no outbox,  *)
(* queues, workers or copies of messages: an order that was accepted is    *)
(* billed only with a receipt of the ERP, it is given up only after its    *)
(* tries have failed one after the other, and it never goes back to        *)
(* waiting.  An order that was given up may still be billed.               *)
(***************************************************************************)
EXTENDS Integers

CONSTANTS Orders, MaxTries

VARIABLES
    stage,    \* none, waiting, billed or failed
    receipts, \* the orders the ERP has ever given a receipt for
    failures  \* the tries of each order that have failed

vars == <<stage, receipts, failures>>

Init ==
    /\ stage = [o \in Orders |-> "none"]
    /\ receipts = {}
    /\ failures = [o \in Orders |-> {}]

Accept(o) ==
    /\ stage[o] = "none"
    /\ stage' = [stage EXCEPT ![o] = "waiting"]
    /\ UNCHANGED <<receipts, failures>>

Invoice(o) ==
    /\ stage[o] # "none"
    /\ receipts' = receipts \union {o}
    /\ UNCHANGED <<stage, failures>>

FailTry(o) ==
    /\ stage[o] # "none"
    /\ \E n \in 1 .. MaxTries :
        /\ n = 1 \/ n - 1 \in failures[o]
        /\ failures' = [failures EXCEPT ![o] = @ \union {n}]
    /\ UNCHANGED <<stage, receipts>>

Bill(o) ==
    /\ stage[o] # "none"
    /\ o \in receipts
    /\ stage' = [stage EXCEPT ![o] = "billed"]
    /\ UNCHANGED <<receipts, failures>>

GiveUp(o) ==
    /\ stage[o] # "none"
    /\ MaxTries \in failures[o]
    /\ stage' = [stage EXCEPT ![o] = "failed"]
    /\ UNCHANGED <<receipts, failures>>

Next == \E o \in Orders : Accept(o) \/ Invoice(o) \/ FailTry(o) \/ Bill(o) \/ GiveUp(o)

Spec == Init /\ [][Next]_vars
=============================================================================
