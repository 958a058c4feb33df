---------------------------- MODULE MCTelemetry -----------------------------
(* An instance of Telemetry for TLC. *)
EXTENDS Telemetry, TLC

CONSTANTS k1, r1, r2, r3, r4, r5, r6

Line(p, n) == [product |-> p, quantity |-> n]

\* One purchase sent twice, a competitor for the only unit of its product, and one
\* customer of another product, whose commit nobody waits for; and two that buy
\* nothing: one product has no price, and one quantity does not fit its column.
TwinKeyOf == [r \in Requests |-> CASE r \in {r1, r2} -> k1
                                   [] r \in {r5, r6} -> r4
                                   [] OTHER -> r]
TwinBody  == [r \in Requests |-> CASE r = r4 -> <<Line(2, 1)>>
                                   [] r = r5 -> <<Line(3, 1)>>
                                   [] r = r6 -> <<Line(2, 10)>>
                                   [] OTHER -> <<Line(1, 1)>>]
TwinLock  == [name \in Keys \union Products |-> name]
TwinQty   == 1 :> 1 @@ 2 :> 1 @@ 3 :> 1
TwinPrice == 1 :> 1 @@ 2 :> 1 @@ 3 :> 1
Twins     == Permutations({r1, r2})

\* Bound: the two have been turned away, one after the other, before the rest call.
\* They lock and write nothing the rest could meet, and only the counters remember them.
TurnedAway == r5 :> "unpriced" @@ r6 :> "overflow"
Explored ==
    LET first == DOMAIN TurnedAway
        Fresh(r) == pc[r] = "idle"
        Refused(r) == result[r].cause = TurnedAway[r] IN
    /\ \A r \in Requests \ first : ~Fresh(r) => \A f \in first : Refused(f)
    /\ ~Fresh(r6) => Refused(r5)
    /\ (\A r \in Requests \ first : Fresh(r)) => {f \in first : ~Fresh(f)} \subseteq received
=============================================================================
