------------------------------ MODULE MCGateway ------------------------------
(* Instances of Gateway for TLC.                                             *)
EXTENDS GatewayInvariants, TLC

CONSTANTS s1, a1, a2, d1, d2, c1, c2, p1, p2, q1, q2, r1, r2, k1, k2, h1, h2

OneKey == [d \in Deliveries |-> k1]
OwnKey == [d \in Deliveries |-> d]
OneSource == [d \in Deliveries |-> s1]
OneOwner == [a \in Actions |-> s1]
(* Goroutines 1 run in replica r1, goroutines 2 in replica r2.               *)
TwoReplicas == [g \in Goroutines |-> IF g \in {c1, p1, q1} THEN r1 ELSE r2]

(* The safety properties treat actions, deliveries with one key, and the    *)
(* requests alike.                                                           *)
Symmetry == Permutations({a1, a2}) \cup Permutations({d1, d2})
                \cup Permutations({h1, h2})
=============================================================================
