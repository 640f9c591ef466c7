--------------------------- MODULE FanoutContract ---------------------------
(***************************************************************************)
(* What the receiver of an action may rely on, whatever the gateway's      *)
(* replicas, queues, polls, faults and crashes do: for one delivery it is  *)
(* called at most MAX_RETRIES times (once when retries are off), one call  *)
(* after the other, and never again once it has answered with success.     *)
(***************************************************************************)
EXTENDS Naturals

CONSTANTS Deliveries, Actions, MaxRetries
VARIABLES calls, acked

Pairs == Deliveries \X Actions
Most == IF MaxRetries = 0 THEN 1 ELSE MaxRetries

Init == calls = [p \in Pairs |-> 0] /\ acked = {}

Call(p) == /\ p \notin acked
           /\ calls[p] < Most
           /\ calls' = [calls EXCEPT ![p] = @ + 1]
           /\ acked' \in {acked, acked \cup {p}}

Next == \E p \in Pairs : Call(p)

Spec == Init /\ [][Next]_<<calls, acked>>
=============================================================================
