---------------------------- MODULE MCManagement ----------------------------
(* An instance of Management for TLC: two sources, one of them with an       *)
(* action.                                                                   *)
EXTENDS Management, TLC

CONSTANTS s1, s2, a1

OneOwner == a1 :> s1
=============================================================================
