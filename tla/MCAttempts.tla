---------------------------- MODULE MCAttempts ----------------------------
(* An instance of Attempts for TLC.                                          *)
EXTENDS Attempts, TLC

CONSTANTS f1, q1, q2

(* The clock of the first poller's host is behind, that of the other ahead.  *)
Clocks == f1 :> 0 @@ q1 :> -1 @@ q2 :> 1

Row(type, complete, scripted, transforms) ==
    [type |-> type, complete |-> complete,
     scripted |-> scripted, transforms |-> transforms]

SomeRows == {Row("webhook", TRUE, FALSE, FALSE), Row("slack", FALSE, FALSE, FALSE),
             Row("javascript", TRUE, TRUE, TRUE), Row("smtp", TRUE, FALSE, FALSE)}
=============================================================================
