---------------------------- MODULE ScriptRunner ----------------------------
(***************************************************************************)
(* The script runner, internal/script/runner.go: a JavaScript machine made *)
(* for one run, and a timer, another goroutine, that interrupts it.  A     *)
(* script is any program: it may do anything at every run, and need not    *)
(* end.                                                                    *)
(***************************************************************************)

CONSTANT Goroutines      \* those that run scripts

VARIABLES
    vm,        \* what the machine runs: nothing, the top-level code, the call
    timer,     \* of the run in progress
    outcome    \* of the last run, until its caller has looked at it

runner == <<vm, timer, outcome>>

(* Every error is the same to the callers, the timeout too: "null" is a     *)
(* result that is null or undefined.                                        *)
Outcomes == {"error", "null", "value"}

RunnerTypeOK ==
    /\ vm \in [Goroutines -> {"off", "code", "call"}]
    /\ timer \in [Goroutines -> {"stopped", "running", "fired"}]
    /\ outcome \in [Goroutines -> Outcomes \cup {"none"}]
    /\ \A g \in Goroutines :
          /\ vm[g] = "off" <=> timer[g] = "stopped"
          /\ vm[g] # "off" => outcome[g] = "none"

(* Mutant: the machine runs without a timer that can interrupt it.          *)
StartWithoutTimer(g) ==
    /\ vm' = [vm EXCEPT ![g] = "code"]
    /\ UNCHANGED <<timer, outcome>>

(* A script over the limit of 64 KB is not run, and no script gets an input *)
(* that is not a JSON object.                                               *)
StartRun(g) ==
    \/ /\ vm' = [vm EXCEPT ![g] = "code"]
       /\ timer' = [timer EXCEPT ![g] = "running"]
       /\ UNCHANGED outcome
    \/ /\ outcome' = [outcome EXCEPT ![g] = "error"]
       /\ UNCHANGED <<vm, timer>>

(* Mutant: no deferred Stop.                                                *)
EndWithoutStop(g, o) ==
    /\ vm' = [vm EXCEPT ![g] = "off"]
    /\ outcome' = [outcome EXCEPT ![g] = o]
    /\ UNCHANGED timer

(* The deferred Stop: a timer that fires later finds a machine nobody uses. *)
EndRun(g, o) ==
    /\ vm' = [vm EXCEPT ![g] = "off"]
    /\ timer' = [timer EXCEPT ![g] = "stopped"]
    /\ outcome' = [outcome EXCEPT ![g] = o]

(* The top-level code ends and has defined the function, or it throws, does *)
(* not compile or has not defined it.                                       *)
RunCode(g) ==
    /\ vm[g] = "code"
    /\ \/ vm' = [vm EXCEPT ![g] = "call"] /\ UNCHANGED <<timer, outcome>>
       \/ EndRun(g, "error")

(* The function returns, throws, or returns what JSON cannot express or has *)
(* the wrong shape.                                                         *)
CallFunction(g) ==
    /\ vm[g] = "call"
    /\ \E o \in Outcomes : EndRun(g, o)

Fire(g) ==
    /\ timer[g] = "running"
    /\ timer' = [timer EXCEPT ![g] = "fired"]
    /\ UNCHANGED <<vm, outcome>>

(* The machine notices the interrupt, in the top-level code or in the call. *)
Interrupted(g) ==
    /\ vm[g] # "off"
    /\ timer[g] = "fired"
    /\ EndRun(g, "error")

Script(g) == RunCode(g) \/ CallFunction(g)

(* The caller takes the outcome.                                            *)
Takes(g) ==
    /\ outcome[g] # "none"
    /\ outcome' = [outcome EXCEPT ![g] = "none"]
    /\ UNCHANGED <<vm, timer>>

Discard(gone) ==
    /\ vm' = [g \in Goroutines |-> IF g \in gone THEN "off" ELSE vm[g]]
    /\ timer' = [g \in Goroutines |-> IF g \in gone THEN "stopped" ELSE timer[g]]
    /\ outcome' = [g \in Goroutines |-> IF g \in gone THEN "none" ELSE outcome[g]]

RunnerInit ==
    /\ vm = [g \in Goroutines |-> "off"]
    /\ timer = [g \in Goroutines |-> "stopped"]
    /\ outcome = [g \in Goroutines |-> "none"]
=============================================================================
