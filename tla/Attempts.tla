------------------------------ MODULE Attempts ------------------------------
(***************************************************************************)
(* The attempts of one action for one delivery, from the inside and in     *)
(* time: what dispatchAction, applyActionTransform, runTransform and the   *)
(* dispatchers do between the statements of FanoutWorker, with the scripts *)
(* they run, and when a retry is due.  Statements do not fail here; the    *)
(* crashes, and everything a delivery's other actions bring, are those of  *)
(* FanoutWorker.                                                           *)
(*                                                                         *)
(* Time is the database's, in ticks.  Every worker stamps next_retry_at    *)
(* with its own clock, and the poll compares it with the database's now(). *)
(* A variable holds how much time is left or has passed, not a date.       *)
(***************************************************************************)
EXTENDS ScriptRunner, Backoff

CONSTANTS
    Fanouts,     \* goroutines that handle the delivery the first time
    Pollers,     \* retry pollers
    Skew,        \* how far the clock of a goroutine's host is ahead
    MaxSkew,
    Rows,        \* the actions to consider
    MaxCrashes   \* bound

Types == {"webhook", "slack", "twilio", "smtp", "javascript"}
AllRows == [type : Types, complete : BOOLEAN,
            scripted : BOOLEAN, transforms : BOOLEAN]

ASSUME AttemptsAssumption ==
    /\ Goroutines = Fanouts \cup Pollers
    /\ Fanouts \cap Pollers = {}
    /\ MaxSkew \in Nat
    /\ Skew \in [Goroutines -> -MaxSkew .. MaxSkew]
    /\ Rows \subseteq AllRows
    /\ MaxCrashes \in Nat

VARIABLES
    row,      \* the action: its type, whether what its type needs is there,
              \* whether its source and it have a script
    attempt,  \* delivery_attempts.status, by attempt_number
    wait,     \* time until next_retry_at, 0 when it is over, Never for NULL
    quiet,    \* time since the last call ended
    pc, prev, \* where a goroutine is; the attempt it retries, 0 for none
    res,      \* the result of its call
    retry,    \* the time until the next_retry_at it is about to write
    crashes

table == <<attempt, wait>>
locals == <<pc, prev, res, retry>>
vars == <<runner, row, table, quiet, locals, crashes>>

Never == -1
Numbers == 1 .. (MaxRetries + 1)
Times == Nat \cup {Never}
Labels == {"idle", "source", "filtered", "transform", "transformed", "create",
           "send", "answer", "record", "clear"}

(* The goroutine waits for a script.                                        *)
Awaits(g) == \/ pc[g] \in {"filtered", "transformed"}
             \/ pc[g] = "answer" /\ row.type = "javascript"

(* Every variable has its type, and a machine that runs, or has ended, has  *)
(* somebody who waits for its outcome.                                      *)
TypeOK ==
    /\ RunnerTypeOK
    /\ row \in Rows
    /\ attempt \in [Numbers -> {"none", "pending", "success", "failed"}]
    /\ wait \in [Numbers -> Times]
    /\ quiet \in Nat
    /\ pc \in [Goroutines -> Labels]
    /\ prev \in [Goroutines -> 0 .. MaxRetries]
    /\ res \in [Goroutines -> {"none", "success", "failed"}]
    /\ retry \in [Goroutines -> Times]
    /\ crashes \in 0 .. MaxCrashes
    /\ \A g \in Goroutines :
          vm[g] # "off" \/ outcome[g] # "none" => Awaits(g)

-----------------------------------------------------------------------------
Later(x, y) == IF x > y THEN x ELSE y
Number(g) == prev[g] + 1

Goto(g, label) == pc' = [pc EXCEPT ![g] = label] /\ UNCHANGED <<prev, res, retry>>

Return(g) == /\ pc' = [pc EXCEPT ![g] = "idle"]
             /\ prev' = [prev EXCEPT ![g] = 0]
             /\ res' = [res EXCEPT ![g] = "none"]
             /\ retry' = [retry EXCEPT ![g] = Never]

(* After the action: a fan-out goes on to the next one, a retry clears.     *)
Leave(g) == IF prev[g] = 0 THEN Return(g) ELSE Goto(g, "clear")

(* Mutant: the poll does not compare next_retry_at with the time.           *)
AnyScheduled(n) == attempt[n] = "failed" /\ wait[n] # Never
Due(n) == attempt[n] = "failed" /\ wait[n] = 0

-----------------------------------------------------------------------------
(* The actions of a goroutine                                               *)
Rest == UNCHANGED <<row, crashes>>

(* processDelivery, which two goroutines may run for one delivery: they read*)
(* it as pending, before its first attempt; the source's script comes first.*)
Fanout(g) ==
    /\ g \in Fanouts /\ pc[g] = "idle"
    /\ attempt[1] = "none"
    /\ Goto(g, IF row.scripted THEN "source" ELSE "transform")
    /\ Rest /\ UNCHANGED <<runner, table, quiet>>

(* The rows the poll returns stay in its list; another poll may return them *)
(* meanwhile.                                                               *)
ListRetryable(g) ==
    /\ g \in Pollers /\ pc[g] = "idle"
    /\ \E n \in Numbers : Due(n) /\ prev' = [prev EXCEPT ![g] = n]
    /\ pc' = [pc EXCEPT ![g] = "transform"]
    /\ Rest /\ UNCHANGED <<runner, table, quiet, res, retry>>

RunSource(g) ==
    /\ pc[g] = "source"
    /\ StartRun(g)
    /\ Goto(g, "filtered")
    /\ Rest /\ UNCHANGED <<table, quiet>>

(* An error fails the delivery, null drops it, a result keeps the action or *)
(* leaves it out.                                                           *)
Filtered(g) ==
    /\ pc[g] = "filtered"
    /\ Takes(g)
    /\ \/ Return(g)
       \/ outcome[g] = "value" /\ Goto(g, "transform")
    /\ Rest /\ UNCHANGED <<table, quiet>>

Transform(g) ==
    /\ pc[g] = "transform"
    /\ \/ row.transforms /\ StartRun(g) /\ Goto(g, "transformed")
       \/ ~row.transforms /\ Goto(g, "create") /\ UNCHANGED runner
    /\ Rest /\ UNCHANGED <<table, quiet>>

(* Null skips the action; an error does not, the payload stays what it was. *)
Transformed(g) ==
    /\ pc[g] = "transformed"
    /\ Takes(g)
    /\ IF outcome[g] = "null" THEN Leave(g) ELSE Goto(g, "create")
    /\ Rest /\ UNCHANGED <<table, quiet>>

(* Mutant: no UNIQUE (delivery_id, action_id, attempt_number).              *)
CreateAnyAttempt(g) ==
    /\ pc[g] = "create"
    /\ attempt' = [attempt EXCEPT ![Number(g)] = "pending"]
    /\ Goto(g, "send")
    /\ Rest /\ UNCHANGED <<runner, wait, quiet>>

CreateAttempt(g) ==
    /\ pc[g] = "create"
    /\ IF attempt[Number(g)] = "none"
       THEN /\ attempt' = [attempt EXCEPT ![Number(g)] = "pending"]
            /\ Goto(g, "send")
       ELSE Leave(g) /\ UNCHANGED attempt
    /\ Rest /\ UNCHANGED <<runner, wait, quiet>>

(* The result of Dispatch, and next_retry_at when it is a failure that      *)
(* leaves attempts.                                                         *)
RetryIn(g, n) == IF HasRetry(n) THEN {Later(0, d + Skew[g]) : d \in Delays(n)}
                                ELSE {Never}
EndCall(g, r) ==
    /\ res' = [res EXCEPT ![g] = r]
    /\ \E t \in IF r = "failed" THEN RetryIn(g, Number(g)) ELSE {Never} :
          retry' = [retry EXCEPT ![g] = t]
    /\ quiet' = 0
    /\ pc' = [pc EXCEPT ![g] = "record"]
    /\ UNCHANGED prev

(* Without a configuration or a script nobody is called.                    *)
Refuse(g) == EndCall(g, "failed") /\ UNCHANGED runner

(* The dispatchers that use the HTTP client, which has a timeout.           *)
Posts == {"webhook", "slack", "twilio"}
Post(g) ==
    /\ row.type \in Posts
    /\ Goto(g, "answer")
    /\ UNCHANGED <<runner, quiet>>

Mail(g) ==
    /\ row.type = "smtp"
    /\ Goto(g, "answer")
    /\ UNCHANGED <<runner, quiet>>

Process(g) ==
    /\ row.type = "javascript"
    /\ StartRun(g)
    /\ Goto(g, "answer")
    /\ UNCHANGED quiet

Dispatch(g) ==
    /\ pc[g] = "send"
    /\ IF row.complete THEN Post(g) \/ Mail(g) \/ Process(g) ELSE Refuse(g)
    /\ Rest /\ UNCHANGED table

(* A status of 200 to 299 is a success; any other, an error and the timeout *)
(* are not.                                                                 *)
Responds(g) ==
    /\ row.type \in Posts
    /\ \E r \in {"success", "failed"} : EndCall(g, r)
    /\ UNCHANGED runner

(* SendMail returns, with an error or without.                              *)
Mailed(g) ==
    /\ row.type = "smtp"
    /\ \E r \in {"success", "failed"} : EndCall(g, r)
    /\ UNCHANGED runner

(* A process function may return null.                                      *)
Processed(g) ==
    /\ row.type = "javascript"
    /\ Takes(g)
    /\ EndCall(g, IF outcome[g] = "error" THEN "failed" ELSE "success")

Answer(g) ==
    /\ pc[g] = "answer"
    /\ Responds(g) \/ Mailed(g) \/ Processed(g)
    /\ Rest /\ UNCHANGED table

(* Mutant: an UPDATE without next_retry_at.                                 *)
RecordStatus(g) ==
    /\ pc[g] = "record"
    /\ attempt' = [attempt EXCEPT ![Number(g)] = res[g]]
    /\ Leave(g)
    /\ Rest /\ UNCHANGED <<runner, wait, quiet>>

RecordResult(g) ==
    /\ pc[g] = "record"
    /\ attempt' = [attempt EXCEPT ![Number(g)] = res[g]]
    /\ wait' = [wait EXCEPT ![Number(g)] = retry[g]]
    /\ Leave(g)
    /\ Rest /\ UNCHANGED <<runner, quiet>>

ClearRetry(g) ==
    /\ pc[g] = "clear"
    /\ attempt' = [attempt EXCEPT ![prev[g]] = "failed"]
    /\ wait' = [wait EXCEPT ![prev[g]] = Never]
    /\ Return(g)
    /\ Rest /\ UNCHANGED <<runner, quiet>>

Step(g) ==
    \/ Fanout(g) \/ ListRetryable(g)
    \/ RunSource(g) \/ Filtered(g) \/ Transform(g) \/ Transformed(g)
    \/ CreateAttempt(g) \/ Dispatch(g) \/ Answer(g) \/ RecordResult(g)
    \/ ClearRetry(g)

-----------------------------------------------------------------------------
(* The script of a goroutine, and the timer that watches it.                *)
Run(g) == /\ Script(g) \/ Fire(g) \/ Interrupted(g)
          /\ UNCHANGED <<row, table, quiet, locals, crashes>>

Crash(g) ==
    /\ crashes < MaxCrashes
    /\ crashes' = crashes + 1
    /\ Return(g)
    /\ Discard({g})
    /\ UNCHANGED <<row, table, quiet>>

(* One unit of time.  A wait that is over, and a silence longer than any    *)
(* delay, are not counted further.                                          *)
Left(t) == IF t > 0 THEN t - 1 ELSE t
Tick ==
    /\ wait' = [n \in Numbers |-> Left(wait[n])]
    /\ retry' = [g \in Goroutines |-> Left(retry[g])]
    /\ quiet' = IF quiet < Longest THEN quiet + 1 ELSE quiet
    /\ UNCHANGED <<runner, row, attempt, pc, prev, res, crashes>>

Init ==
    /\ RunnerInit
    /\ row \in Rows
    /\ attempt = [n \in Numbers |-> "none"]
    /\ wait = [n \in Numbers |-> Never]
    /\ quiet = Longest
    /\ pc = [g \in Goroutines |-> "idle"]
    /\ prev = [g \in Goroutines |-> 0]
    /\ res = [g \in Goroutines |-> "none"]
    /\ retry = [g \in Goroutines |-> Never]
    /\ crashes = 0

Next == Tick \/ \E g \in Goroutines : Step(g) \/ Run(g) \/ Crash(g)

Spec == Init /\ [][Next]_vars

(* The scheduler, the poll's ticker, time and the script's timer go on, and *)
(* the HTTP client of the webhook, Slack and Twilio dispatchers has a       *)
(* timeout.  A script need not end, and smtp.SendMail, which gets neither   *)
(* the context nor a timeout, need not return.                              *)
Fairness ==
    /\ WF_vars(Tick)
    /\ \A g \in Goroutines :
          /\ WF_vars(Step(g) /\ ~(pc[g] = "answer" /\ row.type = "smtp"))
          /\ WF_vars((Fire(g) \/ Interrupted(g))
                        /\ UNCHANGED <<row, table, quiet, locals, crashes>>)

FairSpec == Spec /\ Fairness

-----------------------------------------------------------------------------
(* The ladder in time                                                       *)

(* After at least this time the n-th attempt may be followed by a call.     *)
Enough(n, time) == Fits(n) => time >= Shortest(n) - MaxSkew

InFlight(g) == pc[g] \in {"send", "answer", "record"}

(* Attempts have no gaps, all but the last have failed, and whoever holds a *)
(* retry, the table or a goroutine, holds one of a failed attempt that is   *)
(* not the last allowed.                                                    *)
Rungs ==
    /\ \A n \in Numbers : attempt[n] # "none" =>
          \A m \in 1 .. (n - 1) : attempt[m] = "failed"
    /\ \A n \in Numbers : wait[n] # Never => attempt[n] = "failed" /\ HasRetry(n)
    /\ \A g \in Goroutines : prev[g] > 0 =>
          attempt[prev[g]] = "failed" /\ HasRetry(prev[g])

(* One goroutine at a time is between creating an attempt and recording it. *)
Flights ==
    \A g \in Goroutines : InFlight(g) =>
        /\ attempt[Number(g)] = "pending"
        /\ \A h \in Goroutines : InFlight(h) => g = h
        /\ pc[g] = "record" =>
              /\ res[g] # "none"
              /\ retry[g] # Never => res[g] = "failed" /\ HasRetry(Number(g))

(* Until the next attempt is made, the silence since the last call and the  *)
(* wait that is left are together long enough.                              *)
Paced ==
    /\ \A n \in Numbers : wait[n] # Never /\ attempt[n + 1] = "none" =>
          Enough(n, quiet + wait[n])
    /\ \A g \in Goroutines :
          /\ pc[g] = "record" /\ retry[g] # Never =>
                Enough(Number(g), quiet + retry[g])
          /\ prev[g] > 0 /\ (attempt[Number(g)] = "none" \/ pc[g] = "send") =>
                Enough(prev[g], quiet)

Ladder == Rungs /\ Flights /\ Paced

-----------------------------------------------------------------------------
(* Properties                                                               *)

(* A receiver is left alone between two calls: whichever goroutines made    *)
(* them and however their clocks differ, a retry comes no sooner than three *)
(* quarters of the delay after the call before ended, less the skew, as     *)
(* long as the delay is within the range of a Duration.                     *)
Spacing ==
    [][\A g \in Goroutines :
          pc[g] = "send" /\ pc'[g] = "answer" /\ prev[g] > 0 /\ Fits(prev[g])
             => quiet >= Shortest(prev[g]) - MaxSkew]_vars

(* No retry is put off for longer than the cap and its jitter, also when    *)
(* the product of nextRetryTime overflows.                                  *)
Capping ==
    /\ \A n \in Numbers : wait[n] <= Longest + MaxSkew
    /\ \A g \in Goroutines : retry[g] <= Longest + MaxSkew

(* A goroutine comes back from every action it takes up, whatever scripts   *)
(* it runs and however late the receiver answers, to serve the next one;    *)
(* only an SMTP server that does not answer can keep it.                    *)
GoroutinesReturn ==
    row.type # "smtp" =>
        \A g \in Goroutines : pc[g] # "idle" ~> pc[g] = "idle"

(* A failed attempt with attempts left is followed by another, unless a     *)
(* transform skips it: its retry becomes due, and someone makes it.         *)
FailedIsFollowed ==
    row.type # "smtp" /\ ~row.transforms =>
        \A n \in 1 .. (MaxRetries - 1) :
            attempt[n] = "failed" ~> attempt[n + 1] # "none"

=============================================================================
