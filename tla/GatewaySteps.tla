---------------------------- MODULE GatewaySteps ----------------------------
(***************************************************************************)
(* What each step of a goroutine does to its own locals and to the tables, *)
(* as facts about single elements: the lemmas the proofs of the invariants *)
(* of GatewayInvariants have in common.                                    *)
(***************************************************************************)
EXTENDS GatewayInvariants, GatewayProofs

USE DEF Labels, Results, Terminal

(* The other goroutines keep their locals.                                  *)
Others(g) ==
    \A h \in Goroutines : h # g => /\ pc'[h] = pc[h] /\ job'[h] = job[h]
                                   /\ key'[h] = key[h] /\ res'[h] = res[h]

SameRows == UNCHANGED <<status, transformed, attempt, scheduled>>
SameCalls == UNCHANGED <<calls, acked, carried>>
SameLocals == UNCHANGED <<pc, job, key, res>>
SameQueues == UNCHANGED <<stream, work>>

(* What no step of a goroutine undoes.                                      *)
Grows ==
    /\ UNCHANGED <<mode, scripted, action, transforms>>
    /\ dbFaults \in Nat /\ dbFaults' \in Nat /\ dbFaults <= dbFaults'
    /\ \A d \in Deliveries : status'[d] = "none" <=> status[d] = "none"
    /\ transformed \subseteq transformed'
    /\ \A k \in Keys : attempt'[k] = "none" => attempt[k] = "none"
    /\ \A p \in Pairs : calls[p] <= calls'[p]
    /\ acked \subseteq acked'
    /\ \A p \in Pairs : p \in acked' => p \in acked \/ calls[p] < calls'[p]

(* What the rest of the system does while no row is deleted and no source   *)
(* or action is edited: it polls, crashes, takes in a delivery, forwards.   *)
Outside ==
    /\ UNCHANGED <<mode, scripted, action, transforms, transformed, attempt, scheduled>>
    /\ SameCalls
    /\ dbFaults <= dbFaults'
    /\ \A d \in Deliveries : /\ status[d] # "none" => status'[d] # "none"
                             /\ status'[d] \in {status[d], "pending", "recorded"}
    /\ \A g \in Goroutines :
          \/ /\ pc'[g] = pc[g] /\ job'[g] = job[g]
             /\ key'[g] = key[g] /\ res'[g] = res[g]
          \/ pc'[g] = "idle"
Working(g) == ProcessDelivery(g) \/ DispatchAction(g) \/ RetryAttempt(g) \/ RollUp(g)

(* The job of g keeps its delivery, force, script and retry.                *)
SameJob(g) == /\ job'[g].id = job[g].id /\ job'[g].force = job[g].force
              /\ job'[g].script = job[g].script /\ job'[g].prev = job[g].prev

-----------------------------------------------------------------------------
(* Locals                                                                   *)

LEMMA LocalsAreFunctions ==
    ASSUME IInv
    PROVE  /\ pc \in [Goroutines -> Labels] /\ res \in [Goroutines -> Results]
           /\ job \in [Goroutines -> Jobs \cup {NoJob}]
           /\ key \in [Goroutines -> Keys \cup {NoKey}]
           /\ work \in [Fanouts -> SUBSET Messages]
           /\ due \in [RetryPollers -> SUBSET Keys]
           /\ status \in [Deliveries -> Statuses]
           /\ attempt \in [Keys -> AttemptStatuses]
           /\ calls \in [Pairs -> Nat]
           /\ carried \in [Deliveries -> SUBSET Payloads]
           /\ scheduled \in SUBSET Keys
           /\ dbFaults \in Nat
  BY BoundsAssumption DEF IInv, TypeOK, WorkerTypeOK, StoreTypeOK

(* The job of a goroutine that is not idle.                                 *)
LEMMA JobOf ==
    ASSUME IInv, NEW g \in Goroutines, pc[g] # "idle"
    PROVE  /\ job[g] \in Jobs /\ job[g].id \in Deliveries
           /\ job[g].acts \in SUBSET Actions
           /\ job[g] = [id |-> job[g].id, force |-> job[g].force,
                        script |-> job[g].script, acts |-> job[g].acts,
                        payload |-> job[g].payload, prev |-> job[g].prev]
           /\ g \in RetryPollers =>
                /\ pc[g] \notin {"source", "claim", "list", "store"}
                /\ job[g].prev \in Keys /\ job[g].id = job[g].prev[1]
           /\ g \notin RetryPollers =>
                pc[g] \notin {"action", "clear"} /\ job[g].prev = NoKey
  BY DEF IInv, TypeOK, WorkerTypeOK, Jobs, Ladder, Locals

(* The goroutine returns.                                                   *)
LEMMA ReturnStep ==
    ASSUME IInv, NEW g \in Goroutines, Return(g)
    PROVE  Others(g) /\ pc'[g] = "idle"
  BY LocalsAreFunctions DEF Return, Others

(* The goroutine goes on to a label with its locals.                        *)
LEMMA GotoStep ==
    ASSUME IInv, NEW g \in Goroutines, NEW l \in Labels, Goto(g, l),
           UNCHANGED <<job, key>>, NEW r \in Results,
           res' = [res EXCEPT ![g] = r] \/ (UNCHANGED res /\ r = res[g])
    PROVE  /\ Others(g) /\ pc'[g] = l /\ res'[g] = r
           /\ job'[g] = job[g] /\ key'[g] = key[g]
  BY LocalsAreFunctions DEF Goto, Others

(* What follows the loop over the actions, or its next round.               *)
LEMMA LoopStep ==
    ASSUME IInv, NEW g \in Goroutines, NEW acts, Loop(g, acts)
    PROVE  /\ \A h \in Goroutines : h # g => pc'[h] = pc[h]
           /\ pc'[g] = IF acts # {} THEN "dispatch"
                       ELSE IF g \in RetryPollers THEN "clear" ELSE "rollActions"
  BY LocalsAreFunctions DEF Loop, Goto

-----------------------------------------------------------------------------
(* processDelivery                                                          *)

LEMMA GetDeliveryStep ==
    ASSUME IInv, NEW g \in Goroutines, GetDelivery(g)
    PROVE  /\ Others(g) /\ SameRows /\ SameCalls /\ UNCHANGED stream
           /\ g \in Fanouts /\ pc[g] = "idle"
           /\ \E m \in work[g] :
                /\ m \in Messages
                /\ work' = [work EXCEPT ![g] = @ \ {m}]
                /\ \/ SameLocals
                   \/ /\ Eligible(m)
                      /\ pc'[g] = "source"
                      /\ job'[g].id = m.id /\ job'[g].force = m.force
<1>1. PICK m \in work[g] :
         /\ work' = [work EXCEPT ![g] = @ \ {m}]
         /\ \/ UNCHANGED <<job, pc>>
            \/ /\ Eligible(m)
               /\ job' = [job EXCEPT ![g] =
                     [id |-> m.id, force |-> m.force, script |-> FALSE,
                      acts |-> {}, payload |-> "original", prev |-> NoKey]]
               /\ Goto(g, "source")
  BY DEF GetDelivery
<1>2. /\ SameRows /\ SameCalls /\ UNCHANGED <<stream, key, res>>
      /\ g \in Fanouts /\ pc[g] = "idle"
  BY DEF GetDelivery, ReadOnly, StatusOnly, SqlOnly, redis, receivers, SameRows, SameCalls
<1>3. Others(g)
  BY <1>1, <1>2, LocalsAreFunctions DEF Others, Goto
<1>4. m \in Messages
  BY <1>1, <1>2, LocalsAreFunctions
<1>5. \/ SameLocals
      \/ /\ Eligible(m) /\ pc'[g] = "source"
         /\ job'[g].id = m.id /\ job'[g].force = m.force
  BY <1>1, <1>2, LocalsAreFunctions DEF SameLocals, Goto
<1> QED BY <1>1, <1>2, <1>3, <1>4, <1>5

LEMMA GetSourceStep ==
    ASSUME IInv, NEW g \in Goroutines, GetSource(g)
    PROVE  LET s == SourceOf[job[g].id] IN
           /\ Others(g) /\ SameRows /\ SameCalls /\ SameQueues
           /\ pc[g] = "source"
           /\ \/ pc'[g] = "idle"
              \/ /\ pc'[g] = "close" /\ res'[g] = "recorded"
                 /\ job'[g] = job[g]
              \/ /\ pc'[g] = "claim"
                 /\ ~StoreOnly(mode[s], job[g].force)
                 /\ job'[g].id = job[g].id /\ job'[g].force = job[g].force
                 /\ job'[g].script = scripted[s]
<1> DEFINE s == SourceOf[job[g].id]
<1>1. /\ SameRows /\ SameCalls /\ SameQueues /\ pc[g] = "source"
  BY DEF GetSource, ReadOnly, StatusOnly, SqlOnly, redis, receivers, SameRows, SameCalls,
     SameQueues
<1>2. job[g] \in Jobs
  BY <1>1, JobOf
<1>3. CASE Return(g)
  BY <1>1, <1>3, ReturnStep
<1>4. CASE Write(g, "recorded", "close") /\ UNCHANGED <<job, key>>
  <2>1. pc'[g] = "close" /\ res'[g] = "recorded" /\ job'[g] = job[g]
    BY <1>4, LocalsAreFunctions DEF Write, Goto
  <2>2. Others(g)
    BY <1>4, LocalsAreFunctions DEF Write, Goto, Others
  <2> QED BY <1>1, <2>1, <2>2
<1>5. CASE /\ ~StoreOnly(mode[s], job[g].force)
           /\ job' = [job EXCEPT ![g].script = scripted[s]]
           /\ Goto(g, "claim") /\ UNCHANGED <<key, res>>
  <2>1. Others(g) /\ pc'[g] = "claim"
    BY <1>5, LocalsAreFunctions DEF Others, Goto
  <2>2. /\ job'[g].id = job[g].id /\ job'[g].force = job[g].force
        /\ job'[g].script = scripted[s]
    BY <1>5, <1>2, LocalsAreFunctions DEF Jobs
  <2> QED BY <1>1, <1>5, <2>1, <2>2
<1> QED BY <1>3, <1>4, <1>5 DEF GetSource

LEMMA ClaimStep ==
    ASSUME IInv, NEW g \in Goroutines, Claim(g)
    PROVE  /\ Others(g) /\ SameCalls /\ SameQueues
           /\ UNCHANGED <<transformed, attempt, scheduled>>
           /\ pc[g] = "claim"
           /\ \E o \in Writes : UpdateStatus(o, job[g].id, "processing")
           /\ pc'[g] = "idle" \/ (pc'[g] = "list" /\ job'[g] = job[g])
<1>1. /\ SameCalls /\ SameQueues /\ pc[g] = "claim"
      /\ UNCHANGED <<transformed, attempt, scheduled>>
      /\ \E o \in Writes : UpdateStatus(o, job[g].id, "processing")
  BY DEF Claim, StatusOnly, SqlOnly, redis, receivers, SameCalls, SameQueues
<1>2. CASE Return(g)
  BY <1>1, <1>2, ReturnStep
<1>3. CASE Goto(g, "list") /\ UNCHANGED <<job, key, res>>
  BY <1>1, <1>3, GotoStep, LocalsAreFunctions
<1> QED BY <1>2, <1>3 DEF Claim

LEMMA ListActionsStep ==
    ASSUME IInv, NEW g \in Goroutines, ListActions(g)
    PROVE  LET listed == ListActiveBySource(SourceOf[job[g].id]) IN
           /\ Others(g) /\ SameRows /\ SameCalls /\ SameQueues
           /\ pc[g] = "list"
           /\ \/ pc'[g] = "idle"
              \/ /\ pc'[g] = "close" /\ job'[g] = job[g]
                 /\ \/ listed = {} /\ res'[g] = "completed"
                    \/ job[g].script
              \/ /\ pc'[g] \in {"dispatch", "rollActions"} /\ ~job[g].script
                 /\ SameJob(g) /\ job'[g].payload = "original"
              \/ /\ pc'[g] = "store" /\ job[g].script
                 /\ SameJob(g) /\ job'[g].payload = "transformed"
<1> DEFINE listed == ListActiveBySource(SourceOf[job[g].id])
<1>1. /\ SameRows /\ SameCalls /\ SameQueues /\ pc[g] = "list"
  BY DEF ListActions, ReadOnly, StatusOnly, SqlOnly, redis, receivers, SameRows, SameCalls,
     SameQueues
<1>2. job[g] \in Jobs /\ g \notin RetryPollers
  BY <1>1, JobOf
<1>k. ASSUME NEW kept, NEW p, Keep(g, kept, p), UNCHANGED key,
             \A h \in Goroutines : h # g => pc'[h] = pc[h] /\ res'[h] = res[h]
      PROVE  Others(g) /\ SameJob(g) /\ job'[g].payload = p
  <2>1. PICK acts : job' = [job EXCEPT ![g].acts = acts, ![g].payload = p]
    BY <1>k, Zenon DEF Keep
  <2>2. Others(g)
    BY <1>k, <2>1, LocalsAreFunctions DEF Others
  <2>3. SameJob(g) /\ job'[g].payload = p
    BY <2>1, <1>2, LocalsAreFunctions DEF SameJob, Jobs
  <2> QED BY <2>2, <2>3
<1>3. CASE Return(g)
  BY <1>1, <1>3, ReturnStep
<1>4. ASSUME NEW v \in Terminal, Write(g, v, "close"), UNCHANGED <<job, key>>
      PROVE  Others(g) /\ pc'[g] = "close" /\ res'[g] = v /\ job'[g] = job[g]
  BY <1>4, GotoStep DEF Write
<1>5. CASE /\ ~job[g].script /\ Keep(g, listed, "original")
           /\ Loop(g, job'[g].acts) /\ UNCHANGED <<key, res>>
  <2>1. /\ \A h \in Goroutines : h # g => pc'[h] = pc[h]
        /\ pc'[g] \in {"dispatch", "rollActions"}
    BY <1>5, <1>2, LoopStep
  <2> HIDE DEF listed
  <2>2. Others(g) /\ SameJob(g) /\ job'[g].payload = "original"
    BY <1>5, <2>1, <1>k
  <2> QED BY <1>1, <1>5, <2>1, <2>2
<1>6. ASSUME job[g].script, NEW kept, Keep(g, kept, "transformed"),
             Write(g, IF kept = {} THEN "completed" ELSE "none", "store"),
             UNCHANGED key
      PROVE  /\ Others(g) /\ pc'[g] = "store"
             /\ SameJob(g) /\ job'[g].payload = "transformed"
  <2>1. /\ \A h \in Goroutines : h # g => pc'[h] = pc[h] /\ res'[h] = res[h]
        /\ pc'[g] = "store"
    BY <1>6, LocalsAreFunctions DEF Write, Goto
  <2> QED BY <1>6, <2>1, <1>k
<1>7. \/ Return(g)
      \/ listed = {} /\ Write(g, "completed", "close") /\ UNCHANGED <<job, key>>
      \/ ~job[g].script /\ Keep(g, listed, "original")
         /\ Loop(g, job'[g].acts) /\ UNCHANGED <<key, res>>
      \/ job[g].script /\ \E v \in Terminal : Write(g, v, "close")
         /\ UNCHANGED <<job, key>>
      \/ job[g].script /\ \E kept \in SUBSET listed :
            /\ Keep(g, kept, "transformed")
            /\ Write(g, IF kept = {} THEN "completed" ELSE "none", "store")
            /\ UNCHANGED key
  BY Zenon DEF ListActions
<1> QED BY <1>1, <1>3, <1>4, <1>5, <1>6, <1>7

LEMMA StoreTransformedStep ==
    ASSUME IInv, NEW g \in Goroutines, StoreTransformed(g)
    PROVE  /\ Others(g) /\ SameCalls /\ SameQueues
           /\ UNCHANGED <<status, attempt, scheduled>>
           /\ pc[g] = "store" /\ job'[g] = job[g] /\ g \notin RetryPollers
           /\ \E o \in Writes : Sql(o) /\ SetTransformed(o, job[g].id)
           /\ pc'[g] \in {"close", "dispatch", "rollActions"}
<1>1. /\ SameCalls /\ SameQueues /\ UNCHANGED <<status, attempt, scheduled>>
      /\ UNCHANGED <<job, key, res>> /\ pc[g] = "store"
      /\ \E o \in Writes : Sql(o) /\ SetTransformed(o, job[g].id)
      /\ Goto(g, "close") \/ Loop(g, job[g].acts)
  BY DEF StoreTransformed, SqlOnly, redis, receivers, SameCalls, SameQueues
<1>2. g \notin RetryPollers
  BY <1>1, JobOf
<1>3. pc'[g] \in {"close", "dispatch", "rollActions"}
      /\ \A h \in Goroutines : h # g => pc'[h] = pc[h]
  BY <1>1, <1>2, LoopStep, LocalsAreFunctions DEF Goto
<1> QED BY <1>1, <1>2, <1>3 DEF Others
-----------------------------------------------------------------------------
(* dispatchAction                                                           *)

(* The attempt of the pair in hand is inserted and its call is next; or the *)
(* loop goes on, because the INSERT failed, or because the attempt cannot   *)
(* be inserted.                                                             *)
LEMMA CreateAttemptStep ==
    ASSUME IInv, NEW g \in Goroutines, CreateAttempt(g)
    PROVE  /\ Others(g) /\ SameCalls /\ SameQueues
           /\ UNCHANGED <<status, transformed, scheduled>>
           /\ pc[g] = "dispatch" /\ SameJob(g) /\ job'[g].payload = job[g].payload
           /\ \E a \in job[g].acts :
                LET d == job[g].id
                    n == AttemptNumber(job[g])
                    x == <<d, a, n>>
                IN /\ x \in Keys
                   /\ job'[g].acts = job[g].acts \ {a}
                   /\ \/ /\ pc'[g] = "send" /\ key'[g] = x
                         /\ CanInsertAttempt(d, a, n)
                         /\ attempt' = [attempt EXCEPT ![x] = "pending"]
                      \/ /\ pc'[g] = IF job'[g].acts # {} THEN "dispatch"
                                      ELSE IF g \in RetryPollers THEN "clear"
                                                               ELSE "rollActions"
                         /\ \/ /\ CanInsertAttempt(d, a, n)
                               /\ dbFaults' # dbFaults
                               /\ attempt' = [attempt EXCEPT ![x] = "pending"]
                            \/ /\ CanInsertAttempt(d, a, n)
                               /\ dbFaults' # dbFaults
                               /\ UNCHANGED attempt
                            \/ /\ ~CanInsertAttempt(d, a, n)
                               /\ UNCHANGED attempt
<1> DEFINE d == job[g].id
           n == AttemptNumber(job[g])
<1>1. /\ SameCalls /\ SameQueues /\ UNCHANGED <<status, transformed, scheduled, res>>
      /\ pc[g] = "dispatch"
  BY DEF CreateAttempt, SqlOnly, redis, receivers, SameCalls, SameQueues
<1>2. job[g] \in Jobs
  BY <1>1, JobOf
<1>3. PICK a \in job[g].acts, o \in Writes :
         LET rest == job[g].acts \ {a} IN
         /\ job' = [job EXCEPT ![g].acts = rest]
         /\ \/ /\ CanInsertAttempt(d, a, n)
               /\ Sql(o)
               /\ InsertAttempt(o, d, a, n)
               /\ IF o = "ok" THEN /\ key' = [key EXCEPT ![g] = <<d, a, n>>]
                                   /\ Goto(g, "send")
                              ELSE Loop(g, rest) /\ UNCHANGED key
            \/ /\ ~CanInsertAttempt(d, a, n)
               /\ Loop(g, rest)
               /\ UNCHANGED <<key, attempt, dbFaults>>
  BY DEF CreateAttempt
<1> DEFINE rest == job[g].acts \ {a}
           x == <<d, a, n>>
<1>4. x \in Keys
  BY <1>1, RungOfJob DEF Keys
<1>5. /\ \A h \in Goroutines : h # g => job'[h] = job[h]
      /\ SameJob(g) /\ job'[g].payload = job[g].payload /\ job'[g].acts = rest
  BY <1>2, <1>3, LocalsAreFunctions DEF SameJob, Jobs
<1>6. /\ dbFaults \in Nat
      /\ \A u : Sql(u) /\ u # "ok" => dbFaults' # dbFaults
      /\ \A u : InsertAttempt(u, d, a, n) =>
            UNCHANGED attempt \/ attempt' = [attempt EXCEPT ![x] = "pending"]
  BY LocalsAreFunctions DEF Sql, InsertAttempt
<1>7. InsertAttempt("ok", d, a, n) => attempt' = [attempt EXCEPT ![x] = "pending"]
  BY DEF InsertAttempt, Took
<1> HIDE DEF d, n, x, rest
<1>8. CASE /\ CanInsertAttempt(d, a, n)
           /\ attempt' = [attempt EXCEPT ![x] = "pending"]
           /\ key' = [key EXCEPT ![g] = x] /\ Goto(g, "send")
  <2>1. pc'[g] = "send" /\ key'[g] = x /\ Others(g)
    BY <1>1, <1>4, <1>5, <1>8, LocalsAreFunctions DEF Others, Goto
  <2> QED BY <1>1, <1>4, <1>5, <1>8, <2>1 DEF d, n, x, rest
<1>9. CASE Loop(g, rest) /\ UNCHANGED key
           /\ \/ /\ CanInsertAttempt(d, a, n) /\ dbFaults' # dbFaults
                 /\ \/ UNCHANGED attempt
                    \/ attempt' = [attempt EXCEPT ![x] = "pending"]
              \/ ~CanInsertAttempt(d, a, n) /\ UNCHANGED attempt
  <2> DEFINE after == IF job'[g].acts # {} THEN "dispatch"
                      ELSE IF g \in RetryPollers THEN "clear" ELSE "rollActions"
  <2>1. Others(g) /\ pc'[g] = after
    BY <1>1, <1>5, <1>9, LoopStep DEF Others
  <2> HIDE DEF after
  <2>2. CASE CanInsertAttempt(d, a, n) /\ dbFaults' # dbFaults /\ UNCHANGED attempt
    BY <1>1, <1>4, <1>5, <2>1, <2>2 DEF d, n, x, rest, after
  <2>3. CASE /\ CanInsertAttempt(d, a, n) /\ dbFaults' # dbFaults
             /\ attempt' = [attempt EXCEPT ![x] = "pending"]
    BY <1>1, <1>4, <1>5, <2>1, <2>3 DEF d, n, x, rest, after
  <2>4. CASE ~CanInsertAttempt(d, a, n) /\ UNCHANGED attempt
    BY <1>1, <1>4, <1>5, <2>1, <2>4 DEF d, n, x, rest, after
  <2> QED BY <1>9, <2>2, <2>3, <2>4
<1> QED BY <1>3, <1>6, <1>7, <1>8, <1>9 DEF x, rest

(* The call.                                                                *)
LEMMA DispatchStep ==
    ASSUME IInv, NEW g \in Goroutines, Dispatch(g)
    PROVE  LET p == PairOf(key[g]) IN
           /\ Others(g) /\ SameRows /\ SameQueues /\ UNCHANGED <<job, key>>
           /\ pc[g] = "send" /\ pc'[g] = "result"
           /\ key[g] \in Keys /\ p \in Pairs
           /\ \A q \in Pairs : q # p => calls'[q] = calls[q]
           /\ acked \subseteq acked' /\ acked' \subseteq acked \cup {p}
           /\ carried' = [carried EXCEPT ![key[g][1]] = @ \cup {job[g].payload}]
<1>1. /\ SameRows /\ SameQueues /\ UNCHANGED <<job, key>> /\ pc[g] = "send"
      /\ calls' = [calls EXCEPT ![PairOf(key[g])] = @ + 1]
      /\ carried' = [carried EXCEPT ![key[g][1]] = @ \cup {job[g].payload}]
      /\ acked \subseteq acked' /\ acked' \subseteq acked \cup {PairOf(key[g])}
  BY DEF Dispatch, SameRows, SameQueues, storeVars, tables, redis, PairOf
<1>2. /\ Others(g) /\ pc'[g] = "result"
  BY <1>1, LocalsAreFunctions DEF Dispatch, Write, Goto, Others
<1>3. key[g] \in Keys /\ PairOf(key[g]) \in Pairs
  BY <1>1 DEF IInv, TypeOK, WorkerTypeOK, Keys, Pairs, PairOf
<1>4. \A q \in Pairs : q # PairOf(key[g]) => calls'[q] = calls[q]
  BY <1>1, LocalsAreFunctions
<1> QED BY <1>1, <1>2, <1>3, <1>4

(* The result is written to the goroutine's own row, if it is still there   *)
(* and the statement takes.                                                 *)
LEMMA RecordResultStep ==
    ASSUME IInv, NEW g \in Goroutines, RecordResult(g)
    PROVE  LET x == key[g] IN
           /\ Others(g) /\ SameCalls /\ SameQueues
           /\ UNCHANGED <<status, transformed, job>>
           /\ pc[g] = "result" /\ InFlight(g) /\ x \in Keys
           /\ res[g] \in {"success", "failed"}
           /\ pc'[g] = IF job[g].acts # {} THEN "dispatch"
                       ELSE IF g \in RetryPollers THEN "clear" ELSE "rollActions"
           /\ \A k \in Keys : k # x => attempt'[k] = attempt[k]
           /\ \A k \in Keys : k # x => (k \in scheduled' <=> k \in scheduled)
           /\ attempt'[x] = attempt[x] \/ (attempt[x] # "none" /\ attempt'[x] = res[g])
           /\ dbFaults' = dbFaults /\ attempt[x] # "none"
                 /\ res[g] = "failed" /\ HasRetry(x[3]) => x \in scheduled'
           /\ attempt'[x] = "failed" => attempt[x] = "failed" \/ res[g] = "failed"
<1> DEFINE x == key[g]
<1>1. /\ SameCalls /\ SameQueues /\ UNCHANGED <<status, transformed, job>>
      /\ pc[g] = "result" /\ InFlight(g)
      /\ key' = [key EXCEPT ![g] = NoKey] /\ res' = [res EXCEPT ![g] = "none"]
      /\ Loop(g, job[g].acts)
  BY DEF RecordResult, SqlOnly, redis, receivers, SameCalls, SameQueues, InFlight
<1>2. x \in Keys /\ res[g] \in {"success", "failed"}
  BY <1>1 DEF IInv, TypeOK, WorkerTypeOK, Ladder, Flights, Flight
<1>3. Others(g)
  BY <1>1, LoopStep, LocalsAreFunctions DEF Others
<1>4. PICK o \in Writes :
         /\ Sql(o)
         /\ UpdateAttempt(o, x, res[g], res[g] = "failed" /\ HasRetry(x[3]))
  BY DEF RecordResult
<1>5. dbFaults' = dbFaults => o = "ok"
  BY <1>4, LocalsAreFunctions DEF Sql
<1> HIDE DEF x
<1>6. /\ \A k \in Keys : k # x => attempt'[k] = attempt[k]
      /\ \A k \in Keys : k # x => (k \in scheduled' <=> k \in scheduled)
      /\ attempt'[x] = attempt[x] \/ (attempt[x] # "none" /\ attempt'[x] = res[g])
  BY <1>2, <1>4, LocalsAreFunctions DEF UpdateAttempt
<1>7. dbFaults' = dbFaults /\ attempt[x] # "none"
         /\ res[g] = "failed" /\ HasRetry(x[3]) => x \in scheduled'
  BY <1>2, <1>4, <1>5, LocalsAreFunctions DEF UpdateAttempt, Took
<1> QED BY <1>1, <1>2, <1>3, <1>6, <1>7, LoopStep DEF x

-----------------------------------------------------------------------------
(* retryAttempt                                                             *)

LEMMA GetRetryDeliveryStep ==
    ASSUME IInv, NEW g \in Goroutines, GetRetryDelivery(g)
    PROVE  /\ Others(g) /\ SameRows /\ SameCalls /\ SameQueues
           /\ g \in RetryPollers /\ pc[g] = "idle"
           /\ \/ SameLocals
              \/ \E k \in due[g] :
                   /\ k \in Keys /\ k \in HeldRetries(g)
                   /\ DeliveryExists(k[1])
                   /\ pc'[g] = "action"
                   /\ job'[g].id = k[1] /\ job'[g].prev = k
                   /\ job'[g].acts = {k[2]}
                   /\ job'[g].payload = IF k[1] \in transformed
                                        THEN "transformed" ELSE "original"
<1>1. /\ SameRows /\ SameCalls /\ SameQueues /\ UNCHANGED <<key, res>>
      /\ g \in RetryPollers /\ pc[g] = "idle"
  BY DEF GetRetryDelivery, ReadOnly, StatusOnly, SqlOnly, redis, receivers, SameRows,
     SameCalls, SameQueues
<1>2. PICK k \in due[g] :
         \/ UNCHANGED <<job, pc>>
         \/ /\ DeliveryExists(k[1])
            /\ job' = [job EXCEPT ![g] =
                  [id |-> k[1], force |-> FALSE, script |-> FALSE,
                   acts |-> {k[2]}, prev |-> k,
                   payload |-> IF k[1] \in transformed
                               THEN "transformed" ELSE "original"]]
            /\ Goto(g, "action")
  BY DEF GetRetryDelivery
<1>3. k \in Keys /\ k \in HeldRetries(g)
  BY <1>1, <1>2, LocalsAreFunctions DEF HeldRetries
<1>4. CASE UNCHANGED <<job, pc>>
  BY <1>1, <1>4 DEF Others, SameLocals
<1> DEFINE j == [id |-> k[1], force |-> FALSE, script |-> FALSE,
                 acts |-> {k[2]}, prev |-> k,
                 payload |-> IF k[1] \in transformed
                             THEN "transformed" ELSE "original"]
<1>5. CASE DeliveryExists(k[1]) /\ job' = [job EXCEPT ![g] = j] /\ Goto(g, "action")
  <2>1. Others(g) /\ pc'[g] = "action" /\ job'[g] = j
    BY <1>1, <1>5, LocalsAreFunctions DEF Others, Goto
  <2> QED BY <1>1, <1>3, <1>5, <2>1
<1> QED BY <1>2, <1>4, <1>5

LEMMA GetActionStep ==
    ASSUME IInv, NEW g \in Goroutines, GetAction(g)
    PROVE  /\ Others(g) /\ SameRows /\ SameCalls /\ SameQueues
           /\ pc[g] = "action" /\ g \in RetryPollers
           /\ \/ pc'[g] = "idle"
              \/ /\ SameJob(g) /\ job'[g].payload = job[g].payload
                 /\ job[g].acts \ transforms \subseteq job'[g].acts
                 /\ job'[g].acts \subseteq job[g].acts
                 /\ pc'[g] = IF job'[g].acts # {} THEN "dispatch" ELSE "clear"
<1>1. /\ SameRows /\ SameCalls /\ SameQueues /\ pc[g] = "action"
  BY DEF GetAction, ReadOnly, StatusOnly, SqlOnly, redis, receivers, SameRows,
     SameCalls, SameQueues
<1>2. job[g] \in Jobs /\ g \in RetryPollers
  BY <1>1, JobOf
<1>3. CASE Return(g)
  BY <1>1, <1>2, <1>3, ReturnStep
<1>4. CASE Keep(g, job[g].acts, job[g].payload) /\ Loop(g, job'[g].acts)
           /\ UNCHANGED <<key, res>>
  <2>1. PICK skipped \in SUBSET (job[g].acts \cap transforms) :
            job' = [job EXCEPT ![g].acts = job[g].acts \ skipped,
                               ![g].payload = job[g].payload]
    BY <1>4, Zenon DEF Keep
  <2>2. /\ \A h \in Goroutines : h # g => job'[h] = job[h]
        /\ SameJob(g) /\ job'[g].payload = job[g].payload
        /\ job'[g].acts = job[g].acts \ skipped
    BY <2>1, <1>2, LocalsAreFunctions DEF SameJob, Jobs
  <2>3. /\ Others(g)
        /\ pc'[g] = IF job'[g].acts # {} THEN "dispatch" ELSE "clear"
    BY <1>2, <1>4, <2>2, LoopStep DEF Others
  <2> QED BY <1>1, <1>2, <2>2, <2>3
<1> QED BY <1>3, <1>4 DEF GetAction

(* The schedule of the retried attempt is cleared; it has failed already.   *)
LEMMA ClearRetryStep ==
    ASSUME IInv, NEW g \in Goroutines, ClearRetry(g)
    PROVE  /\ Others(g) /\ SameCalls /\ SameQueues
           /\ UNCHANGED <<status, transformed, attempt, job>>
           /\ pc[g] = "clear" /\ pc'[g] = "rollActions"
           /\ g \in RetryPollers /\ job[g].prev \in Keys
           /\ scheduled \ {job[g].prev} \subseteq scheduled'
<1>1. /\ SameCalls /\ SameQueues /\ UNCHANGED <<status, transformed, job, key, res>>
      /\ pc[g] = "clear" /\ Goto(g, "rollActions")
  BY DEF ClearRetry, SqlOnly, redis, receivers, SameCalls, SameQueues
<1>2. job[g] \in Jobs /\ g \in RetryPollers /\ job[g].prev \in Keys
  BY <1>1, JobOf
<1>3. attempt[job[g].prev] \in {"failed", "none"}
  BY <1>1, <1>2, GoneHasNoRows DEF IInv, Ladder, Retries, HeldRetries
<1>4. attempt' = attempt /\ scheduled \ {job[g].prev} \subseteq scheduled'
  BY <1>2, <1>3, LocalsAreFunctions DEF ClearRetry, UpdateAttempt
<1>5. Others(g) /\ pc'[g] = "rollActions"
  BY <1>1, LocalsAreFunctions DEF Others, Goto
<1> QED BY <1>1, <1>2, <1>4, <1>5

-----------------------------------------------------------------------------
(* rollUpDeliveryStatus                                                     *)

LEMMA RollUpActionsStep ==
    ASSUME IInv, NEW g \in Goroutines, RollUpActions(g)
    PROVE  /\ Others(g) /\ SameRows /\ SameCalls /\ SameQueues
           /\ pc[g] = "rollActions"
           /\ \/ pc'[g] = "idle"
              \/ /\ pc'[g] = "rollAttempts" /\ SameJob(g)
                 /\ job'[g].acts = ListActiveBySource(SourceOf[job[g].id])
<1>1. /\ SameRows /\ SameCalls /\ SameQueues /\ pc[g] = "rollActions"
  BY DEF RollUpActions, ReadOnly, StatusOnly, SqlOnly, redis, receivers, SameRows,
     SameCalls, SameQueues
<1>2. job[g] \in Jobs
  BY <1>1, JobOf
<1>3. CASE Return(g)
  BY <1>1, <1>3, ReturnStep
<1> DEFINE listed == ListActiveBySource(SourceOf[job[g].id])
<1>4. CASE /\ job' = [job EXCEPT ![g].acts = listed]
           /\ Goto(g, "rollAttempts") /\ UNCHANGED <<key, res>>
  <2> HIDE DEF listed
  <2>1. /\ Others(g) /\ pc'[g] = "rollAttempts" /\ SameJob(g)
        /\ job'[g].acts = listed
    BY <1>2, <1>4, LocalsAreFunctions DEF Others, Goto, SameJob, Jobs
  <2> QED BY <1>1, <2>1 DEF listed
<1> QED BY <1>3, <1>4 DEF RollUpActions

LEMMA RollUpAttemptsStep ==
    ASSUME IInv, NEW g \in Goroutines, RollUpAttempts(g)
    PROVE  LET d == job[g].id
               acts == job[g].acts
           IN
           /\ Others(g) /\ SameRows /\ SameCalls /\ SameQueues
           /\ pc[g] = "rollAttempts"
           /\ \/ pc'[g] = "idle"
              \/ /\ pc'[g] = "close" /\ job'[g] = job[g]
                 /\ \A a \in acts : Delivered(d, a) \/ Exhausted(d, a)
                 /\ res'[g] = IF \E a \in acts : Exhausted(d, a)
                              THEN "failed" ELSE "completed"
<1> DEFINE d == job[g].id
           acts == job[g].acts
           verdict == IF \E a \in acts : Exhausted(d, a) THEN "failed" ELSE "completed"
<1>1. /\ SameRows /\ SameCalls /\ SameQueues /\ pc[g] = "rollAttempts"
  BY DEF RollUpAttempts, ReadOnly, StatusOnly, SqlOnly, redis, receivers, SameRows,
     SameCalls, SameQueues
<1>2. CASE Return(g)
  BY <1>1, <1>2, ReturnStep
<1>3. CASE /\ \A a \in acts : Delivered(d, a) \/ Exhausted(d, a)
           /\ Write(g, verdict, "close") /\ UNCHANGED <<job, key>>
  <2>1. verdict \in Results
    OBVIOUS
  <2>2. /\ res' = [res EXCEPT ![g] = verdict] /\ Goto(g, "close")
        /\ UNCHANGED <<job, key>>
    BY <1>3 DEF Write
  <2>3. Others(g) /\ pc'[g] = "close" /\ res'[g] = verdict /\ job'[g] = job[g]
    <3> HIDE DEF verdict
    <3> QED BY <2>1, <2>2, GotoStep
  <2> QED BY <1>1, <1>3, <2>3
<1> QED BY <1>2, <1>3, Zenon DEF RollUpAttempts

LEMMA WriteStatusStep ==
    ASSUME IInv, NEW g \in Goroutines, WriteStatus(g)
    PROVE  /\ Others(g) /\ SameCalls /\ SameQueues
           /\ UNCHANGED <<transformed, attempt, scheduled>>
           /\ pc[g] = "close" /\ pc'[g] = "idle"
           /\ res[g] \in {"recorded"} \cup Terminal
           /\ \E o \in Writes : UpdateStatus(o, job[g].id, res[g])
<1>1. /\ SameCalls /\ SameQueues /\ UNCHANGED <<transformed, attempt, scheduled>>
      /\ pc[g] = "close" /\ Return(g)
      /\ \E o \in Writes : UpdateStatus(o, job[g].id, res[g])
  BY DEF WriteStatus, StatusOnly, SqlOnly, redis, receivers, SameCalls, SameQueues
<1>2. res[g] \in {"recorded"} \cup Terminal
  BY <1>1 DEF IInv, Ladder, Locals
<1> QED BY <1>1, <1>2, ReturnStep

-----------------------------------------------------------------------------
(* The steps of the other parts                                             *)

LEMMA PollStep ==
    ASSUME IInv, NEW g \in Goroutines, Poll(g)
    PROVE  /\ SameLocals /\ SameRows /\ SameCalls
           /\ UNCHANGED <<mode, scripted, action, transforms, dbFaults>>
           /\ stream' = stream \/ (stream # << >> /\ stream' = Tail(stream))
           /\ \A h \in Fanouts : \A m \in work'[h] :
                 m \in work[h] \/ ~m.force \/ (stream # << >> /\ m = Head(stream))
<1>1. CASE Receive(g)
  <2>1. PICK o : work' = [work EXCEPT ![g] = IF o = "ok" THEN {Head(stream)} ELSE {}]
    BY <1>1 DEF Receive
  <2>2. \A h \in Fanouts : \A m \in work'[h] : m \in work[h] \/ m = Head(stream)
    BY <2>1, LocalsAreFunctions
  <2> QED BY <1>1, <2>2 DEF Receive, SameLocals, SameRows, SameCalls, tables, receivers
<1>2. CASE ListPending(g)
  <2>1. PICK batch : work' = [work EXCEPT ![g] = [id : batch, force : {FALSE}]]
    BY <1>2 DEF ListPending
  <2>2. \A m \in [id : batch, force : {FALSE}] : ~m.force
    OBVIOUS
  <2> HIDE DEF SameLocals
  <2>3. \A h \in Fanouts : \A m \in work'[h] : m \in work[h] \/ ~m.force
    BY <2>1, <2>2, LocalsAreFunctions
  <2> QED BY <1>2, <2>3 DEF ListPending, SameLocals, SameRows, SameCalls, storeVars,
             tables, redis, receivers
<1>3. CASE ListRetryable(g)
  BY <1>3 DEF ListRetryable, SameLocals, SameRows, SameCalls, storeVars, tables, redis,
     receivers
<1> QED BY <1>1, <1>2, <1>3 DEF Poll

LEMMA CrashStep ==
    ASSUME IInv, NEW r \in Replicas, CrashWorker(r)
    PROVE  /\ SameRows /\ SameCalls
           /\ UNCHANGED <<mode, scripted, action, transforms, dbFaults, stream>>
           /\ \A g \in Goroutines :
                 \/ /\ pc'[g] = pc[g] /\ job'[g] = job[g]
                    /\ key'[g] = key[g] /\ res'[g] = res[g]
                 \/ pc'[g] = "idle"
           /\ \A h \in Fanouts : work'[h] \subseteq work[h]
  BY DEF CrashWorker, SameRows, SameCalls, tables, receivers

(* A step of the API server that is no edit.                                *)
LEMMA RequestStep ==
    ASSUME IInv, IInv', UNCHANGED workerVars,
           \/ \E h \in Handlers : Ingest(h) \/ Forward(h) \/ Handle(h)
           \/ CrashApi
    PROVE  Outside
<1>1. CASE CrashApi \/ \E h \in Handlers : Ingest(h) \/ Forward(h)
  BY <1>1, LocalsAreFunctions DEF CrashApi, Ingest, Forward, storeVars, tables,
     workerVars, locals, receivers, Outside, SameCalls
<1>2. ASSUME NEW h \in Handlers, Handle(h)
      PROVE  Outside
  <2>1. /\ UNCHANGED <<mode, scripted, action, transforms, transformed, attempt, scheduled>>
        /\ SameCalls /\ SameLocals
    BY <1>2 DEF Handle, CreateDelivery, MarkRecorded, PublishToStream, Rearm,
       ForwardToStream, Unarm, StatusUpdateOnly, tables, workerVars, locals, receivers,
       SameCalls, SameLocals
  <2>2. at[h] # "idle" /\ req[h].id \in Deliveries
    BY <1>2 DEF Handle, CreateDelivery, MarkRecorded, PublishToStream, Rearm,
       ForwardToStream, Unarm, IInv, TypeOK, ApiTypeOK, Requests
  <2>3. \/ UNCHANGED <<status, dbFaults>>
        \/ /\ status' \in {status, [status EXCEPT ![req[h].id] = "pending"],
                           [status EXCEPT ![req[h].id] = "recorded"]}
           /\ \E o \in Writes : Sql(o)
    BY <1>2 DEF Handle, CreateDelivery, MarkRecorded, PublishToStream, Rearm,
       ForwardToStream, Unarm, UpdateStatus, tables
  <2>4. /\ dbFaults <= dbFaults'
        /\ \A d \in Deliveries : /\ status[d] # "none" => status'[d] # "none"
                                 /\ status'[d] \in {status[d], "pending", "recorded"}
    BY <2>2, <2>3, LocalsAreFunctions DEF Sql
  <2> QED BY <2>1, <2>4 DEF Outside, SameLocals
<1> QED BY <1>1, <1>2

(* Without an edit a step is one of a goroutine at work or leaves the rows, *)
(* but for statuses, to it.                                                 *)
LEMMA StepOrOutside ==
    ASSUME IInv, [Next]_vars, edits' = 0
    PROVE  /\ edits = 0
           /\ Outside \/ \E g \in Goroutines : Working(g)
<1>i. IInv'
  BY NextInv
<1>n. dbFaults \in Nat /\ dbFaults' \in Nat /\ edits \in Nat
  BY <1>i, LocalsAreFunctions, BoundsAssumption, ApiAssumption
     DEF IInv, TypeOK, StoreTypeOK, ApiTypeOK
<1>1. CASE WorkerNext /\ UNCHANGED apiVars
  <2>1. ASSUME NEW g \in Goroutines, Poll(g)
        PROVE  Outside
    BY <2>1, <1>n, PollStep DEF Outside, SameLocals, SameRows
  <2>2. ASSUME NEW r \in Replicas, CrashWorker(r)
        PROVE  Outside
    BY <2>2, <1>n, CrashStep DEF Outside, SameRows
  <2> QED BY <1>1, <2>1, <2>2 DEF WorkerNext, Step, Working, apiVars
<1>2. CASE ApiNext /\ UNCHANGED workerVars
  <2>1. ASSUME NEW h \in Handlers, Ingest(h) \/ Forward(h) \/ Handle(h)
        PROVE  UNCHANGED edits
    BY <2>1 DEF Ingest, Forward, Handle, CreateDelivery, MarkRecorded, PublishToStream,
       Rearm, ForwardToStream, Unarm, StatusUpdateOnly, SameRequests
  <2>2. CrashApi => UNCHANGED edits
    BY DEF CrashApi
  <2>e. ~Edit
    BY <1>n DEF Edit
  <2>3. ~ \E s \in Sources : CreateSource(s) \/ UpdateSource(s) \/ DeleteSource(s)
    BY <2>e DEF CreateSource, UpdateSource, DeleteSource
  <2>4. ~ \E a \in Actions : CreateAction(a) \/ UpdateAction(a) \/ DeleteAction(a)
    BY <2>e DEF CreateAction, UpdateAction, DeleteAction
  <2>5. \/ \E h \in Handlers : Ingest(h) \/ Forward(h) \/ Handle(h)
        \/ CrashApi
    BY <1>2, <2>3, <2>4 DEF ApiNext
  <2>6. Outside
    BY <1>2, <1>i, <2>5, RequestStep
  <2> QED BY <2>1, <2>2, <2>5, <2>6
<1>3. CASE RedisLosesData /\ UNCHANGED <<workerVars, apiVars>>
  BY <1>3, <1>n DEF RedisLosesData, Outside, SameCalls, tables, workerVars, locals,
     receivers, apiVars
<1>4. CASE UNCHANGED vars
  BY <1>4, <1>n DEF vars, Outside, SameCalls, storeVars, tables, workerVars, locals,
     receivers, apiVars
<1> QED BY <1>1, <1>2, <1>3, <1>4 DEF Next

(* A step of a goroutine at work leaves the other ones where they are.      *)
LEMMA OthersKept ==
    ASSUME IInv, NEW g \in Goroutines, Working(g)
    PROVE  Others(g)
  BY GetDeliveryStep, GetSourceStep, ClaimStep, ListActionsStep, StoreTransformedStep,
     CreateAttemptStep, DispatchStep, RecordResultStep, GetRetryDeliveryStep,
     GetActionStep, ClearRetryStep, RollUpActionsStep, RollUpAttemptsStep,
     WriteStatusStep
     DEF Working, ProcessDelivery, DispatchAction, RetryAttempt, RollUp

(* What every step of a goroutine at work leaves standing.                  *)
LEMMA WorkingGrows ==
    ASSUME IInv, NEW g \in Goroutines, Working(g)
    PROVE  Grows
<1>1. UNCHANGED <<mode, scripted, action, transforms>> /\ dbFaults' \in Nat
      /\ dbFaults <= dbFaults'
  <2>1. UNCHANGED <<mode, scripted, action, transforms>>
    BY DEF Working, ProcessDelivery, DispatchAction, RetryAttempt, RollUp,
       GetDelivery, GetSource, Claim, ListActions, StoreTransformed, CreateAttempt,
       Dispatch, RecordResult, GetRetryDelivery, GetAction, ClearRetry,
       RollUpActions, RollUpAttempts, WriteStatus, ReadOnly, StatusOnly, SqlOnly,
       storeVars, tables
  <2>2. UNCHANGED dbFaults \/ \E o : Sql(o)
    BY DEF Working, ProcessDelivery, DispatchAction, RetryAttempt, RollUp,
       GetDelivery, GetSource, Claim, ListActions, StoreTransformed, CreateAttempt,
       Dispatch, RecordResult, GetRetryDelivery, GetAction, ClearRetry,
       RollUpActions, RollUpAttempts, WriteStatus, storeVars
  <2> QED BY <2>1, <2>2, LocalsAreFunctions DEF Sql
<1>2. \A d \in Deliveries : status'[d] = "none" <=> status[d] = "none"
  <2>1. CASE Claim(g)
    BY <2>1, ClaimStep, JobOf, UpdateStatusType, LocalsAreFunctions DEF Statuses
  <2>2. CASE WriteStatus(g)
    BY <2>2, WriteStatusStep, JobOf, UpdateStatusType, LocalsAreFunctions DEF Statuses
  <2>3. CASE ~Claim(g) /\ ~WriteStatus(g)
    BY <2>3, GetDeliveryStep, GetSourceStep, ListActionsStep, StoreTransformedStep,
       CreateAttemptStep, DispatchStep, RecordResultStep, GetRetryDeliveryStep,
       GetActionStep, ClearRetryStep, RollUpActionsStep, RollUpAttemptsStep
       DEF SameRows, Working, ProcessDelivery, DispatchAction, RetryAttempt, RollUp
  <2> QED BY <2>1, <2>2, <2>3
<1>3. /\ transformed \subseteq transformed'
      /\ \A k \in Keys : attempt'[k] = "none" => attempt[k] = "none"
  <2>1. CASE StoreTransformed(g)
    BY <2>1, StoreTransformedStep DEF SetTransformed
  <2>2. CASE CreateAttempt(g)
    BY <2>2, CreateAttemptStep, LocalsAreFunctions
  <2>3. CASE RecordResult(g)
    <3>1. /\ UNCHANGED transformed
          /\ \A k \in Keys : k # key[g] => attempt'[k] = attempt[k]
          /\ res[g] \in {"success", "failed"}
      BY <2>3, RecordResultStep
    <3>2. \/ attempt'[key[g]] = attempt[key[g]]
          \/ attempt'[key[g]] = res[g]
      BY <2>3, RecordResultStep
    <3> QED BY <3>1, <3>2
  <2>4. CASE ~StoreTransformed(g) /\ ~CreateAttempt(g) /\ ~RecordResult(g)
    BY <2>4, GetDeliveryStep, GetSourceStep, ClaimStep, ListActionsStep, DispatchStep,
       GetRetryDeliveryStep, GetActionStep, ClearRetryStep, RollUpActionsStep,
       RollUpAttemptsStep, WriteStatusStep
       DEF SameRows, Working, ProcessDelivery, DispatchAction, RetryAttempt, RollUp
  <2> QED BY <2>1, <2>2, <2>3, <2>4
<1>4. /\ \A p \in Pairs : calls[p] <= calls'[p]
      /\ acked \subseteq acked'
      /\ \A p \in Pairs : p \in acked' => p \in acked \/ calls[p] < calls'[p]
  <2>1. CASE Dispatch(g)
    <3>1. calls' = [calls EXCEPT ![PairOf(key[g])] = @ + 1]
      BY <2>1 DEF Dispatch, PairOf
    <3>2. /\ \A p \in Pairs : calls[p] <= calls'[p]
          /\ PairOf(key[g]) \in Pairs
          /\ calls[PairOf(key[g])] < calls'[PairOf(key[g])]
      BY <2>1, <3>1, DispatchStep, LocalsAreFunctions
    <3> QED BY <2>1, <3>2, DispatchStep
  <2>2. CASE ~Dispatch(g)
    BY <2>2, GetDeliveryStep, GetSourceStep, ClaimStep, ListActionsStep,
       StoreTransformedStep, CreateAttemptStep, RecordResultStep,
       GetRetryDeliveryStep, GetActionStep, ClearRetryStep, RollUpActionsStep,
       RollUpAttemptsStep, WriteStatusStep, LocalsAreFunctions
       DEF SameCalls, Working, ProcessDelivery, DispatchAction, RetryAttempt, RollUp
  <2> QED BY <2>1, <2>2
<1> QED BY <1>1, <1>2, <1>3, <1>4, LocalsAreFunctions DEF Grows

(* While there was no edit, no source or action has ever been deleted.      *)
NothingDeleted ==
    edits = 0 => /\ \A s \in Sources : mode[s] # "deleted"
                 /\ \A a \in Actions : action[a] # "deleted"

LEMMA NothingDeletedInit == Init => NothingDeleted
  BY DEF Init, NothingDeleted

LEMMA NothingDeletedStep ==
    ASSUME IInv, [Next]_vars, NothingDeleted
    PROVE  NothingDeleted'
<1> SUFFICES ASSUME edits' = 0
             PROVE  /\ \A s \in Sources : mode'[s] # "deleted"
                    /\ \A a \in Actions : action'[a] # "deleted"
  BY DEF NothingDeleted
<1>1. edits = 0 /\ UNCHANGED <<mode, action>>
  BY StepOrOutside, WorkingGrows DEF Grows, Outside
<1> QED BY <1>1 DEF NothingDeleted

LEMMA NothingGone ==
    ASSUME NothingDeleted, edits = 0, NEW d \in Deliveries, NEW a \in Actions
    PROVE  ~Gone(d, a)
  BY TablesAssumption DEF NothingDeleted, Gone

(* Without an edit, no row is ever deleted.                                 *)
LEMMA DeletedByEdits == Spec => []NothingDeleted
<1>1. Init => NothingDeleted
  BY NothingDeletedInit
<1>2. IInv /\ NothingDeleted /\ [Next]_vars => NothingDeleted'
  BY NothingDeletedStep
<1> QED BY <1>1, <1>2, InductiveInvariant, PTL DEF Spec
=============================================================================
