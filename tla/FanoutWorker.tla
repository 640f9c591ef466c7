---------------------------- MODULE FanoutWorker ----------------------------
(***************************************************************************)
(* The fan-out worker, internal/worker/fanout.go: the goroutines of every  *)
(* replica.  A consumer reads the stream, a pending poller lists the       *)
(* pending deliveries; both run processDelivery.  A retry poller lists the *)
(* attempts whose retry is due and runs retryAttempt.  All of them share   *)
(* the code that creates an attempt, calls the receiver, records the       *)
(* result and rolls the delivery's status up.                              *)
(*                                                                         *)
(* A step of a goroutine is one SQL statement, Redis command or call, with *)
(* the computation on local data that follows it.                          *)
(***************************************************************************)
EXTENDS Store

CONSTANTS
    Consumers, PendingPollers, RetryPollers,  \* the goroutines
    Replicas, ReplicaOf,                      \* the process each runs in
    PollLimit,                                \* LIMIT of the polls' queries
    MaxCrashes,                               \* bound: crashes of a process
    NoJob, NoKey                              \* no row read, no attempt

Fanouts == Consumers \cup PendingPollers
Goroutines == Fanouts \cup RetryPollers

ASSUME GoroutinesAssumption ==
    /\ Consumers \cap PendingPollers = {}
    /\ Fanouts \cap RetryPollers = {}
    /\ ReplicaOf \in [Goroutines -> Replicas]
    /\ PollLimit \in Nat \ {0}
    /\ MaxCrashes \in Nat
    /\ NoKey \notin Keys

VARIABLES
    pc,       \* where each goroutine is
    work,     \* the deliveries a consumer or pending poller has yet to handle
    due,      \* the attempts a retry poller has listed and yet to retry
    job,      \* what processDelivery or retryAttempt holds in its locals
    key,      \* the attempt it has created and not recorded yet
    res,      \* the value it is about to write
    crashes   \* crashes so far

VARIABLES     \* what the receivers of the actions have seen
    calls,    \* how often each action was called for each delivery
    acked,    \* the <<delivery, action>> a receiver answered with success
    carried   \* which of the two Payloads the calls of each delivery carried

locals == <<pc, work, due, job, key, res>>
receivers == <<calls, acked, carried>>
workerVars == <<locals, crashes, receivers>>

Pairs == Deliveries \X Actions
(* Which payload a call carries: the one that was posted, or one that a run *)
(* of the source's script made of it.  Two runs, of two fan-outs, need not  *)
(* make the same (a script may read the clock); which of them is stored is  *)
(* left out, and what an action's own transform makes of it at each attempt *)
(* with it.                                                                 *)
Payloads == {"original", "transformed"}
Labels == {"idle", "source", "claim", "list", "store", "dispatch", "send",
           "result", "action", "clear", "rollActions", "rollAttempts", "close"}
Results == {"none", "success", "recorded"} \cup Terminal

(* force, script and prev are locals of the code; acts are the actions it   *)
(* has still to dispatch to (or, while it rolls up, has just listed); prev  *)
(* is the attempt being retried.                                            *)
Jobs == [id : Deliveries, force : BOOLEAN, script : BOOLEAN,
         acts : SUBSET Actions, payload : Payloads, prev : Keys \cup {NoKey}]

WorkerTypeOK ==
    /\ pc \in [Goroutines -> Labels]
    /\ work \in [Fanouts -> SUBSET Messages]
    /\ due \in [RetryPollers -> SUBSET Keys]
    /\ job \in [Goroutines -> Jobs \cup {NoJob}]
    /\ \A g \in Goroutines : IF pc[g] = "idle" THEN job[g] = NoJob
                                               ELSE job[g] \in Jobs
    /\ key \in [Goroutines -> Keys \cup {NoKey}]
    /\ \A g \in Goroutines : pc[g] \in {"send", "result"} => key[g] \in Keys
    /\ res \in [Goroutines -> Results]
    /\ crashes \in 0 .. MaxCrashes
    /\ calls \in [Pairs -> Nat]
    /\ acked \in SUBSET Pairs
    /\ carried \in [Deliveries -> SUBSET Payloads]

-----------------------------------------------------------------------------
(* Local control                                                            *)
Goto(g, label) == pc' = [pc EXCEPT ![g] = label]
(* Mutant: an error path without its return statement.                      *)
FallThrough(g) ==
    /\ UNCHANGED pc
    /\ job' = [job EXCEPT ![g] = NoJob]
    /\ key' = [key EXCEPT ![g] = NoKey]
    /\ res' = [res EXCEPT ![g] = "none"]

Return(g) ==
    /\ pc' = [pc EXCEPT ![g] = "idle"]
    /\ job' = [job EXCEPT ![g] = NoJob]
    /\ key' = [key EXCEPT ![g] = NoKey]
    /\ res' = [res EXCEPT ![g] = "none"]
(* The next action of the loop in processDelivery; after the last one, and  *)
(* after the one action of a retry, what follows the loop.                  *)
Loop(g, acts) ==
    Goto(g, IF acts # {} THEN "dispatch"
            ELSE IF g \in RetryPollers THEN "clear" ELSE "rollActions")
Write(g, value, label) ==
    /\ res' = [res EXCEPT ![g] = value]
    /\ Goto(g, label)

SqlOnly == UNCHANGED <<redis, redisFaults, mode, scripted, action, transforms,
                       crashes>>
StatusOnly == SqlOnly /\ UNCHANGED <<transformed, attempt, scheduled>>
ReadOnly == StatusOnly /\ UNCHANGED status

-----------------------------------------------------------------------------
(* Reading work                                                             *)

(* XREADGROUP: the next entry that no consumer of the group has read.  The  *)
(* group will not hand it out again, whatever becomes of this consumer:     *)
(* nobody claims the group's pending entries.                               *)
Receive(g) ==
    /\ g \in Consumers
    /\ pc[g] = "idle" /\ work[g] = {}
    /\ group /\ stream # << >>
    /\ \E o \in {"ok", "unacked"} :
          /\ Redis(o)
          /\ work' = [work EXCEPT ![g] = IF o = "ok" THEN {Head(stream)} ELSE {}]
    /\ stream' = Tail(stream)
    /\ UNCHANGED <<tables, group, trimmed, dbFaults, due, pc, job, key, res, crashes,
                   receivers>>

(* Mutant: a poll for deliveries in processing.                             *)
InProcessing == {d \in Deliveries : status[d] = "processing"}
Pending == {d \in Deliveries : status[d] = "pending"}

ListPending(g) ==
    /\ g \in PendingPollers
    /\ pc[g] = "idle" /\ work[g] = {}
    /\ \E batch \in SUBSET Pending :
          /\ IF Cardinality(Pending) <= PollLimit THEN batch = Pending
                                  ELSE Cardinality(batch) = PollLimit
          /\ work' = [work EXCEPT ![g] = [id : batch, force : {FALSE}]]
    /\ UNCHANGED <<storeVars, due, pc, job, key, res, crashes, receivers>>

ListRetryable(g) ==
    /\ g \in RetryPollers
    /\ pc[g] = "idle" /\ due[g] = {}
    /\ \E batch \in SUBSET Retryable :
          /\ Cardinality(batch) <= PollLimit
          /\ due' = [due EXCEPT ![g] = batch]
    /\ UNCHANGED <<storeVars, work, pc, job, key, res, crashes, receivers>>

-----------------------------------------------------------------------------
(* processDelivery                                                          *)
(* Mutant: a forced message is handled like any other.                      *)
EligibleWhenPending(m) == status[m.id] = "pending"

Eligible(m) ==
    \/ status[m.id] = "pending"
    \/ m.force /\ status[m.id] = "recorded"

GetDelivery(g) ==
    /\ g \in Fanouts
    /\ pc[g] = "idle"
    /\ \E m \in work[g], o \in Reads :
          /\ Sql(o)
          /\ work' = [work EXCEPT ![g] = @ \ {m}]
          /\ IF o = "ok" /\ Eligible(m)
             THEN /\ job' = [job EXCEPT ![g] =
                        [id |-> m.id, force |-> m.force, script |-> FALSE,
                         acts |-> {}, payload |-> "original", prev |-> NoKey]]
                  /\ Goto(g, "source")
             ELSE UNCHANGED <<job, pc>>
    /\ ReadOnly
    /\ UNCHANGED <<due, key, res, receivers>>

(* Mutant: the test of force inverted.                                      *)
StoreForced(m, force) == m = "record" /\ force

(* In record mode only what the operator forwards is dispatched.            *)
StoreOnly(m, force) == m = "record" /\ ~force

GetSource(g) ==
    /\ pc[g] = "source"
    /\ LET s == SourceOf[job[g].id] IN
       \E o \in Reads :
          /\ Sql(o)
          /\ \/ /\ ~(o = "ok" /\ SourceExists(s))
                /\ Return(g)
             \/ /\ o = "ok" /\ SourceExists(s)
                /\ StoreOnly(mode[s], job[g].force)
                /\ Write(g, "recorded", "close")
                /\ UNCHANGED <<job, key>>
             \/ /\ o = "ok" /\ SourceExists(s)
                /\ ~StoreOnly(mode[s], job[g].force)
                /\ job' = [job EXCEPT ![g].script = scripted[s]]
                /\ Goto(g, "claim")
                /\ UNCHANGED <<key, res>>
    /\ ReadOnly
    /\ UNCHANGED <<work, due, receivers>>

(* The claim is an unconditional UPDATE: the status may have changed since  *)
(* GetDelivery read it.                                                     *)
Claim(g) ==
    /\ pc[g] = "claim"
    /\ \E o \in Writes :
          /\ Sql(o)
          /\ UpdateStatus(o, job[g].id, "processing")
          /\ IF o = "ok" THEN Goto(g, "list") /\ UNCHANGED <<job, key, res>>
                         ELSE Return(g)
    /\ StatusOnly
    /\ UNCHANGED <<work, due, receivers>>

(* The actions of the loop are those the source's script keeps, less those  *)
(* whose own transform returns null.  Transforms run again at each attempt; *)
(* what they do to the payload is left out.                                 *)
Keep(g, kept, payload) ==
    \E skipped \in SUBSET (kept \cap transforms) :
        job' = [job EXCEPT ![g].acts = kept \ skipped, ![g].payload = payload]

ListActions(g) ==
    /\ pc[g] = "list"
    /\ LET listed == ListActiveBySource(SourceOf[job[g].id]) IN
       \E o \in Reads :
          /\ Sql(o)
          /\ \/ o = "lost" /\ Return(g)
             \/ /\ o = "ok" /\ listed = {}
                /\ Write(g, "completed", "close")
                /\ UNCHANGED <<job, key>>
             \/ /\ o = "ok" /\ listed # {} /\ ~job[g].script
                /\ Keep(g, listed, "original")
                /\ Loop(g, job'[g].acts)
                /\ UNCHANGED <<key, res>>
             \/ /\ o = "ok" /\ listed # {} /\ job[g].script
                /\ \E verdict \in Terminal : Write(g, verdict, "close")
                /\ UNCHANGED <<job, key>>
             \/ /\ o = "ok" /\ listed # {} /\ job[g].script
                /\ \E kept \in SUBSET listed :
                      /\ Keep(g, kept, "transformed")
                      /\ Write(g, IF kept = {} THEN "completed" ELSE "none",
                               "store")
                /\ UNCHANGED key
    /\ ReadOnly
    /\ UNCHANGED <<work, due, receivers>>

StoreTransformed(g) ==
    /\ pc[g] = "store"
    /\ \E o \in Writes : Sql(o) /\ SetTransformed(o, job[g].id)
    /\ IF res[g] = "completed" THEN Goto(g, "close") ELSE Loop(g, job[g].acts)
    /\ SqlOnly
    /\ UNCHANGED <<status, attempt, scheduled, work, due, job, key, res, receivers>>

-----------------------------------------------------------------------------
(* dispatchAction                                                           *)
AttemptNumber(j) == IF j.prev = NoKey THEN 1 ELSE j.prev[3] + 1

CreateAttempt(g) ==
    /\ pc[g] = "dispatch"
    /\ \E a \in job[g].acts, o \in Writes :
          LET d == job[g].id
              n == AttemptNumber(job[g])
              rest == job[g].acts \ {a}
          IN /\ job' = [job EXCEPT ![g].acts = rest]
             /\ \/ /\ CanInsertAttempt(d, a, n)
                   /\ Sql(o)
                   /\ InsertAttempt(o, d, a, n)
                   /\ IF o = "ok" THEN /\ key' = [key EXCEPT ![g] = <<d, a, n>>]
                                       /\ Goto(g, "send")
                                  ELSE Loop(g, rest) /\ UNCHANGED key
                \/ /\ ~CanInsertAttempt(d, a, n)
                   /\ Loop(g, rest)
                   /\ UNCHANGED <<key, attempt, dbFaults>>
    /\ SqlOnly
    /\ UNCHANGED <<status, transformed, scheduled, work, due, res, receivers>>

(* The dispatcher's call and its answer; an answer the dispatcher reads as  *)
(* a failure, or does not get in time, is "failed".                         *)
Dispatch(g) ==
    /\ pc[g] = "send"
    /\ LET pair == <<key[g][1], key[g][2]>> IN
       /\ calls' = [calls EXCEPT ![pair] = @ + 1]
       /\ carried' = [carried EXCEPT ![key[g][1]] = @ \cup {job[g].payload}]
       /\ \/ Write(g, "success", "result") /\ acked' = acked \cup {pair}
          \/ Write(g, "failed", "result") /\ UNCHANGED acked
    /\ UNCHANGED <<storeVars, work, due, job, key, crashes>>

(* Mutant: attemptNumber == maxRetries.                                     *)
HasRetryUnlessLast(n) == n # MaxRetries
(* Mutant: attemptNumber > maxRetries.                                      *)
HasOneMore(n) == n <= MaxRetries

(* nextRetryTime: nil when the attempt was the last.                        *)
HasRetry(n) == n < MaxRetries

RecordResult(g) ==
    /\ pc[g] = "result"
    /\ \E o \in Writes :
          /\ Sql(o)
          /\ UpdateAttempt(o, key[g], res[g],
                           res[g] = "failed" /\ HasRetry(key[g][3]))
    /\ key' = [key EXCEPT ![g] = NoKey]
    /\ res' = [res EXCEPT ![g] = "none"]
    /\ Loop(g, job[g].acts)
    /\ SqlOnly
    /\ UNCHANGED <<status, transformed, work, due, job, receivers>>

-----------------------------------------------------------------------------
(* retryAttempt                                                             *)
GetRetryDelivery(g) ==
    /\ g \in RetryPollers
    /\ pc[g] = "idle"
    /\ \E k \in due[g], o \in Reads :
          /\ Sql(o)
          /\ due' = [due EXCEPT ![g] = @ \ {k}]
          /\ IF o = "ok" /\ DeliveryExists(k[1])
             THEN /\ job' = [job EXCEPT ![g] =
                        [id |-> k[1], force |-> FALSE, script |-> FALSE,
                         acts |-> {k[2]}, prev |-> k,
                         payload |-> IF k[1] \in transformed
                                     THEN "transformed" ELSE "original"]]
                  /\ Goto(g, "action")
             ELSE UNCHANGED <<job, pc>>
    /\ ReadOnly
    /\ UNCHANGED <<work, key, res, receivers>>

(* The action is read whether or not it is still active.                    *)
GetAction(g) ==
    /\ pc[g] = "action"
    /\ \E o \in Reads :
          /\ Sql(o)
          /\ IF o = "ok" /\ ActionExists(job[g].prev[2])
             THEN /\ Keep(g, job[g].acts, job[g].payload)
                  /\ Loop(g, job'[g].acts)
                  /\ UNCHANGED <<key, res>>
             ELSE Return(g)
    /\ ReadOnly
    /\ UNCHANGED <<work, due, receivers>>

ClearRetry(g) ==
    /\ pc[g] = "clear"
    /\ \E o \in Writes :
          Sql(o) /\ UpdateAttempt(o, job[g].prev, "failed", FALSE)
    /\ Goto(g, "rollActions")
    /\ SqlOnly
    /\ UNCHANGED <<status, transformed, work, due, job, key, res, receivers>>

-----------------------------------------------------------------------------
(* rollUpDeliveryStatus                                                     *)
RollUpActions(g) ==
    /\ pc[g] = "rollActions"
    /\ LET d == job[g].id IN
       \E o \in Reads :
          /\ Sql(o)
          /\ IF o = "ok" /\ DeliveryExists(d)
             THEN /\ job' = [job EXCEPT ![g].acts =
                                            ListActiveBySource(SourceOf[d])]
                  /\ Goto(g, "rollAttempts")
                  /\ UNCHANGED <<key, res>>
             ELSE Return(g)
    /\ ReadOnly
    /\ UNCHANGED <<work, due, receivers>>

Delivered(d, a) == \E n \in Numbers : LatestIs(d, a, n, "success")
(* Mutant: a failed attempt is final.                                       *)
FailedOnce(d, a) == \E n \in Numbers : LatestIs(d, a, n, "failed")
(* Mutant: AttemptNumber == maxRetries.                                     *)
ExhaustedAtLast(d, a) ==
    \E n \in Numbers : LatestIs(d, a, n, "failed") /\ n = MaxRetries
Exhausted(d, a) ==
    \E n \in Numbers : LatestIs(d, a, n, "failed") /\ ~HasRetry(n)

RollUpAttempts(g) ==
    /\ pc[g] = "rollAttempts"
    /\ LET d == job[g].id
           acts == job[g].acts
           settled == \A a \in acts : Delivered(d, a) \/ Exhausted(d, a)
       IN \E o \in Reads :
             /\ Sql(o)
             /\ IF o = "ok" /\ settled
                THEN /\ Write(g, IF \E a \in acts : Exhausted(d, a)
                                 THEN "failed" ELSE "completed", "close")
                     /\ UNCHANGED <<job, key>>
                ELSE Return(g)
    /\ ReadOnly
    /\ UNCHANGED <<work, due, receivers>>

(* The UPDATE every path of processDelivery and the roll-up end with.       *)
WriteStatus(g) ==
    /\ pc[g] = "close"
    /\ \E o \in Writes : Sql(o) /\ UpdateStatus(o, job[g].id, res[g])
    /\ Return(g)
    /\ StatusOnly
    /\ UNCHANGED <<work, due, receivers>>

-----------------------------------------------------------------------------
(* A replica dies, or is shut down (its context is cancelled, so no further *)
(* statement of its goroutines succeeds), and is started again.  Starting   *)
(* creates the group if it is missing.                                      *)
CrashWorker(r) ==
    /\ crashes < MaxCrashes
    /\ crashes' = crashes + 1
    /\ LET up(g) == ReplicaOf[g] # r IN
       /\ pc' = [g \in Goroutines |-> IF up(g) THEN pc[g] ELSE "idle"]
       /\ work' = [g \in Fanouts |-> IF up(g) THEN work[g] ELSE {}]
       /\ due' = [g \in RetryPollers |-> IF up(g) THEN due[g] ELSE {}]
       /\ job' = [g \in Goroutines |-> IF up(g) THEN job[g] ELSE NoJob]
       /\ key' = [g \in Goroutines |-> IF up(g) THEN key[g] ELSE NoKey]
       /\ res' = [g \in Goroutines |-> IF up(g) THEN res[g] ELSE "none"]
    /\ group' = TRUE
    /\ UNCHANGED <<tables, stream, trimmed, dbFaults, redisFaults, receivers>>

WorkerInit ==
    /\ pc = [g \in Goroutines |-> "idle"]
    /\ work = [g \in Fanouts |-> {}]
    /\ due = [g \in RetryPollers |-> {}]
    /\ job = [g \in Goroutines |-> NoJob]
    /\ key = [g \in Goroutines |-> NoKey]
    /\ res = [g \in Goroutines |-> "none"]
    /\ crashes = 0
    /\ calls = [p \in Pairs |-> 0]
    /\ acked = {}
    /\ carried = [d \in Deliveries |-> {}]

Poll(g) == Receive(g) \/ ListPending(g) \/ ListRetryable(g)
ProcessDelivery(g) ==
    GetDelivery(g) \/ GetSource(g) \/ Claim(g) \/ ListActions(g) \/ StoreTransformed(g)
DispatchAction(g) == CreateAttempt(g) \/ Dispatch(g) \/ RecordResult(g)
RetryAttempt(g) == GetRetryDelivery(g) \/ GetAction(g) \/ ClearRetry(g)
RollUp(g) == RollUpActions(g) \/ RollUpAttempts(g) \/ WriteStatus(g)

Step(g) == \/ Poll(g) \/ ProcessDelivery(g) \/ DispatchAction(g)
           \/ RetryAttempt(g) \/ RollUp(g)

WorkerNext == \/ \E g \in Goroutines : Step(g)
              \/ \E r \in Replicas : CrashWorker(r)
=============================================================================
