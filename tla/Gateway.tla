------------------------------ MODULE Gateway ------------------------------
(***************************************************************************)
(* The gateway: the API server and the fan-out workers on one store, and   *)
(* the properties of the whole.                                            *)
(***************************************************************************)
EXTENDS FanoutWorker, ApiServer

CONSTANTS  \* the configuration the system starts from
    LiveSources,     \* sources that exist
    RecordSources,   \* sources in record mode
    ScriptedSources, \* sources with a script
    LiveActions,     \* actions that exist and are active
    SkippingActions  \* actions with a transform script

ASSUME ConfigurationAssumption ==
    /\ LiveSources \subseteq Sources
    /\ RecordSources \subseteq LiveSources
    /\ ScriptedSources \subseteq Sources
    /\ LiveActions \subseteq {a \in Actions : OwnerOf[a] \in LiveSources}
    /\ SkippingActions \subseteq Actions

vars == <<storeVars, workerVars, apiVars>>

Init ==
    /\ mode = [s \in Sources |-> IF s \notin LiveSources THEN "none"
                            ELSE IF s \in RecordSources THEN "record"
                                                        ELSE "active"]
    /\ scripted = [s \in Sources |-> s \in ScriptedSources]
    /\ action = [a \in Actions |-> IF a \in LiveActions THEN "active"
                                                        ELSE "none"]
    /\ transforms = SkippingActions
    /\ status = [d \in Deliveries |-> "none"]
    /\ transformed = {}
    /\ attempt = [k \in Keys |-> "none"]
    /\ scheduled = {}
    /\ stream = << >>
    /\ group = TRUE
    /\ trimmed = {}
    /\ dbFaults = 0
    /\ redisFaults = 0
    /\ WorkerInit
    /\ ApiInit

Next == \/ WorkerNext /\ UNCHANGED apiVars
        \/ ApiNext /\ UNCHANGED workerVars
        \/ RedisLosesData /\ UNCHANGED <<workerVars, apiVars>>

(* The Go scheduler runs every goroutine, and net/http every request.       *)
Fairness == /\ \A g \in Goroutines : WF_vars(Step(g) /\ UNCHANGED apiVars)
            /\ \A h \in Handlers : WF_vars(Handle(h) /\ UNCHANGED workerVars)

Spec == Init /\ [][Next]_vars
FairSpec == Spec /\ Fairness

(* Every variable has its type.                                             *)
TypeOK == StoreTypeOK /\ WorkerTypeOK /\ ApiTypeOK

-----------------------------------------------------------------------------
(* The attempt ladder: what keeps the receivers' contract although every    *)
(* goroutine of every replica may work on one delivery, and why the UNIQUE  *)
(* constraint of delivery_attempts is enough.                               *)

InFlight(g) == pc[g] \in {"send", "result"}
PairOf(k) == <<k[1], k[2]>>
(* The rows of this pair have been deleted and cannot come back.            *)
Gone(d, a) == action[a] = "deleted" \/ mode[SourceOf[d]] = "deleted"

(* Attempts point at rows that exist, and the deliveries of a deleted       *)
(* source are gone (the foreign keys and their cascades).                   *)
RowsExist ==
    /\ \A k \in Keys : attempt[k] # "none" => /\ DeliveryExists(k[1])
                                              /\ ActionExists(k[2])
    /\ \A d \in Deliveries : mode[SourceOf[d]] = "deleted" => status[d] = "none"

(* Attempts are numbered without gaps up to Top, all but the last failed.   *)
Rungs ==
    \A k \in Keys : attempt[k] # "none" =>
        /\ k[3] <= Top
        /\ \A m \in 1 .. (k[3] - 1) : attempt[<<k[1], k[2], m>>] = "failed"

(* Whatever holds a retry, the table or a poller's list or locals, holds a  *)
(* failed attempt that is not the last one allowed.                         *)
HeldRetries(g) == {k \in Keys : k \in due[g]
                                \/ (pc[g] # "idle" /\ job[g].prev = k)}
Retries ==
    /\ \A k \in scheduled : attempt[k] = "failed" /\ HasRetry(k[3])
    /\ \A g \in RetryPollers, k \in Keys : k \in HeldRetries(g) =>
          /\ HasRetry(k[3])
          /\ attempt[k] = "failed" \/ Gone(k[1], k[2])

(* A goroutine between creating an attempt and recording it is the only one *)
(* for that delivery and action; it holds the next number, and knows the    *)
(* receiver's answer once it has it.                                        *)
Flight(g) ==
    /\ attempt[key[g]] = "pending" \/ Gone(key[g][1], key[g][2])
    /\ key[g][3] <= Top
    /\ IF pc[g] = "send"
       THEN /\ calls[PairOf(key[g])] + 1 = key[g][3]
            /\ PairOf(key[g]) \notin acked
       ELSE /\ calls[PairOf(key[g])] = key[g][3]
            /\ (res[g] = "success") <=> (PairOf(key[g]) \in acked)
            /\ res[g] \in {"success", "failed"}
Flights == \A g \in Goroutines : InFlight(g) => Flight(g)
Exclusive ==
    \A g, h \in Goroutines :
        InFlight(g) /\ InFlight(h) /\ g # h => PairOf(key[g]) # PairOf(key[h])

(* The receivers' memory agrees with the table: a recorded attempt was      *)
(* called, the last call has a row, and a success is never followed.        *)
Calls ==
    /\ \A k \in Keys : attempt[k] \in {"success", "failed"} =>
          calls[PairOf(k)] >= k[3]
    /\ \A d \in Deliveries, a \in Actions :
          LET n == calls[<<d, a>>] IN
          /\ n <= Top
          /\ n > 0 /\ ~Gone(d, a) => attempt[<<d, a, n>>] # "none"
          /\ <<d, a>> \in acked => n > 0
          /\ <<d, a>> \in acked /\ ~Gone(d, a) => attempt[<<d, a, n>>] # "failed"

(* A retry poller works on the attempt it holds, a fan-out on none, and each*)
(* only runs the code of its own; what is written at the end is a status.   *)
Locals ==
    \A g \in Goroutines : pc[g] # "idle" =>
        /\ IF g \in RetryPollers
           THEN /\ pc[g] \notin {"source", "claim", "list", "store"}
                /\ job[g].prev \in Keys
                /\ job[g].id = job[g].prev[1]
                /\ pc[g] \in {"action", "dispatch", "send", "result"} =>
                      job[g].acts \subseteq {job[g].prev[2]}
           ELSE pc[g] \notin {"action", "clear"} /\ job[g].prev = NoKey
        /\ pc[g] = "close" => res[g] \in {"recorded"} \cup Terminal

Ladder == Locals /\ RowsExist /\ Rungs /\ Retries /\ Flights /\ Exclusive /\ Calls

-----------------------------------------------------------------------------
(* Properties                                                               *)

(* Two replicas that both took a delivery, a retry polled twice, a crash or *)
(* a lost answer between any two statements, a deletion: the receiver of an *)
(* action sees at most Top calls per delivery and none after its success.   *)
Contract == INSTANCE FanoutContract
ReceiverContract == Contract!Spec

(* The calls of one delivery to one action never overlap (dispatchAction).  *)
OneCallAtATime ==
    \A g, h \in Goroutines : pc[g] = "send" /\ pc[h] = "send" /\ g # h =>
        PairOf(key[g]) # PairOf(key[h])

(* The roll-up's verdict, made from two reads that other goroutines may     *)
(* have overtaken, is earned: completed only when every active action       *)
(* answered with success, failed only when one never did and has used up    *)
(* its calls, and every other one has done either.  (A source script may    *)
(* set the status by itself, and an edit may change the actions later.)     *)
Used(d, a) == calls[<<d, a>>] = Top
Earned(d, verdict) ==
    LET acts == ListActiveBySource(SourceOf[d])
        unserved == {a \in acts : <<d, a>> \notin acked}
    IN /\ \A a \in unserved : Used(d, a)
       /\ verdict = "completed" => unserved = {}
       /\ verdict = "failed" => unserved # {}
VerdictIsEarned ==
    edits = 0 => \A d \in Deliveries :
        ~scripted[SourceOf[d]] /\ status[d] \in Terminal => Earned(d, status[d])

(* A failed attempt with attempts left keeps its next_retry_at until the    *)
(* next attempt has been created, whichever replica crashes in between.     *)
Unretried == {k \in Keys : /\ attempt[k] = "failed" /\ HasRetry(k[3])
                          /\ attempt[<<k[1], k[2], k[3] + 1>>] = "none"}
NoRetryIsLost ==
    dbFaults = 0 /\ edits = 0 /\ transforms = {} => Unretried \subseteq scheduled

(* What is posted to a source in record mode reaches no action before the   *)
(* operator forwards it, although Ingest inserts it as pending and marks it *)
(* as recorded in a second statement that may never run.                    *)
RecordModeIsQuiet ==
    edits = 0 => \A d \in Deliveries, a \in Actions :
        mode[SourceOf[d]] = "record" /\ calls[<<d, a>>] > 0 => forwarded[d] > 0

(* Posting again with the same idempotency key, or from two connections at  *)
(* once, fans out once.                                                     *)
Rivals(d, e) == d # e /\ SourceOf[d] = SourceOf[e] /\ KeyOf[d] = KeyOf[e]
OneFanoutPerKey ==
    \A d, e \in Deliveries :
        Rivals(d, e) => \A a, b \in Actions : calls[<<d, a>>] = 0 \/ calls[<<e, b>>] = 0

-----------------------------------------------------------------------------
(* Liveness                                                                 *)

(* Whatever becomes of the stream (XADD fails, Redis loses its data), every *)
(* delivery is settled in the end and stays settled.                        *)
Settled(d) == status[d] \in Terminal \cup {"recorded", "none"}
EveryDeliverySettles == <>[](\A d \in Deliveries : Settled(d))

(* A pending delivery does not stay pending: after lost messages, errors of *)
(* statements and crashes the poll still takes it up.                       *)
PendingIsTakenUp ==
    \A d \in Deliveries : status[d] = "pending" ~> status[d] # "pending"

(* What the operator forwards is dispatched to every active action, though  *)
(* the pending poll may mark it as recorded again before the forced message *)
(* is read.  All hangs on that one message: a fault may lose it, or who has *)
(* read it, and later messages may push it out of the stream; the table     *)
(* does not tell.  A script or a transform may keep an action from it.      *)
Forced(d) == [id |-> d, force |-> TRUE]
Called(d) == \A a \in ListActiveBySource(SourceOf[d]) : calls[<<d, a>>] > 0
Faults == dbFaults + redisFaults + crashes + apiCrashes + edits
ForwardIsDispatched ==
    \A d \in Deliveries : forwarded[d] > 0 ~>
        \/ Called(d)
        \/ Faults > 0
        \/ Forced(d) \in trimmed
        \/ scripted[SourceOf[d]] \/ transforms # {}

(* A delivery in processing is attended: a goroutine holds it, or a retry   *)
(* of one of its attempts is scheduled or listed.  Nothing lists deliveries *)
(* in processing, so a crash or a failed statement may leave one alone, and *)
(* the roll-up waits for ever for an action that a script left out, that its*)
(* transform skipped or that was added later.                               *)
Calm == dbFaults = 0 /\ crashes = 0 /\ edits = 0 /\ transforms = {}
Attended(d) ==
    \/ \E g \in Goroutines : pc[g] # "idle" /\ job[g].id = d
    \/ \E k \in Keys : k[1] = d /\ k \in scheduled
    \/ \E g \in RetryPollers, k \in Keys : k[1] = d /\ k \in due[g]
ProcessingIsAttended ==
    Calm => \A d \in Deliveries :
        ~scripted[SourceOf[d]] /\ status[d] = "processing" => Attended(d)

-----------------------------------------------------------------------------
(* What the documentation says and the code does not do: each of these is   *)
(* violated by a run.                                                       *)

(* "All actions succeeded (or were skipped)": a delivery whose actions are  *)
(* skipped by their transforms, or left out by the source's script, leaves  *)
(* processing.                                                              *)
ProcessingEnds ==
    \A d \in Deliveries : status[d] = "processing" ~> status[d] # "processing"

(* "Stored in record mode, not dispatched": no action has been called for a *)
(* delivery that is recorded.                                               *)
RecordedIsNotDispatched ==
    \A d \in Deliveries, a \in Actions :
        status[d] = "recorded" => calls[<<d, a>>] = 0

(* "Completed only when every action succeeds or exhausts its retries": no  *)
(* retry of a completed delivery is scheduled.                              *)
CompletedIsFinal ==
    \A k \in scheduled : status[k[1]] # "completed"

(* "Clear retry schedule on the previous attempt now that we've retried it":*)
(* a failed attempt with attempts left keeps its retry until the next one   *)
(* exists, also when a statement fails.                                     *)
FailedIsRetried ==
    edits = 0 /\ transforms = {} => Unretried \subseteq scheduled
=============================================================================
