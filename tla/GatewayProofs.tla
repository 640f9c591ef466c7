---------------------------- MODULE GatewayProofs ----------------------------
(***************************************************************************)
(* Proofs about Gateway for all values of its constants: the variables     *)
(* have their types, the ladder of attempts is an invariant, and so the    *)
(* gateway keeps FanoutContract.                                           *)
(*                                                                         *)
(* IInv is inductive.  Most steps of a goroutine change only its own       *)
(* locals; LocalsType and QuietStep say once what such a step preserves.   *)
(***************************************************************************)
EXTENDS Gateway, TLAPS

USE DEF Labels, Results, Terminal

IInv == TypeOK /\ Ladder

(* A step of g that leaves it at label l with locals j, k and r.            *)
Moves(g, l, j, k, r) ==
    /\ pc' = [pc EXCEPT ![g] = l]
    /\ job' = [job EXCEPT ![g] = j]
    /\ key' = [key EXCEPT ![g] = k]
    /\ res' = [res EXCEPT ![g] = r]

LocalTypes ==
    /\ pc \in [Goroutines -> Labels]
    /\ job \in [Goroutines -> Jobs \cup {NoJob}]
    /\ \A g \in Goroutines : IF pc[g] = "idle" THEN job[g] = NoJob
                                               ELSE job[g] \in Jobs
    /\ key \in [Goroutines -> Keys \cup {NoKey}]
    /\ \A g \in Goroutines : pc[g] \in {"send", "result"} => key[g] \in Keys
    /\ res \in [Goroutines -> Results]

-----------------------------------------------------------------------------
(* Types                                                                    *)

(* A statement, failed or not, keeps the count of faults within its bound.  *)
LEMMA SqlType ==
    ASSUME dbFaults \in 0 .. MaxDbFaults, NEW o, Sql(o)
    PROVE  dbFaults' \in 0 .. MaxDbFaults
  BY BoundsAssumption DEF Sql

LEMMA RedisType ==
    ASSUME redisFaults \in 0 .. MaxRedisFaults, NEW o, Redis(o)
    PROVE  redisFaults' \in 0 .. MaxRedisFaults
  BY BoundsAssumption DEF Redis

(* A goroutine that moves to a label its locals are fit for keeps the types *)
(* of the locals.                                                           *)
LEMMA LocalsType ==
    ASSUME LocalTypes, NEW g \in Goroutines, NEW l \in Labels,
           NEW j \in Jobs \cup {NoJob}, NEW k \in Keys \cup {NoKey},
           NEW r \in Results, Moves(g, l, j, k, r),
           IF l = "idle" THEN j = NoJob ELSE j \in Jobs,
           l \in {"send", "result"} => k \in Keys
    PROVE  LocalTypes'
  BY DEF LocalTypes, Moves

(* UpdateStatus writes a status and makes or removes no row.                *)
LEMMA UpdateStatusType ==
    ASSUME status \in [Deliveries -> Statuses], NEW o, NEW d \in Deliveries,
           NEW st \in Statuses \ {"none"}, UpdateStatus(o, d, st)
    PROVE  /\ status' \in [Deliveries -> Statuses]
           /\ \A e \in Deliveries : status'[e] = "none" <=> status[e] = "none"
  BY DEF UpdateStatus, DeliveryExists, Statuses

-----------------------------------------------------------------------------
(* The ladder under steps that leave attempts alone                         *)

(* Nothing the ladder depends on is destroyed: rows stay, what is deleted   *)
(* stays deleted, attempts and calls are the same, no retry is scheduled.   *)
TablesStay ==
    /\ UNCHANGED <<attempt, calls, acked>>
    /\ scheduled' \subseteq scheduled
    /\ \A d \in Deliveries : status[d] # "none" => status'[d] # "none"
    /\ \A d \in Deliveries :
          status'[d] # "none" => status[d] # "none" \/ mode[SourceOf[d]] # "deleted"
    /\ \A s \in Sources : mode'[s] = "deleted" <=> mode[s] = "deleted"
    /\ \A a \in Actions : /\ action'[a] = "deleted" <=> action[a] = "deleted"
                          /\ ActionExists(a) => ActionExists(a)'

LEMMA TablesStayLadder ==
    ASSUME TypeOK, RowsExist, Rungs, Calls, TablesStay
    PROVE  /\ RowsExist' /\ Rungs' /\ Calls'
           /\ \A d \in Deliveries, a \in Actions : Gone(d, a)' <=> Gone(d, a)
<1>1. \A d \in Deliveries : SourceOf[d] \in Sources
  BY TablesAssumption
<1>2. \A d \in Deliveries, a \in Actions : Gone(d, a)' <=> Gone(d, a)
  BY <1>1 DEF TablesStay, Gone
<1>3. RowsExist'
  BY <1>1 DEF RowsExist, TablesStay, DeliveryExists, Keys
<1>4. Rungs'
  BY DEF Rungs, TablesStay
<1>5. Calls'
  BY <1>2 DEF Calls, TablesStay, PairOf
<1> QED BY <1>2, <1>3, <1>4, <1>5

(* A step of g that ends outside dispatchAction and holds no retry it did   *)
(* not hold before keeps the ladder.                                        *)
LEMMA QuietStep ==
    ASSUME IInv, TablesStay, NEW g \in Goroutines,
           NEW l \in Labels \ {"send", "result"}, NEW j, NEW k, NEW r,
           Moves(g, l, j, k, r),
           \A h \in RetryPollers : due'[h] \subseteq due[h],
           l # "idle" =>
             /\ IF g \in RetryPollers
                THEN /\ l \notin {"source", "claim", "list", "store"}
                     /\ j.prev \in HeldRetries(g)
                     /\ j.id = j.prev[1]
                     /\ l \in {"action", "dispatch"} => j.acts \subseteq {j.prev[2]}
                ELSE l \notin {"action", "clear"} /\ j.prev = NoKey
             /\ l = "close" => r \in {"recorded"} \cup Terminal
    PROVE  Ladder'
<1> USE DEF IInv, Ladder, TypeOK
<1>t. LocalTypes
  BY DEF WorkerTypeOK, LocalTypes
<1>1. /\ RowsExist' /\ Rungs' /\ Calls'
      /\ \A d \in Deliveries, a \in Actions : Gone(d, a)' <=> Gone(d, a)
  BY TablesStayLadder
<1>2. \A h \in Goroutines : h # g => /\ pc'[h] = pc[h] /\ job'[h] = job[h]
                                     /\ key'[h] = key[h] /\ res'[h] = res[h]
  BY <1>t DEF Moves, LocalTypes
<1>3. pc'[g] = l /\ job'[g] = j /\ key'[g] = k /\ res'[g] = r
  BY <1>t DEF Moves, LocalTypes
<1>4. Locals'
  BY <1>2, <1>3 DEF Locals, HeldRetries
<1>5. Retries'
  <2>1. \A h \in RetryPollers, x \in Keys :
            x \in HeldRetries(h)' => x \in HeldRetries(h)
    <3> SUFFICES ASSUME NEW h \in RetryPollers, NEW x \in Keys,
                        x \in HeldRetries(h)'
                 PROVE  x \in HeldRetries(h)
      OBVIOUS
    <3>1. CASE x \in due'[h]
      BY <3>1 DEF HeldRetries
    <3>2. CASE pc'[h] # "idle" /\ job'[h].prev = x /\ h = g
      BY <3>2, <1>3
    <3>3. CASE pc'[h] # "idle" /\ job'[h].prev = x /\ h # g
      BY <3>3, <1>2 DEF HeldRetries, Goroutines
    <3> QED BY <3>1, <3>2, <3>3 DEF HeldRetries
  <2> QED BY <2>1, <1>1 DEF Retries, TablesStay, Keys
<1>6. Flights'
  BY <1>1, <1>2, <1>3, <1>t DEF Flights, Flight, InFlight, TablesStay, LocalTypes, Keys, PairOf
<1>7. Exclusive'
  BY <1>2, <1>3 DEF Exclusive, InFlight, PairOf
<1> QED BY <1>1, <1>4, <1>5, <1>6, <1>7

-----------------------------------------------------------------------------
(* Steps outside dispatchAction                                             *)

(* What g may hold at label l.                                              *)
Fit(g, l, j, k, r) ==
    /\ l \in Labels \ {"send", "result"}
    /\ k \in Keys \cup {NoKey}
    /\ r \in Results
    /\ l = "idle" => j = NoJob
    /\ l # "idle" => j \in Jobs
    /\ l # "idle" /\ g \in RetryPollers =>
          /\ l \notin {"source", "claim", "list", "store"}
          /\ j.prev \in HeldRetries(g)
          /\ j.id = j.prev[1]
          /\ l \in {"action", "dispatch"} => j.acts \subseteq {j.prev[2]}
    /\ l # "idle" /\ g \notin RetryPollers =>
          l \notin {"action", "clear"} /\ j.prev = NoKey
    /\ l = "close" => r \in {"recorded"} \cup Terminal

LEMMA StepInv ==
    ASSUME IInv, TablesStay, StoreTypeOK', UNCHANGED <<crashes, carried>>,
           UNCHANGED apiVars, NEW g \in Goroutines,
           NEW l, NEW j, NEW k, NEW r, Moves(g, l, j, k, r), Fit(g, l, j, k, r),
           work' \in [Fanouts -> SUBSET Messages],
           due' \in [RetryPollers -> SUBSET Keys],
           \A h \in RetryPollers : due'[h] \subseteq due[h]
    PROVE  IInv'
<1>1. LocalTypes'
  <2>1. LocalTypes
    BY DEF IInv, TypeOK, WorkerTypeOK, LocalTypes
  <2> QED BY <2>1, LocalsType DEF Fit
<1>2. WorkerTypeOK'
  BY <1>1 DEF IInv, TypeOK, WorkerTypeOK, LocalTypes, TablesStay
<1>3. ApiTypeOK'
  BY DEF IInv, TypeOK, ApiTypeOK, apiVars
<1>4. Ladder'
  BY QuietStep DEF Fit
<1> QED BY <1>2, <1>3, <1>4 DEF IInv, TypeOK

(* What a goroutine that is not idle holds is fit for its code.             *)
LEMMA Holding ==
    ASSUME IInv, NEW g \in Goroutines
    PROVE  /\ pc[g] \in Labels /\ res[g] \in Results
           /\ key[g] \in Keys \cup {NoKey}
           /\ pc' \in [Goroutines -> Labels] => pc'[g] \in Labels
           /\ pc \in [Goroutines -> Labels]
           /\ job = [job EXCEPT ![g] = job[g]]
           /\ key = [key EXCEPT ![g] = key[g]]
           /\ res = [res EXCEPT ![g] = res[g]]
           /\ pc[g] # "idle" =>
                /\ job[g] \in Jobs
                /\ SourceOf[job[g].id] \in Sources
                /\ g \in RetryPollers => /\ job[g].prev \in HeldRetries(g)
                                         /\ job[g].id = job[g].prev[1]
                                         /\ job[g].prev \in Keys
                /\ g \notin RetryPollers => job[g].prev = NoKey
<1> USE DEF IInv, TypeOK, WorkerTypeOK
<1>1. pc[g] # "idle" => job[g] \in Jobs
  OBVIOUS
<1>2. pc[g] # "idle" => SourceOf[job[g].id] \in Sources
  BY <1>1, TablesAssumption DEF Jobs
<1>3. pc[g] # "idle" => /\ g \in RetryPollers => /\ job[g].prev \in HeldRetries(g)
                                                 /\ job[g].id = job[g].prev[1]
                                                 /\ job[g].prev \in Keys
                        /\ g \notin RetryPollers => job[g].prev = NoKey
  BY DEF Ladder, Locals, HeldRetries
<1> QED BY <1>1, <1>2, <1>3

(* A statement that reads.                                                  *)
LEMMA ReadTables ==
    ASSUME IInv, ReadOnly, UNCHANGED receivers, NEW o, Sql(o)
    PROVE  /\ TablesStay /\ StoreTypeOK' /\ UNCHANGED <<crashes, carried>>
<1>1. dbFaults' \in 0 .. MaxDbFaults
  BY SqlType DEF IInv, TypeOK, StoreTypeOK
<1>2. StoreTypeOK'
  BY <1>1 DEF IInv, TypeOK, StoreTypeOK, ReadOnly, StatusOnly, SqlOnly, redis
<1>3. TablesStay
  BY DEF TablesStay, ReadOnly, StatusOnly, SqlOnly, receivers, ActionExists
<1> QED BY <1>2, <1>3 DEF ReadOnly, StatusOnly, SqlOnly, receivers

(* Returning is always fit.                                                 *)
LEMMA ReturnMoves ==
    ASSUME NEW g \in Goroutines, Return(g)
    PROVE  Moves(g, "idle", NoJob, NoKey, "none") /\ Fit(g, "idle", NoJob, NoKey, "none")
  BY DEF Return, Moves, Fit

LEMMA GetSourceInv ==
    ASSUME IInv, NEW g \in Goroutines, GetSource(g), UNCHANGED apiVars
    PROVE  IInv'
<1> DEFINE s == SourceOf[job[g].id]
           claimed == [job[g] EXCEPT !.script = scripted[s]]
<1>t. TablesStay /\ StoreTypeOK' /\ UNCHANGED <<crashes, carried>>
  BY ReadTables DEF GetSource
<1>w. UNCHANGED <<work, due>> /\ IInv
  BY DEF GetSource
<1>h. /\ pc[g] = "source" /\ job[g] \in Jobs /\ s \in Sources
      /\ g \notin RetryPollers /\ job[g].prev = NoKey
  BY Holding DEF GetSource, IInv, Ladder, Locals
<1>j. claimed \in Jobs /\ claimed.prev = NoKey
  <2>1. scripted[s] \in BOOLEAN
    BY <1>h DEF IInv, TypeOK, StoreTypeOK
  <2> QED BY <2>1, <1>h DEF Jobs
<1>1. CASE Return(g)
  BY <1>1, <1>t, <1>w, ReturnMoves, StepInv DEF IInv, TypeOK, WorkerTypeOK
<1>2. CASE Write(g, "recorded", "close") /\ UNCHANGED <<job, key>>
  <2>1. Moves(g, "close", job[g], key[g], "recorded")
    BY <1>2, Holding DEF Moves, Write, Goto
  <2>2. Fit(g, "close", job[g], key[g], "recorded")
    BY <1>h, Holding DEF Fit
  <2> QED BY <2>1, <2>2, <1>t, <1>w, StepInv DEF IInv, TypeOK, WorkerTypeOK
<1>3. CASE /\ Goto(g, "claim") /\ UNCHANGED <<key, res>>
           /\ job' = [job EXCEPT ![g].script = scripted[s]]
  <2>1. Moves(g, "claim", claimed, key[g], res[g])
    BY <1>3, Holding DEF Moves, Goto
  <2>2. Fit(g, "claim", claimed, key[g], res[g])
    BY <1>h, <1>j, Holding DEF Fit
  <2> QED BY <2>1, <2>2, <1>t, <1>w, StepInv DEF IInv, TypeOK, WorkerTypeOK
<1> QED BY <1>1, <1>2, <1>3 DEF GetSource

LEMMA GetDeliveryInv ==
    ASSUME IInv, NEW g \in Goroutines, GetDelivery(g), UNCHANGED apiVars
    PROVE  IInv'
<1>t. TablesStay /\ StoreTypeOK' /\ UNCHANGED <<crashes, carried>>
  BY ReadTables DEF GetDelivery
<1>1. PICK m \in work[g] :
         /\ work' = [work EXCEPT ![g] = @ \ {m}]
         /\ \/ UNCHANGED <<job, pc>>
            \/ /\ job' = [job EXCEPT ![g] =
                     [id |-> m.id, force |-> m.force, script |-> FALSE,
                      acts |-> {}, payload |-> "original", prev |-> NoKey]]
               /\ Goto(g, "source")
  BY DEF GetDelivery
<1>w. /\ work' \in [Fanouts -> SUBSET Messages] /\ UNCHANGED due
      /\ m \in Messages /\ g \in Fanouts /\ g \notin RetryPollers
      /\ due \in [RetryPollers -> SUBSET Keys] /\ pc[g] = "idle"
      /\ UNCHANGED <<key, res>>
  BY <1>1, GoroutinesAssumption DEF GetDelivery, IInv, TypeOK, WorkerTypeOK
<1>2. CASE UNCHANGED <<job, pc>>
  <2>1. Moves(g, "idle", job[g], key[g], res[g])
    BY <1>2, <1>w, Holding DEF Moves, IInv, TypeOK, WorkerTypeOK
  <2>2. Fit(g, "idle", job[g], key[g], res[g])
    BY <1>w, Holding DEF Fit, IInv, TypeOK, WorkerTypeOK
  <2> QED BY <2>1, <2>2, <1>t, <1>w, StepInv
<1>3. CASE /\ job' = [job EXCEPT ![g] =
                     [id |-> m.id, force |-> m.force, script |-> FALSE,
                      acts |-> {}, payload |-> "original", prev |-> NoKey]]
           /\ Goto(g, "source")
  <2> DEFINE j == [id |-> m.id, force |-> m.force, script |-> FALSE,
                   acts |-> {}, payload |-> "original", prev |-> NoKey]
  <2>1. Moves(g, "source", j, key[g], res[g])
    BY <1>3, <1>w, Holding DEF Moves, Goto
  <2>2. j \in Jobs /\ j.prev = NoKey
    BY <1>w DEF Jobs, Messages, Payloads
  <2>3. Fit(g, "source", j, key[g], res[g])
    BY <2>2, <1>w, Holding DEF Fit
  <2> HIDE DEF j
  <2> QED BY <2>1, <2>3, <1>t, <1>w, StepInv
<1> QED BY <1>1, <1>2, <1>3

(* A statement that writes a delivery's status.                             *)
LEMMA StatusTables ==
    ASSUME IInv, StatusOnly, UNCHANGED receivers, NEW o, Sql(o),
           NEW d \in Deliveries, NEW st \in Statuses \ {"none"},
           UpdateStatus(o, d, st)
    PROVE  /\ TablesStay /\ StoreTypeOK' /\ UNCHANGED <<crashes, carried>>
<1>1. dbFaults' \in 0 .. MaxDbFaults
  BY SqlType DEF IInv, TypeOK, StoreTypeOK
<1>2. /\ status' \in [Deliveries -> Statuses]
      /\ \A e \in Deliveries : status'[e] = "none" <=> status[e] = "none"
  BY UpdateStatusType DEF IInv, TypeOK, StoreTypeOK
<1>3. StoreTypeOK'
  BY <1>1, <1>2 DEF IInv, TypeOK, StoreTypeOK, StatusOnly, SqlOnly, redis
<1>4. TablesStay
  BY <1>2 DEF TablesStay, StatusOnly, SqlOnly, receivers, ActionExists
<1> QED BY <1>3, <1>4 DEF StatusOnly, SqlOnly, receivers

LEMMA ClaimInv ==
    ASSUME IInv, NEW g \in Goroutines, Claim(g), UNCHANGED apiVars
    PROVE  IInv'
<1>h. /\ pc[g] = "claim" /\ job[g] \in Jobs /\ job[g].id \in Deliveries
      /\ g \notin RetryPollers /\ job[g].prev = NoKey
  BY Holding DEF Claim, IInv, Ladder, Locals, Jobs
<1>t. TablesStay /\ StoreTypeOK' /\ UNCHANGED <<crashes, carried>>
  BY <1>h, StatusTables DEF Claim, Statuses
<1>w. UNCHANGED <<work, due>> /\ IInv
  BY DEF Claim
<1>1. CASE Return(g)
  BY <1>1, <1>t, <1>w, ReturnMoves, StepInv DEF IInv, TypeOK, WorkerTypeOK
<1>2. CASE Goto(g, "list") /\ UNCHANGED <<job, key, res>>
  <2>1. Moves(g, "list", job[g], key[g], res[g])
    BY <1>2, Holding DEF Moves, Goto
  <2>2. Fit(g, "list", job[g], key[g], res[g])
    BY <1>h, Holding DEF Fit
  <2> QED BY <2>1, <2>2, <1>t, <1>w, StepInv DEF IInv, TypeOK, WorkerTypeOK
<1> QED BY <1>1, <1>2 DEF Claim

LEMMA WriteStatusInv ==
    ASSUME IInv, NEW g \in Goroutines, WriteStatus(g), UNCHANGED apiVars
    PROVE  IInv'
<1>h. job[g].id \in Deliveries /\ res[g] \in {"recorded"} \cup Terminal
  BY Holding DEF WriteStatus, IInv, Ladder, Locals, Jobs
<1>t. TablesStay /\ StoreTypeOK' /\ UNCHANGED <<crashes, carried>>
  BY <1>h, StatusTables DEF WriteStatus, Statuses
<1> QED
  BY <1>t, ReturnMoves, StepInv DEF WriteStatus, IInv, TypeOK, WorkerTypeOK

LEMMA RollUpActionsInv ==
    ASSUME IInv, NEW g \in Goroutines, RollUpActions(g), UNCHANGED apiVars
    PROVE  IInv'
<1> DEFINE listed == [job[g] EXCEPT !.acts =
                                 ListActiveBySource(SourceOf[job[g].id])]
<1>t. TablesStay /\ StoreTypeOK' /\ UNCHANGED <<crashes, carried>>
  BY ReadTables DEF RollUpActions
<1>w. UNCHANGED <<work, due>> /\ IInv
  BY DEF RollUpActions
<1>h. /\ pc[g] = "rollActions" /\ job[g] \in Jobs
      /\ listed \in Jobs /\ listed.prev = job[g].prev /\ listed.id = job[g].id
  BY Holding DEF RollUpActions, Jobs, ListActiveBySource
<1>1. CASE Return(g)
  BY <1>1, <1>t, <1>w, ReturnMoves, StepInv DEF IInv, TypeOK, WorkerTypeOK
<1>2. CASE Goto(g, "rollAttempts") /\ job' = [job EXCEPT ![g] = listed]
           /\ UNCHANGED <<key, res>>
  <2>1. Moves(g, "rollAttempts", listed, key[g], res[g])
    BY <1>2, Holding DEF Moves, Goto
  <2>2. Fit(g, "rollAttempts", listed, key[g], res[g])
    BY <1>h, Holding DEF Fit
  <2> QED BY <2>1, <2>2, <1>t, <1>w, StepInv DEF IInv, TypeOK, WorkerTypeOK
<1> QED BY <1>1, <1>2 DEF RollUpActions

LEMMA RollUpAttemptsInv ==
    ASSUME IInv, NEW g \in Goroutines, RollUpAttempts(g), UNCHANGED apiVars
    PROVE  IInv'
<1>t. TablesStay /\ StoreTypeOK' /\ UNCHANGED <<crashes, carried>>
  BY ReadTables DEF RollUpAttempts
<1>w. UNCHANGED <<work, due>> /\ pc[g] = "rollAttempts"
  BY DEF RollUpAttempts
<1>1. CASE Return(g)
  BY <1>1, <1>t, <1>w, ReturnMoves, StepInv DEF IInv, TypeOK, WorkerTypeOK
<1>2. ASSUME NEW v \in Terminal, Write(g, v, "close"), UNCHANGED <<job, key>>
      PROVE  IInv'
  <2>1. Moves(g, "close", job[g], key[g], v)
    BY <1>2, Holding DEF Moves, Write, Goto
  <2>2. Fit(g, "close", job[g], key[g], v)
    BY <1>w, <1>2, Holding DEF Fit
  <2> QED BY <2>1, <2>2, <1>t, <1>w, StepInv DEF IInv, TypeOK, WorkerTypeOK
<1> QED BY <1>1, <1>2 DEF RollUpAttempts

(* The loop starts, or ends at once, with the actions left by the scripts.  *)
LEMMA LoopLabel ==
    ASSUME NEW g \in Goroutines, NEW acts, Loop(g, acts)
    PROVE  \E l \in {"dispatch", "clear", "rollActions"} :
              /\ pc' = [pc EXCEPT ![g] = l]
              /\ l = "clear" => g \in RetryPollers
  BY DEF Loop, Goto

LEMMA ListActionsInv ==
    ASSUME IInv, NEW g \in Goroutines, ListActions(g), UNCHANGED apiVars
    PROVE  IInv'
<1> DEFINE listed == ListActiveBySource(SourceOf[job[g].id])
           Kept(acts, p) == [job[g] EXCEPT !.acts = acts, !.payload = p]
<1>t. TablesStay /\ StoreTypeOK' /\ UNCHANGED <<crashes, carried>>
  BY ReadTables DEF ListActions
<1>w. /\ work' \in [Fanouts -> SUBSET Messages]
      /\ due' \in [RetryPollers -> SUBSET Keys] /\ UNCHANGED due
  BY DEF ListActions, IInv, TypeOK, WorkerTypeOK
<1>h. /\ pc[g] = "list" /\ job[g] \in Jobs
      /\ g \notin RetryPollers /\ job[g].prev = NoKey
  BY Holding DEF ListActions, IInv, Ladder, Locals
<1>k. \A acts \in SUBSET Actions, p \in Payloads :
          Kept(acts, p) \in Jobs /\ Kept(acts, p).prev = NoKey
  BY <1>h DEF Jobs
<1>1. CASE Return(g)
  BY <1>1, <1>t, <1>w, ReturnMoves, StepInv
<1>2. ASSUME NEW v \in Terminal, Write(g, v, "close"), UNCHANGED <<job, key>>
      PROVE  IInv'
  <2>1. Moves(g, "close", job[g], key[g], v)
    BY <1>2, Holding DEF Moves, Write, Goto
  <2>2. Fit(g, "close", job[g], key[g], v)
    BY <1>h, <1>2, Holding DEF Fit
  <2> QED BY <2>1, <2>2, <1>t, <1>w, StepInv
<1>3. CASE Keep(g, listed, "original") /\ Loop(g, job'[g].acts)
           /\ UNCHANGED <<key, res>>
  <2>0. PICK skipped \in SUBSET (listed \cap transforms) :
            job' = [job EXCEPT ![g].acts = listed \ skipped,
                               ![g].payload = "original"]
    BY <1>3, Zenon DEF Keep
  <2> DEFINE acts == listed \ skipped
  <2>1. job' = [job EXCEPT ![g] = Kept(acts, "original")]
    BY <2>0
  <2>2. PICK l \in {"dispatch", "clear", "rollActions"} :
            pc' = [pc EXCEPT ![g] = l] /\ (l = "clear" => g \in RetryPollers)
    BY <1>3, LoopLabel
  <2> DEFINE j == Kept(acts, "original")
  <2>3. j \in Jobs /\ j.prev = NoKey
    BY <1>k DEF Payloads, ListActiveBySource
  <2> HIDE DEF j, Kept
  <2>4. Moves(g, l, j, key[g], res[g])
    BY <1>3, <2>1, <2>2, Holding DEF Moves, j
  <2>5. Fit(g, l, j, key[g], res[g])
    BY <1>h, <2>2, <2>3, Holding DEF Fit
  <2> QED BY <2>4, <2>5, <1>t, <1>w, StepInv
<1>4. ASSUME NEW kept \in SUBSET listed, Keep(g, kept, "transformed"),
             Write(g, IF kept = {} THEN "completed" ELSE "none", "store"),
             UNCHANGED key
      PROVE  IInv'
  <2>0. PICK skipped \in SUBSET (kept \cap transforms) :
            job' = [job EXCEPT ![g].acts = kept \ skipped,
                               ![g].payload = "transformed"]
    BY <1>4, Zenon DEF Keep
  <2> DEFINE acts == kept \ skipped
  <2>1. job' = [job EXCEPT ![g] = Kept(acts, "transformed")]
    BY <2>0
  <2>2. PICK r \in Results : Write(g, r, "store")
    BY <1>4
  <2> DEFINE j == Kept(acts, "transformed")
  <2>3. j \in Jobs /\ j.prev = NoKey
    BY <1>k DEF Payloads, ListActiveBySource
  <2> HIDE DEF j, Kept
  <2>4. Moves(g, "store", j, key[g], r)
    BY <1>4, <2>1, <2>2, Holding DEF Moves, Write, Goto, j
  <2>5. Fit(g, "store", j, key[g], r)
    BY <1>h, <2>2, <2>3, Holding DEF Fit
  <2> QED BY <2>4, <2>5, <1>t, <1>w, StepInv
<1> QED BY <1>1, <1>2, <1>3, <1>4 DEF ListActions

LEMMA StoreTransformedInv ==
    ASSUME IInv, NEW g \in Goroutines, StoreTransformed(g), UNCHANGED apiVars
    PROVE  IInv'
<1>h. /\ pc[g] = "store" /\ job[g] \in Jobs /\ job[g].id \in Deliveries
      /\ g \notin RetryPollers /\ job[g].prev = NoKey
  BY Holding DEF StoreTransformed, IInv, Ladder, Locals, Jobs
<1>w. /\ work' \in [Fanouts -> SUBSET Messages]
      /\ due' \in [RetryPollers -> SUBSET Keys] /\ UNCHANGED due
  BY DEF StoreTransformed, IInv, TypeOK, WorkerTypeOK
<1>t. TablesStay /\ StoreTypeOK' /\ UNCHANGED <<crashes, carried>>
  <2>1. dbFaults' \in 0 .. MaxDbFaults
    BY SqlType DEF StoreTransformed, IInv, TypeOK, StoreTypeOK
  <2>2. transformed' \in SUBSET Deliveries
    BY <1>h DEF StoreTransformed, SetTransformed, IInv, TypeOK, StoreTypeOK
  <2>3. StoreTypeOK'
    BY <2>1, <2>2 DEF IInv, TypeOK, StoreTypeOK, StoreTransformed, SqlOnly, redis
  <2>4. TablesStay
    BY DEF TablesStay, StoreTransformed, SqlOnly, receivers, ActionExists
  <2> QED BY <2>3, <2>4 DEF StoreTransformed, SqlOnly, receivers
<1>1. PICK l \in {"close", "dispatch", "rollActions"} :
          /\ pc' = [pc EXCEPT ![g] = l]
          /\ l = "close" => res[g] = "completed"
  BY <1>h, LoopLabel DEF StoreTransformed, Goto
<1>2. Moves(g, l, job[g], key[g], res[g])
  BY <1>1, Holding DEF Moves, StoreTransformed
<1>3. Fit(g, l, job[g], key[g], res[g])
  BY <1>1, <1>h, Holding DEF Fit
<1> QED BY <1>2, <1>3, <1>t, <1>w, StepInv

-----------------------------------------------------------------------------
(* The steps of retryAttempt that read                                      *)

LEMMA GetRetryDeliveryInv ==
    ASSUME IInv, NEW g \in Goroutines, GetRetryDelivery(g), UNCHANGED apiVars
    PROVE  IInv'
<1>t. TablesStay /\ StoreTypeOK' /\ UNCHANGED <<crashes, carried>>
  BY ReadTables DEF GetRetryDelivery
<1>1. PICK k \in due[g] :
         /\ due' = [due EXCEPT ![g] = @ \ {k}]
         /\ \/ UNCHANGED <<job, pc>>
            \/ /\ job' = [job EXCEPT ![g] =
                     [id |-> k[1], force |-> FALSE, script |-> FALSE,
                      acts |-> {k[2]}, prev |-> k,
                      payload |-> IF k[1] \in transformed
                                  THEN "transformed" ELSE "original"]]
               /\ Goto(g, "action")
  BY DEF GetRetryDelivery
<1>w. /\ work' \in [Fanouts -> SUBSET Messages]
      /\ due' \in [RetryPollers -> SUBSET Keys]
      /\ \A h \in RetryPollers : due'[h] \subseteq due[h]
      /\ k \in Keys /\ g \in RetryPollers /\ pc[g] = "idle"
      /\ k \in HeldRetries(g)
      /\ UNCHANGED <<key, res>>
  BY <1>1 DEF GetRetryDelivery, IInv, TypeOK, WorkerTypeOK, HeldRetries
<1>2. CASE UNCHANGED <<job, pc>>
  <2>1. Moves(g, "idle", job[g], key[g], res[g])
    BY <1>2, <1>w, Holding DEF Moves, IInv, TypeOK, WorkerTypeOK
  <2>2. Fit(g, "idle", job[g], key[g], res[g])
    BY <1>w, Holding DEF Fit, IInv, TypeOK, WorkerTypeOK
  <2> QED BY <2>1, <2>2, <1>t, <1>w, StepInv
<1> DEFINE j == [id |-> k[1], force |-> FALSE, script |-> FALSE,
                 acts |-> {k[2]}, prev |-> k,
                 payload |-> IF k[1] \in transformed
                             THEN "transformed" ELSE "original"]
<1>3. CASE job' = [job EXCEPT ![g] = j] /\ Goto(g, "action")
  <2>1. Moves(g, "action", j, key[g], res[g])
    BY <1>3, <1>w, Holding DEF Moves, Goto
  <2>2. j \in Jobs /\ j.prev = k /\ j.id = k[1] /\ j.acts = {k[2]}
    BY <1>w DEF Jobs, Keys, Payloads
  <2>3. Fit(g, "action", j, key[g], res[g])
    BY <2>2, <1>w, Holding DEF Fit
  <2> HIDE DEF j
  <2> QED BY <2>1, <2>3, <1>t, <1>w, StepInv
<1> QED BY <1>1, <1>2, <1>3

LEMMA GetActionInv ==
    ASSUME IInv, NEW g \in Goroutines, GetAction(g), UNCHANGED apiVars
    PROVE  IInv'
<1>t. TablesStay /\ StoreTypeOK' /\ UNCHANGED <<crashes, carried>>
  BY ReadTables DEF GetAction
<1>w. /\ work' \in [Fanouts -> SUBSET Messages]
      /\ due' \in [RetryPollers -> SUBSET Keys] /\ UNCHANGED due
  BY DEF GetAction, IInv, TypeOK, WorkerTypeOK
<1>h. /\ pc[g] = "action" /\ job[g] \in Jobs /\ g \in RetryPollers
      /\ job[g].acts \subseteq {job[g].prev[2]}
  BY Holding DEF GetAction, IInv, Ladder, Locals
<1>1. CASE Return(g)
  BY <1>1, <1>t, <1>w, ReturnMoves, StepInv
<1>2. CASE Keep(g, job[g].acts, job[g].payload) /\ Loop(g, job'[g].acts)
           /\ UNCHANGED <<key, res>>
  <2> DEFINE Left(acts) == [job[g] EXCEPT !.acts = acts, !.payload = job[g].payload]
  <2>0. PICK skipped \in SUBSET (job[g].acts \cap transforms) :
            job' = [job EXCEPT ![g].acts = job[g].acts \ skipped,
                               ![g].payload = job[g].payload]
    BY <1>2, Zenon DEF Keep
  <2> DEFINE acts == job[g].acts \ skipped
  <2>1. job' = [job EXCEPT ![g] = Left(acts)]
    BY <2>0
  <2> DEFINE j == Left(acts)
  <2>2. /\ j \in Jobs /\ j.prev = job[g].prev /\ j.id = job[g].id
        /\ j.acts \subseteq {job[g].prev[2]}
    BY <1>h DEF Jobs
  <2>3. PICK l \in {"dispatch", "clear", "rollActions"} : pc' = [pc EXCEPT ![g] = l]
    BY <1>2, LoopLabel
  <2> HIDE DEF j
  <2>4. Moves(g, l, j, key[g], res[g])
    BY <1>2, <2>1, <2>3, Holding DEF Moves, j
  <2>5. Fit(g, l, j, key[g], res[g])
    BY <1>h, <2>2, <2>3, Holding DEF Fit
  <2> QED BY <2>4, <2>5, <1>t, <1>w, StepInv
<1> QED BY <1>1, <1>2 DEF GetAction

-----------------------------------------------------------------------------
(* Reading work                                                             *)

LEMMA ReceiveInv ==
    ASSUME IInv, NEW g \in Goroutines, Receive(g), UNCHANGED apiVars
    PROVE  IInv'
<1>1. /\ stream \in Seq(Messages) /\ stream # << >>
      /\ stream' = Tail(stream) /\ g \in Consumers /\ g \in Fanouts
      /\ g \notin RetryPollers /\ pc[g] = "idle"
  BY GoroutinesAssumption DEF Receive, Fanouts, IInv, TypeOK, StoreTypeOK
<1>2. stream' \in Seq(Messages) /\ Head(stream) \in Messages
  BY <1>1
<1>3. redisFaults' \in 0 .. MaxRedisFaults
  BY RedisType DEF Receive, IInv, TypeOK, StoreTypeOK
<1>4. StoreTypeOK'
  BY <1>2, <1>3 DEF Receive, tables, IInv, TypeOK, StoreTypeOK
<1>5. TablesStay
  BY DEF TablesStay, Receive, tables, receivers, ActionExists
<1>6. /\ work' \in [Fanouts -> SUBSET Messages]
      /\ due' \in [RetryPollers -> SUBSET Keys]
      /\ UNCHANGED <<due, pc, job, key, res, crashes, carried>>
  BY <1>1, <1>2 DEF Receive, receivers, IInv, TypeOK, WorkerTypeOK
<1>7. Moves(g, "idle", job[g], key[g], res[g])
  BY <1>1, <1>6, Holding DEF Moves, IInv, TypeOK, WorkerTypeOK
<1>8. Fit(g, "idle", job[g], key[g], res[g])
  BY <1>1, Holding DEF Fit, IInv, TypeOK, WorkerTypeOK
<1> QED BY <1>4, <1>5, <1>6, <1>7, <1>8, StepInv

LEMMA ListPendingInv ==
    ASSUME IInv, NEW g \in Goroutines, ListPending(g), UNCHANGED apiVars
    PROVE  IInv'
<1>1. g \in PendingPollers /\ g \in Fanouts /\ g \notin RetryPollers /\ pc[g] = "idle"
  BY GoroutinesAssumption DEF ListPending, Fanouts
<1>4. StoreTypeOK'
  BY DEF ListPending, storeVars, tables, redis, IInv, TypeOK, StoreTypeOK
<1>5. TablesStay
  BY DEF TablesStay, ListPending, storeVars, tables, receivers, ActionExists
<1>6. /\ work' \in [Fanouts -> SUBSET Messages]
      /\ due' \in [RetryPollers -> SUBSET Keys]
      /\ UNCHANGED <<due, pc, job, key, res, crashes, carried>>
  <2>1. PICK batch \in SUBSET Pending :
            work' = [work EXCEPT ![g] = [id : batch, force : {FALSE}]]
    BY DEF ListPending
  <2>2. [id : batch, force : {FALSE}] \in SUBSET Messages
    BY DEF Pending, Messages
  <2> QED
    BY <1>1, <2>1, <2>2 DEF ListPending, receivers, IInv, TypeOK, WorkerTypeOK
<1>7. Moves(g, "idle", job[g], key[g], res[g])
  BY <1>1, <1>6, Holding DEF Moves, IInv, TypeOK, WorkerTypeOK
<1>8. Fit(g, "idle", job[g], key[g], res[g])
  BY <1>1, Holding DEF Fit, IInv, TypeOK, WorkerTypeOK
<1> QED BY <1>4, <1>5, <1>6, <1>7, <1>8, StepInv

(* What a retry poller lists is in the table, so it is a retry.             *)
LEMMA ListRetryableInv ==
    ASSUME IInv, NEW g \in Goroutines, ListRetryable(g), UNCHANGED apiVars
    PROVE  IInv'
<1> USE DEF IInv, TypeOK
<1>1. /\ UNCHANGED <<pc, job, key, res, crashes, work>>
      /\ g \in RetryPollers
      /\ \A h \in RetryPollers, k \in Keys :
            k \in due'[h] => k \in due[h] \/ k \in scheduled
      /\ due' \in [RetryPollers -> SUBSET Keys]
  BY DEF ListRetryable, Retryable, WorkerTypeOK, StoreTypeOK
<1>2. StoreTypeOK'
  BY DEF ListRetryable, storeVars, tables, redis, StoreTypeOK
<1>3. WorkerTypeOK'
  BY <1>1 DEF ListRetryable, WorkerTypeOK, receivers
<1>4. ApiTypeOK'
  BY DEF ApiTypeOK, apiVars
<1>5. TablesStay
  BY DEF TablesStay, ListRetryable, storeVars, tables, receivers, ActionExists
<1>6. /\ RowsExist' /\ Rungs' /\ Calls'
      /\ \A d \in Deliveries, a \in Actions : Gone(d, a)' <=> Gone(d, a)
  BY <1>5, TablesStayLadder DEF Ladder
<1>7. Retries'
  BY <1>1, <1>5, <1>6 DEF Ladder, Retries, HeldRetries, TablesStay, Keys
<1>8. Locals' /\ Exclusive'
  BY <1>1 DEF Ladder, Locals, Exclusive, InFlight, PairOf
<1>9. Flights'
  BY <1>1, <1>5, <1>6 DEF Ladder, Flights, Flight, InFlight, TablesStay, Keys, PairOf,
     WorkerTypeOK
<1> QED BY <1>2, <1>3, <1>4, <1>6, <1>7, <1>8, <1>9 DEF Ladder

-----------------------------------------------------------------------------
(* Writing attempts                                                         *)

(* The attempts of deleted rows are gone with them.                         *)
LEMMA GoneHasNoRows ==
    ASSUME IInv, NEW k \in Keys, Gone(k[1], k[2])
    PROVE  attempt[k] = "none"
  BY DEF IInv, Ladder, RowsExist, Gone, Keys, DeliveryExists, ActionExists

LEMMA ClearRetryInv ==
    ASSUME IInv, NEW g \in Goroutines, ClearRetry(g), UNCHANGED apiVars
    PROVE  IInv'
<1>h. /\ pc[g] = "clear" /\ job[g] \in Jobs /\ g \in RetryPollers
      /\ job[g].prev \in Keys
  BY Holding DEF ClearRetry, IInv, Ladder, Locals
<1>1. attempt[job[g].prev] \in {"failed", "none"}
  BY <1>h, GoneHasNoRows DEF IInv, Ladder, Retries, HeldRetries
<1>2. /\ attempt' = attempt /\ scheduled' \in SUBSET Keys
      /\ scheduled' \subseteq scheduled
  BY <1>h, <1>1 DEF ClearRetry, UpdateAttempt, IInv, TypeOK, StoreTypeOK
<1>3. dbFaults' \in 0 .. MaxDbFaults
  BY SqlType DEF ClearRetry, IInv, TypeOK, StoreTypeOK
<1>4. StoreTypeOK'
  BY <1>2, <1>3 DEF IInv, TypeOK, StoreTypeOK, ClearRetry, SqlOnly, redis
<1>5. TablesStay /\ UNCHANGED <<crashes, carried>>
  BY <1>2 DEF TablesStay, ClearRetry, SqlOnly, receivers, ActionExists
<1>6. /\ work' \in [Fanouts -> SUBSET Messages]
      /\ due' \in [RetryPollers -> SUBSET Keys] /\ UNCHANGED due
  BY DEF ClearRetry, IInv, TypeOK, WorkerTypeOK
<1>7. Moves(g, "rollActions", job[g], key[g], res[g])
  BY Holding DEF Moves, ClearRetry, Goto
<1>8. Fit(g, "rollActions", job[g], key[g], res[g])
  BY <1>h, Holding DEF Fit
<1> QED BY <1>4, <1>5, <1>6, <1>7, <1>8, StepInv

(* Where the UNIQUE constraint lets a goroutine insert an attempt, its      *)
(* number is the next call's, no call has succeeded, and nobody else is     *)
(* between creating and recording an attempt of that delivery and action.   *)
LEMMA NextRung ==
    ASSUME IInv, NEW d \in Deliveries, NEW a \in Actions, NEW n \in Numbers,
           CanInsertAttempt(d, a, n),
           n = 1 \/ (n > 1 /\ attempt[<<d, a, n - 1>>] = "failed"
                           /\ HasRetry(n - 1))
    PROVE  /\ ~Gone(d, a)
           /\ n <= Top
           /\ \A m \in 1 .. (n - 1) : attempt[<<d, a, m>>] = "failed"
           /\ \A m \in Numbers : m >= n => attempt[<<d, a, m>>] = "none"
           /\ calls[<<d, a>>] = n - 1
           /\ <<d, a>> \notin acked
           /\ \A h \in Goroutines : InFlight(h) => PairOf(key[h]) # <<d, a>>
<1> USE DEF IInv, Ladder
<1>n. n \in Nat /\ n >= 1 /\ MaxRetries \in Nat
  BY BoundsAssumption DEF Numbers
<1>1. ~Gone(d, a)
  BY DEF Gone, CanInsertAttempt, RowsExist, DeliveryExists, ActionExists
<1>2. n <= Top
  BY <1>n DEF Top, HasRetry
<1>3. \A m \in 1 .. (n - 1) : attempt[<<d, a, m>>] = "failed"
  <2> SUFFICES ASSUME n > 1, NEW m \in 1 .. (n - 1)
               PROVE  attempt[<<d, a, m>>] = "failed"
    BY <1>n
  <2>1. <<d, a, n - 1>> \in Keys /\ n - 1 \in Numbers
    BY <1>n DEF Keys, Numbers, Top
  <2>2. CASE m = n - 1
    BY <2>2
  <2>3. CASE m # n - 1
    <3>1. m \in 1 .. ((n - 1) - 1)
      BY <2>3, <1>n
    <3> QED BY <2>1, <3>1, <1>n DEF Rungs
  <2> QED BY <2>2, <2>3
<1>4. \A m \in Numbers : m >= n => attempt[<<d, a, m>>] = "none"
  <2> SUFFICES ASSUME NEW m \in Numbers, m > n
               PROVE  attempt[<<d, a, m>>] = "none"
    BY <1>n DEF CanInsertAttempt, Numbers
  <2>1. <<d, a, m>> \in Keys /\ n \in 1 .. (m - 1)
    BY <1>n DEF Keys, Numbers
  <2> QED BY <2>1 DEF Rungs, CanInsertAttempt
<1>5. calls[<<d, a>>] = n - 1
  <2> DEFINE c == calls[<<d, a>>]
  <2>1. c \in Nat /\ c <= Top /\ (c > 0 => attempt[<<d, a, c>>] # "none")
    BY <1>1 DEF Calls, TypeOK, WorkerTypeOK, Pairs
  <2>2. c > 0 => c \in Numbers
    BY <2>1, <1>n DEF Top, Numbers
  <2>3. c < n
    BY <2>1, <2>2, <1>4, <1>n DEF Numbers
  <2>4. n > 1 => c >= n - 1
    <3> SUFFICES ASSUME n > 1 PROVE c >= n - 1
      OBVIOUS
    <3>1. <<d, a, n - 1>> \in Keys
      BY <1>n DEF Keys, Numbers, Top
    <3> QED BY <3>1, <1>3, <1>n DEF Calls, PairOf
  <2> QED BY <2>1, <2>3, <2>4, <1>n
<1>6. <<d, a>> \notin acked
  BY <1>1, <1>3, <1>5, <1>n DEF Calls
<1>7. \A h \in Goroutines : InFlight(h) => PairOf(key[h]) # <<d, a>>
  <2> SUFFICES ASSUME NEW h \in Goroutines, InFlight(h), PairOf(key[h]) = <<d, a>>
               PROVE  FALSE
    OBVIOUS
  <2>1. key[h] \in Keys
    BY DEF InFlight, TypeOK, WorkerTypeOK
  <2> DEFINE m == key[h][3]
  <2>2. key[h] = <<d, a, m>> /\ m \in Numbers
    BY <2>1 DEF PairOf, Keys
  <2>3. attempt[<<d, a, m>>] = "pending"
    BY <1>1, <2>2 DEF Flights, Flight
  <2>4. m < n /\ m >= 1 /\ m \in Nat
    BY <2>2, <2>3, <1>4, <1>n DEF Numbers
  <2> QED BY <2>3, <2>4, <1>3, <1>n
<1> QED BY <1>1, <1>2, <1>3, <1>4, <1>5, <1>6, <1>7

(* The tables after an INSERT of the next rung.                             *)
LEMMA Insertion ==
    ASSUME IInv, NEW d \in Deliveries, NEW a \in Actions, NEW n \in Numbers,
           CanInsertAttempt(d, a, n),
           n = 1 \/ (n > 1 /\ attempt[<<d, a, n - 1>>] = "failed"
                           /\ HasRetry(n - 1)),
           attempt' = [attempt EXCEPT ![<<d, a, n>>] = "pending"],
           UNCHANGED <<mode, action, status, calls, acked>>
    PROVE  /\ attempt' \in [Keys -> AttemptStatuses]
           /\ attempt'[<<d, a, n>>] = "pending" /\ <<d, a, n>> \in Keys
           /\ \A k \in Keys : k # <<d, a, n>> => attempt'[k] = attempt[k]
           /\ RowsExist' /\ Rungs' /\ Calls'
           /\ \A e \in Deliveries, b \in Actions : Gone(e, b)' <=> Gone(e, b)
<1> USE DEF IInv, Ladder
<1> DEFINE x == <<d, a, n>>
<1>x. x \in Keys
  BY DEF Keys
<1>1. /\ attempt' \in [Keys -> AttemptStatuses]
      /\ attempt'[x] = "pending"
      /\ \A k \in Keys : k # x => attempt'[k] = attempt[k]
      /\ attempt[x] = "none"
  BY <1>x DEF TypeOK, StoreTypeOK, AttemptStatuses, CanInsertAttempt
<1>2. RowsExist'
  <2> SUFFICES ASSUME NEW k \in Keys, attempt'[k] # "none"
               PROVE  DeliveryExists(k[1])' /\ ActionExists(k[2])'
    BY DEF RowsExist, DeliveryExists
  <2>1. CASE k = x
    BY <2>1 DEF CanInsertAttempt, DeliveryExists, ActionExists
  <2>2. CASE k # x
    BY <2>2, <1>1 DEF RowsExist, DeliveryExists, ActionExists
  <2> QED BY <2>1, <2>2
<1>3. Rungs'
  <2> SUFFICES ASSUME NEW k \in Keys, attempt'[k] # "none"
               PROVE  /\ k[3] <= Top
                      /\ \A m \in 1 .. (k[3] - 1) :
                            attempt'[<<k[1], k[2], m>>] = "failed"
    BY DEF Rungs
  <2>k. k[1] \in Deliveries /\ k[2] \in Actions /\ k[3] \in Numbers
    BY DEF Keys
  <2>m. \A m \in 1 .. (k[3] - 1) : <<k[1], k[2], m>> \in Keys
    BY <2>k, BoundsAssumption DEF Keys, Numbers, Top
  <2>1. CASE k = x
    <3>1. \A m \in 1 .. (n - 1) : attempt[<<d, a, m>>] = "failed"
      BY NextRung
    <3> QED BY <2>1, <2>m, <3>1, <1>1, NextRung
  <2>2. CASE k # x
    <3>1. /\ k[3] <= Top
          /\ \A m \in 1 .. (k[3] - 1) : attempt[<<k[1], k[2], m>>] = "failed"
      BY <2>2, <1>1 DEF Rungs
    <3> QED BY <3>1, <2>m, <1>1
  <2> QED BY <2>1, <2>2
<1>4. \A e \in Deliveries, b \in Actions : Gone(e, b)' <=> Gone(e, b)
  BY DEF Gone
<1>5. Calls'
  <2>1. \A k \in Keys : attempt'[k] \in {"success", "failed"} =>
            calls'[PairOf(k)] >= k[3]
    BY <1>1 DEF Calls
  <2>2. ASSUME NEW e \in Deliveries, NEW b \in Actions
        PROVE  LET c == calls[<<e, b>>] IN
               /\ c > 0 /\ ~Gone(e, b) => attempt'[<<e, b, c>>] # "none"
               /\ <<e, b>> \in acked /\ ~Gone(e, b) =>
                      attempt'[<<e, b, c>>] # "failed"
    <3> DEFINE c == calls[<<e, b>>]
    <3>1. /\ c > 0 /\ ~Gone(e, b) => attempt[<<e, b, c>>] # "none"
          /\ <<e, b>> \in acked /\ ~Gone(e, b) => attempt[<<e, b, c>>] # "failed"
          /\ <<e, b>> \in acked => c > 0
          /\ c <= Top /\ c \in Nat
      BY DEF Calls, TypeOK, WorkerTypeOK, Pairs
    <3>2. c > 0 => <<e, b, c>> \in Keys
      BY <3>1, BoundsAssumption DEF Keys, Numbers, Top
    <3>3. c > 0 /\ <<e, b, c>> = x => attempt'[<<e, b, c>>] = "pending"
      BY <1>1
    <3>4. c > 0 /\ <<e, b, c>> # x => attempt'[<<e, b, c>>] = attempt[<<e, b, c>>]
      BY <1>1, <3>2
    <3> HIDE DEF x
    <3> QED BY <3>1, <3>2, <3>3, <3>4
  <2> QED BY <2>1, <2>2, <1>4 DEF Calls
<1> QED BY <1>x, <1>1, <1>2, <1>3, <1>4, <1>5

(* What g is about to insert is the next rung, if it can.                   *)
LEMMA RungOfJob ==
    ASSUME IInv, NEW g \in Goroutines, pc[g] = "dispatch", NEW a \in job[g].acts
    PROVE  LET d == job[g].id
               n == AttemptNumber(job[g])
           IN /\ d \in Deliveries /\ a \in Actions /\ n \in Numbers
              /\ CanInsertAttempt(d, a, n) =>
                    n = 1 \/ (n > 1 /\ attempt[<<d, a, n - 1>>] = "failed"
                                    /\ HasRetry(n - 1))
<1>1. job[g] \in Jobs
  BY Holding
<1>2. job[g].id \in Deliveries /\ a \in Actions
  BY <1>1 DEF Jobs
<1>3. CASE g \notin RetryPollers
  <2>1. AttemptNumber(job[g]) = 1
    BY <1>3, Holding DEF AttemptNumber
  <2> QED BY <1>2, <2>1, BoundsAssumption DEF Numbers, Top
<1>4. CASE g \in RetryPollers
  <2> DEFINE k == job[g].prev
  <2>1. /\ k \in Keys /\ k \in HeldRetries(g) /\ job[g].id = k[1]
        /\ a = k[2] /\ k # NoKey
    BY <1>4, Holding, GoroutinesAssumption DEF IInv, Ladder, Locals
  <2>2. AttemptNumber(job[g]) = k[3] + 1 /\ k[3] \in Numbers
    BY <2>1 DEF AttemptNumber, Keys
  <2>3. HasRetry(k[3]) /\ (attempt[k] = "failed" \/ Gone(k[1], k[2]))
    BY <1>4, <2>1 DEF IInv, Ladder, Retries
  <2>4. k[3] + 1 \in Numbers /\ k[3] + 1 > 1 /\ (k[3] + 1) - 1 = k[3]
    BY <2>2, <2>3, BoundsAssumption DEF HasRetry, Numbers, Top
  <2>5. k = <<k[1], k[2], k[3]>>
    BY <2>1 DEF Keys
  <2>6. CanInsertAttempt(k[1], k[2], k[3] + 1) => ~Gone(k[1], k[2])
    BY <2>1 DEF CanInsertAttempt, IInv, Ladder, RowsExist, Gone, ActionExists,
       DeliveryExists, Keys
  <2> HIDE DEF k
  <2> QED BY <1>2, <2>1, <2>2, <2>3, <2>4, <2>5, <2>6
<1> QED BY <1>3, <1>4

(* The INSERT, committed or not, and what the goroutine does next.          *)
LEMMA CreateAttemptInv ==
    ASSUME IInv, NEW g \in Goroutines, CreateAttempt(g), UNCHANGED apiVars
    PROVE  IInv'
<1>p. pc[g] = "dispatch" /\ job[g] \in Jobs
  BY Holding DEF CreateAttempt
<1> DEFINE d == job[g].id
           n == AttemptNumber(job[g])
<1>0. PICK a \in job[g].acts, o \in Writes :
         LET rest == job[g].acts \ {a} IN
         /\ job' = [job EXCEPT ![g].acts = rest]
         /\ \/ /\ CanInsertAttempt(d, a, n)
               /\ Sql(o)
               /\ InsertAttempt(o, d, a, n)
               /\ IF o = "ok" THEN /\ key' = [key EXCEPT ![g] = <<d, a, n>>]
                                   /\ Goto(g, "send")
                              ELSE Loop(g, rest) /\ UNCHANGED key
            \/ /\ ~CanInsertAttempt(d, a, n)
               /\ Loop(g, rest)
               /\ UNCHANGED <<key, attempt, dbFaults>>
  BY DEF CreateAttempt
<1> DEFINE rest == job[g].acts \ {a}
           j == [job[g] EXCEPT !.acts = rest]
           x == <<d, a, n>>
<1>n. /\ d \in Deliveries /\ a \in Actions /\ n \in Numbers
      /\ CanInsertAttempt(d, a, n) =>
            n = 1 \/ (n > 1 /\ attempt[<<d, a, n - 1>>] = "failed"
                            /\ HasRetry(n - 1))
  BY <1>p, RungOfJob
<1>j. /\ j \in Jobs /\ j.prev = job[g].prev /\ j.id = job[g].id
      /\ g \in RetryPollers => j.acts \subseteq {j.prev[2]}
      /\ job' = [job EXCEPT ![g] = j]
  BY <1>0, <1>p DEF Jobs, IInv, Ladder, Locals
<1>l. (\E acts : Loop(g, acts)) =>
         \E l \in {"dispatch", "clear", "rollActions"} :
            pc' = [pc EXCEPT ![g] = l] /\ (l = "clear" => g \in RetryPollers)
  BY LoopLabel
<1>w. /\ work' \in [Fanouts -> SUBSET Messages]
      /\ due' \in [RetryPollers -> SUBSET Keys]
      /\ UNCHANGED <<due, crashes, carried, res>>
      /\ UNCHANGED <<mode, action, status, calls, acked, scheduled>>
  BY DEF CreateAttempt, SqlOnly, receivers, IInv, TypeOK, WorkerTypeOK
<1>f. dbFaults' \in 0 .. MaxDbFaults
  BY <1>0, SqlType DEF IInv, TypeOK, StoreTypeOK
<1>s. attempt' \in [Keys -> AttemptStatuses] => StoreTypeOK'
  BY <1>f DEF IInv, TypeOK, StoreTypeOK, CreateAttempt, SqlOnly, redis
<1> HIDE DEF d, n, rest, j, x
<1>1. CASE /\ \E acts : Loop(g, acts)
           /\ UNCHANGED <<key, attempt>>
  <2>1. PICK l \in {"dispatch", "clear", "rollActions"} :
            pc' = [pc EXCEPT ![g] = l] /\ (l = "clear" => g \in RetryPollers)
    BY <1>1, <1>l
  <2>2. Moves(g, l, j, key[g], res[g])
    BY <1>1, <1>j, <1>w, <2>1, Holding DEF Moves
  <2>3. Fit(g, l, j, key[g], res[g])
    BY <1>j, <1>p, <2>1, Holding DEF Fit
  <2>4. TablesStay
    BY <1>1, <1>w DEF TablesStay, ActionExists
  <2>5. StoreTypeOK'
    BY <1>1, <1>s DEF IInv, TypeOK, StoreTypeOK
  <2> QED BY <2>2, <2>3, <2>4, <2>5, <1>w, StepInv
<1>2. CASE /\ CanInsertAttempt(d, a, n)
           /\ attempt' = [attempt EXCEPT ![x] = "pending"]
           /\ \/ /\ key' = [key EXCEPT ![g] = x]
                 /\ Goto(g, "send")
              \/ (\E acts : Loop(g, acts)) /\ UNCHANGED key
  <2>r. n = 1 \/ (n > 1 /\ attempt[<<d, a, n - 1>>] = "failed"
                        /\ HasRetry(n - 1))
    BY <1>2, <1>n
  <2>1. /\ attempt' \in [Keys -> AttemptStatuses]
        /\ attempt'[x] = "pending" /\ x \in Keys
        /\ \A k \in Keys : k # x => attempt'[k] = attempt[k]
        /\ RowsExist' /\ Rungs' /\ Calls'
        /\ \A e \in Deliveries, b \in Actions : Gone(e, b)' <=> Gone(e, b)
    BY <1>2, <1>n, <1>w, <2>r, Insertion DEF x
  <2>2. /\ n <= Top /\ calls[<<d, a>>] = n - 1 /\ <<d, a>> \notin acked
        /\ \A h \in Goroutines : InFlight(h) => PairOf(key[h]) # <<d, a>>
    BY <1>2, <1>n, <2>r, NextRung
  <2>x. PairOf(x) = <<d, a>> /\ x[3] = n /\ attempt[x] = "none"
    BY <1>2 DEF x, PairOf, CanInsertAttempt
  <2>3. PICK l \in {"send", "dispatch", "clear", "rollActions"}, k \in Keys \cup {NoKey} :
            /\ pc' = [pc EXCEPT ![g] = l] /\ key' = [key EXCEPT ![g] = k]
            /\ l = "clear" => g \in RetryPollers
            /\ l = "send" => k = x
    BY <1>2, <1>l, <2>1, Holding DEF Goto
  <2>4. /\ LocalTypes /\ Moves(g, l, j, k, res[g])
    BY <2>3, <1>j, <1>w, Holding DEF Moves, LocalTypes, IInv, TypeOK, WorkerTypeOK
  <2>5. LocalTypes'
    <3>1. l \in Labels /\ l # "idle" /\ j \in Jobs /\ res[g] \in Results
      BY <2>3, <1>j, Holding DEF Labels
    <3>2. k \in Keys \cup {NoKey} /\ (l \in {"send", "result"} => k \in Keys)
      BY <2>3, <2>1
    <3> QED BY <3>1, <3>2, <2>4, LocalsType
  <2>6. TypeOK'
    BY <2>1, <2>5, <1>s, <1>w DEF TypeOK, LocalTypes, WorkerTypeOK, IInv, ApiTypeOK,
       apiVars
  <2>7. /\ pc'[g] = l /\ job'[g] = j /\ key'[g] = k /\ res'[g] = res[g]
        /\ \A h \in Goroutines : h # g => /\ pc'[h] = pc[h] /\ job'[h] = job[h]
                                          /\ key'[h] = key[h] /\ res'[h] = res[h]
    BY <2>4 DEF Moves, LocalTypes
  <2>8. Locals'
    BY <2>3, <2>7, <1>j, <1>p, Holding DEF Locals, IInv, Ladder
  <2>9. Retries'
    <3>1. \A h \in RetryPollers, y \in Keys :
              y \in HeldRetries(h)' => y \in HeldRetries(h)
      BY <2>7, <1>j, <1>p, <1>w DEF HeldRetries, Goroutines
    <3>2. \A y \in Keys : y[1] \in Deliveries /\ y[2] \in Actions
      BY DEF Keys
    <3>3. \A y \in Keys : attempt[y] = "failed" => attempt'[y] = "failed"
      BY <2>1, <2>x
    <3>4. scheduled \in SUBSET Keys
      BY DEF IInv, TypeOK, StoreTypeOK
    <3>5. \A y \in scheduled' : attempt'[y] = "failed" /\ HasRetry(y[3])
      BY <3>3, <3>4, <1>w DEF Retries, IInv, Ladder
    <3> QED BY <3>1, <3>2, <3>3, <3>5, <2>1 DEF Retries, IInv, Ladder
  <2>10. Flights'
    <3> SUFFICES ASSUME NEW h \in Goroutines, InFlight(h)'
                 PROVE  Flight(h)'
      BY DEF Flights
    <3>1. CASE h = g
      <4>1. pc'[h] = "send" /\ key'[h] = x
        BY <3>1, <2>3, <2>7 DEF InFlight
      <4> QED BY <4>1, <2>1, <2>2, <2>x, <1>n, <1>w DEF Numbers, Flight, PairOf
    <3>2. CASE h # g
      <4>1. InFlight(h) /\ key'[h] = key[h] /\ pc'[h] = pc[h] /\ res'[h] = res[h]
        BY <3>2, <2>7 DEF InFlight
      <4>2. key[h] \in Keys /\ key[h] # x
        BY <4>1, <2>2, <2>x DEF InFlight, IInv, TypeOK, WorkerTypeOK
      <4>3. key[h][1] \in Deliveries /\ key[h][2] \in Actions
        BY <4>2 DEF Keys
      <4> QED BY <4>1, <4>2, <4>3, <2>1, <1>w DEF Flights, Flight, PairOf, IInv, Ladder
    <3> QED BY <3>1, <3>2
  <2>11. Exclusive'
    <3>1. InFlight(g)' => PairOf(key'[g]) = <<d, a>>
      BY <2>3, <2>7, <2>x DEF InFlight
    <3>2. \A h \in Goroutines : h # g =>
             /\ InFlight(h)' <=> InFlight(h)
             /\ InFlight(h) => PairOf(key'[h]) = PairOf(key[h])
                            /\ PairOf(key[h]) # <<d, a>>
      BY <2>2, <2>7 DEF InFlight
    <3>3. \A h \in Goroutines : PairOf(key[h])' = PairOf(key'[h])
      BY DEF PairOf
    <3>4. \A h, i \in Goroutines : InFlight(h) /\ InFlight(i) /\ h # i =>
             PairOf(key[h]) # PairOf(key[i])
      BY DEF Exclusive, IInv, Ladder
    <3> QED BY <3>1, <3>2, <3>3, <3>4 DEF Exclusive
  <2> QED BY <2>1, <2>6, <2>8, <2>9, <2>10, <2>11 DEF IInv, Ladder
<1> QED BY <1>0, <1>1, <1>2 DEF InsertAttempt, Took, x, d, n

(* The call: the receiver counts the attempt's number.                      *)
LEMMA DispatchInv ==
    ASSUME IInv, NEW g \in Goroutines, Dispatch(g), UNCHANGED apiVars
    PROVE  IInv'
<1> DEFINE p == PairOf(key[g])
<1>h. /\ pc[g] = "send" /\ job[g] \in Jobs /\ key[g] \in Keys /\ InFlight(g)
      /\ p \in Pairs /\ key[g][1] \in Deliveries /\ job[g].payload \in Payloads
      /\ key[g] = <<p[1], p[2], key[g][3]>> /\ key[g][3] \in Numbers
  BY Holding DEF Dispatch, IInv, TypeOK, WorkerTypeOK, Keys, Pairs, PairOf, Jobs,
     InFlight
<1>v. /\ UNCHANGED <<storeVars, work, due, job, key, crashes>>
      /\ UNCHANGED <<mode, action, status, attempt, scheduled>>
  BY DEF Dispatch, storeVars, tables
<1>c. calls' = [calls EXCEPT ![p] = @ + 1]
  BY DEF Dispatch, PairOf
<1>r. PICK r \in {"success", "failed"} :
          /\ pc' = [pc EXCEPT ![g] = "result"] /\ res' = [res EXCEPT ![g] = r]
          /\ IF r = "success" THEN acked' = acked \cup {p} ELSE acked' = acked
  BY DEF Dispatch, Write, Goto, PairOf
<1>f. /\ attempt[key[g]] = "pending" \/ Gone(p[1], p[2])
      /\ key[g][3] <= Top /\ calls[p] + 1 = key[g][3] /\ p \notin acked
  BY <1>h DEF IInv, Ladder, Flights, Flight, PairOf
<1>t. /\ calls \in [Pairs -> Nat] /\ acked \in SUBSET Pairs
      /\ pc \in [Goroutines -> Labels] /\ res \in [Goroutines -> Results]
  BY DEF IInv, TypeOK, WorkerTypeOK
<1>1. /\ calls' \in [Pairs -> Nat] /\ acked' \in SUBSET Pairs
      /\ calls'[p] = key[g][3]
      /\ \A q \in Pairs : q # p => calls'[q] = calls[q]
      /\ \A q \in Pairs : q # p => (q \in acked' <=> q \in acked)
      /\ p \in acked' <=> r = "success"
  BY <1>h, <1>c, <1>r, <1>f, <1>t
<1>2. /\ pc'[g] = "result" /\ res'[g] = r
      /\ \A h \in Goroutines : h # g => pc'[h] = pc[h] /\ res'[h] = res[h]
  BY <1>r, <1>t
<1> HIDE DEF p
<1>3. TypeOK'
  <2>1. StoreTypeOK' /\ ApiTypeOK'
    BY <1>v DEF IInv, TypeOK, StoreTypeOK, ApiTypeOK, apiVars, storeVars, tables, redis
  <2>2. carried' \in [Deliveries -> SUBSET Payloads]
    BY <1>h DEF Dispatch, IInv, TypeOK, WorkerTypeOK
  <2>3. pc' \in [Goroutines -> Labels] /\ res' \in [Goroutines -> Results]
    BY <1>r, <1>t
  <2>4. WorkerTypeOK'
    BY <1>1, <1>2, <1>h, <1>v, <2>2, <2>3 DEF IInv, TypeOK, WorkerTypeOK
  <2> QED BY <2>1, <2>4 DEF TypeOK
<1>4. \A d \in Deliveries, a \in Actions : Gone(d, a)' <=> Gone(d, a)
  BY <1>v DEF Gone
<1>5. RowsExist' /\ Rungs'
  BY <1>v DEF IInv, Ladder, RowsExist, Rungs, DeliveryExists, ActionExists
<1>6. Locals' /\ Retries'
  BY <1>2, <1>4, <1>v, <1>h DEF IInv, Ladder, Locals, Retries, HeldRetries, Keys,
     Goroutines
<1>7. Flights'
  <2> SUFFICES ASSUME NEW h \in Goroutines, InFlight(h)'
               PROVE  Flight(h)'
    BY DEF Flights
  <2>1. CASE h = g
    BY <2>1, <1>1, <1>2, <1>f, <1>v, <1>h, <1>4 DEF Flight, PairOf, p, Keys
  <2>2. CASE h # g
    <3>1. InFlight(h) /\ pc'[h] = pc[h] /\ res'[h] = res[h] /\ key'[h] = key[h]
      BY <2>2, <1>2, <1>v DEF InFlight
    <3>2. /\ key[h] \in Keys /\ PairOf(key[h]) \in Pairs /\ PairOf(key[h]) # p
          /\ key[h][1] \in Deliveries /\ key[h][2] \in Actions
      BY <3>1, <2>2, <1>h DEF InFlight, IInv, TypeOK, WorkerTypeOK, Ladder, Exclusive,
         p, Keys, Pairs, PairOf
    <3>3. Flight(h)
      BY <3>1 DEF IInv, Ladder, Flights
    <3> QED BY <3>1, <3>2, <3>3, <1>1, <1>4, <1>v DEF Flight, PairOf
  <2> QED BY <2>1, <2>2
<1>8. Exclusive'
  BY <1>2, <1>v, <1>h DEF IInv, Ladder, Exclusive, InFlight, PairOf
<1>9. Calls'
  <2>1. ASSUME NEW k \in Keys, attempt'[k] \in {"success", "failed"}
        PROVE  calls'[PairOf(k)] >= k[3]
    <3>1. calls[PairOf(k)] >= k[3] /\ PairOf(k) \in Pairs /\ k[3] \in Nat
      BY <2>1, <1>v, BoundsAssumption DEF IInv, Ladder, Calls, Keys, PairOf, Pairs,
         Numbers
    <3>2. calls[PairOf(k)] \in Nat /\ calls'[PairOf(k)] \in Nat
          /\ calls'[PairOf(k)] >= calls[PairOf(k)]
      BY <3>1, <1>t, <1>1, <1>f
    <3> QED BY <3>1, <3>2
  <2>2. ASSUME NEW d \in Deliveries, NEW a \in Actions
        PROVE  LET n == calls'[<<d, a>>] IN
               /\ n <= Top
               /\ n > 0 /\ ~Gone(d, a) => attempt[<<d, a, n>>] # "none"
               /\ <<d, a>> \in acked' => n > 0
               /\ <<d, a>> \in acked' /\ ~Gone(d, a) =>
                      attempt[<<d, a, n>>] # "failed"
    <3>1. CASE <<d, a>> = p
      <4>1. key[g][3] > 0
        BY <1>h, BoundsAssumption DEF Numbers
      <4> QED BY <3>1, <4>1, <1>1, <1>f, <1>h
    <3>2. CASE <<d, a>> # p
      BY <3>2, <1>1 DEF IInv, Ladder, Calls, Pairs
    <3> QED BY <3>1, <3>2
  <2> QED BY <2>1, <2>2, <1>4, <1>v DEF Calls, PairOf
<1> QED BY <1>3, <1>5, <1>6, <1>7, <1>8, <1>9 DEF IInv, Ladder

(* The result is written to the goroutine's own row, if it is still there.  *)
LEMMA RecordResultInv ==
    ASSUME IInv, NEW g \in Goroutines, RecordResult(g), UNCHANGED apiVars
    PROVE  IInv'
<1> DEFINE x == key[g]
           p == PairOf(x)
<1>h. /\ pc[g] = "result" /\ InFlight(g) /\ Flight(g) /\ x \in Keys
      /\ p \in Pairs /\ x[1] \in Deliveries /\ x[2] \in Actions
      /\ x = <<p[1], p[2], x[3]>> /\ x[3] \in Nat
  BY BoundsAssumption DEF RecordResult, InFlight, IInv, TypeOK, WorkerTypeOK, Keys,
     Numbers, Ladder, Flights, Pairs, PairOf
<1>f. /\ attempt[x] = "pending" \/ (Gone(x[1], x[2]) /\ attempt[x] = "none")
      /\ calls[p] = x[3] /\ ((res[g] = "success") <=> (p \in acked))
      /\ res[g] \in {"success", "failed"}
  BY <1>h, GoneHasNoRows DEF Flight
<1>v. /\ UNCHANGED <<mode, action, status, calls, acked, carried, work, due, job,
                     crashes>>
  BY DEF RecordResult, SqlOnly, receivers
<1>o. PICK o \in Writes :
         /\ Sql(o)
         /\ UpdateAttempt(o, x, res[g], res[g] = "failed" /\ HasRetry(x[3]))
  BY DEF RecordResult
<1>l. PICK l \in {"dispatch", "clear", "rollActions"} :
         pc' = [pc EXCEPT ![g] = l] /\ (l = "clear" => g \in RetryPollers)
  BY LoopLabel DEF RecordResult
<1>t. /\ attempt \in [Keys -> AttemptStatuses] /\ scheduled \in SUBSET Keys
      /\ pc \in [Goroutines -> Labels] /\ LocalTypes
  BY DEF IInv, TypeOK, StoreTypeOK, WorkerTypeOK, LocalTypes
<1> HIDE DEF x
<1>1. /\ attempt' \in [Keys -> AttemptStatuses]
      /\ scheduled' \in SUBSET Keys
      /\ \A k \in Keys : /\ k # x => attempt'[k] = attempt[k]
                         /\ attempt[k] = "none" <=> attempt'[k] = "none"
      /\ attempt'[x] \in {attempt[x], res[g]}
      /\ \A k \in Keys : k # x => (k \in scheduled' <=> k \in scheduled)
      /\ x \in scheduled' =>
            \/ x \in scheduled /\ attempt'[x] = attempt[x]
            \/ res[g] = "failed" /\ HasRetry(x[3]) /\ attempt'[x] = res[g]
  BY <1>h, <1>f, <1>o, <1>t DEF UpdateAttempt, AttemptStatuses
<1> HIDE DEF p
<1>2. /\ pc'[g] = l /\ ~InFlight(g)'
      /\ \A h \in Goroutines : h # g => /\ pc'[h] = pc[h] /\ res'[h] = res[h]
                                        /\ key'[h] = key[h]
  BY <1>l, <1>t DEF RecordResult, LocalTypes, InFlight
<1>3. TypeOK'
  <2>1. dbFaults' \in 0 .. MaxDbFaults
    BY <1>o, SqlType DEF IInv, TypeOK, StoreTypeOK
  <2>2. StoreTypeOK'
    BY <2>1, <1>1 DEF IInv, TypeOK, StoreTypeOK, RecordResult, SqlOnly, redis
  <2>3. Moves(g, l, job[g], NoKey, "none") /\ job[g] \in Jobs
    BY <1>l, <1>v, <1>h, Holding DEF Moves, RecordResult
  <2>4. LocalTypes'
    BY <2>3, <1>t, LocalsType
  <2>5. WorkerTypeOK'
    BY <2>4, <1>v DEF IInv, TypeOK, WorkerTypeOK, LocalTypes
  <2>6. ApiTypeOK'
    BY DEF IInv, TypeOK, ApiTypeOK, apiVars
  <2> QED BY <2>2, <2>5, <2>6 DEF TypeOK
<1>4. \A d \in Deliveries, a \in Actions : Gone(d, a)' <=> Gone(d, a)
  BY <1>v DEF Gone
<1>5. RowsExist'
  BY <1>1, <1>v DEF IInv, Ladder, RowsExist, DeliveryExists, ActionExists
<1>6. Rungs'
  <2> SUFFICES ASSUME NEW k \in Keys, attempt[k] # "none"
               PROVE  /\ k[3] <= Top
                      /\ \A m \in 1 .. (k[3] - 1) :
                            attempt'[<<k[1], k[2], m>>] = "failed"
    BY <1>1 DEF Rungs
  <2>1. /\ k[3] <= Top
        /\ \A m \in 1 .. (k[3] - 1) : attempt[<<k[1], k[2], m>>] = "failed"
    BY DEF IInv, Ladder, Rungs
  <2>2. \A m \in 1 .. (k[3] - 1) : <<k[1], k[2], m>> \in Keys
    BY BoundsAssumption DEF Keys, Numbers, Top
  <2> QED BY <2>1, <2>2, <1>1, <1>f
<1>7. Retries'
  <2>1. \A k \in scheduled' : attempt'[k] = "failed" /\ HasRetry(k[3])
    BY <1>1, <1>f DEF IInv, Ladder, Retries
  <2>2. ASSUME NEW h \in RetryPollers, NEW k \in Keys, k \in HeldRetries(h)'
        PROVE  HasRetry(k[3]) /\ (attempt'[k] = "failed" \/ Gone(k[1], k[2]))
    <3>1. k \in HeldRetries(h)
      BY <2>2, <1>2, <1>v, <1>h DEF HeldRetries, Goroutines
    <3> QED BY <3>1, <1>1, <1>f DEF IInv, Ladder, Retries
  <2> QED BY <2>1, <2>2, <1>4 DEF Retries, Keys
<1>8. Flights'
  <2> SUFFICES ASSUME NEW h \in Goroutines, InFlight(h)'
               PROVE  Flight(h)'
    BY DEF Flights
  <2>1. /\ h # g /\ InFlight(h) /\ pc'[h] = pc[h] /\ res'[h] = res[h]
        /\ key'[h] = key[h]
    BY <1>2 DEF InFlight
  <2>2. /\ key[h] \in Keys /\ PairOf(key[h]) # p
        /\ key[h][1] \in Deliveries /\ key[h][2] \in Actions
    BY <2>1, <1>h DEF InFlight, IInv, TypeOK, WorkerTypeOK, Ladder, Exclusive, p, x,
       Keys
  <2>3. Flight(h) /\ key[h] # x
    BY <2>1, <2>2 DEF IInv, Ladder, Flights, p
  <2> QED BY <2>1, <2>2, <2>3, <1>1, <1>4, <1>v DEF Flight, PairOf
<1>9. Exclusive'
  BY <1>2 DEF IInv, Ladder, Exclusive, InFlight, PairOf
<1>10. Locals'
  <2>1. \A h \in Goroutines : h # g => pc'[h] = pc[h] /\ job'[h] = job[h]
                                       /\ res'[h] = res[h]
    BY <1>2, <1>v
  <2>2. g \in RetryPollers => /\ job[g].prev \in Keys
                              /\ job[g].id = job[g].prev[1]
                              /\ job[g].acts \subseteq {job[g].prev[2]}
    BY <1>h DEF IInv, Ladder, Locals
  <2>3. g \notin RetryPollers => job[g].prev = NoKey
    BY <1>h DEF IInv, Ladder, Locals
  <2> QED BY <2>1, <2>2, <2>3, <1>2, <1>l, <1>v DEF IInv, Ladder, Locals
<1>11. Calls'
  <2>1. ASSUME NEW k \in Keys, attempt'[k] \in {"success", "failed"}
        PROVE  calls[PairOf(k)] >= k[3]
    <3>1. CASE k = x
      BY <3>1, <1>f, <1>h DEF p
    <3>2. CASE k # x
      BY <3>2, <2>1, <1>1 DEF IInv, Ladder, Calls
    <3> QED BY <3>1, <3>2
  <2>2. ASSUME NEW d \in Deliveries, NEW a \in Actions
        PROVE  LET n == calls[<<d, a>>] IN
               /\ n <= Top
               /\ n > 0 /\ ~Gone(d, a) => attempt'[<<d, a, n>>] # "none"
               /\ <<d, a>> \in acked => n > 0
               /\ <<d, a>> \in acked /\ ~Gone(d, a) =>
                      attempt'[<<d, a, n>>] # "failed"
    <3> DEFINE n == calls[<<d, a>>]
    <3>1. /\ n <= Top /\ n \in Nat
          /\ n > 0 /\ ~Gone(d, a) => attempt[<<d, a, n>>] # "none"
          /\ <<d, a>> \in acked => n > 0
          /\ <<d, a>> \in acked /\ ~Gone(d, a) => attempt[<<d, a, n>>] # "failed"
      BY DEF IInv, Ladder, Calls, TypeOK, WorkerTypeOK, Pairs
    <3>2. n > 0 => <<d, a, n>> \in Keys
      BY <3>1, BoundsAssumption DEF Keys, Numbers, Top
    <3>3. CASE <<d, a>> = p
      <4>1. <<d, a, n>> = x
        BY <3>3, <1>f, <1>h DEF PairOf, p
      <4>2. <<d, a>> \in acked => res[g] = "success"
        BY <3>3, <1>f
      <4>3. attempt[x] # "failed"
        BY <1>f
      <4> QED BY <3>1, <3>2, <4>1, <4>2, <4>3, <1>1
    <3>4. CASE <<d, a>> # p
      <4>1. n > 0 => attempt'[<<d, a, n>>] = attempt[<<d, a, n>>]
        BY <3>2, <3>4, <1>1, <1>h DEF p, PairOf
      <4> QED BY <3>1, <4>1
    <3> QED BY <3>3, <3>4
  <2> QED BY <2>1, <2>2, <1>4, <1>v DEF Calls, PairOf
<1> QED BY <1>3, <1>5, <1>6, <1>7, <1>8, <1>9, <1>10, <1>11 DEF IInv, Ladder

-----------------------------------------------------------------------------
(* Every step of the workers                                                *)

(* A crash forgets locals; what is in flight in other replicas stays.       *)
LEMMA CrashWorkerInv ==
    ASSUME IInv, NEW r \in Replicas, CrashWorker(r), UNCHANGED apiVars
    PROVE  IInv'
<1>v. /\ UNCHANGED <<mode, action, status, attempt, scheduled, calls, acked, carried>>
      /\ crashes' \in 0 .. MaxCrashes
  BY GoroutinesAssumption DEF CrashWorker, tables, receivers, IInv, TypeOK, WorkerTypeOK
<1>1. \A g \in Goroutines :
         \/ pc'[g] = pc[g] /\ job'[g] = job[g] /\ key'[g] = key[g] /\ res'[g] = res[g]
         \/ pc'[g] = "idle" /\ job'[g] = NoJob /\ key'[g] = NoKey /\ res'[g] = "none"
  BY DEF CrashWorker
<1>2. \A g \in RetryPollers : due'[g] = due[g] \/ due'[g] = {}
  BY DEF CrashWorker
<1>3. LocalTypes'
  <2>1. /\ pc' \in [Goroutines -> Labels]
        /\ job' \in [Goroutines -> Jobs \cup {NoJob}]
        /\ key' \in [Goroutines -> Keys \cup {NoKey}]
        /\ res' \in [Goroutines -> Results]
    BY DEF CrashWorker, IInv, TypeOK, WorkerTypeOK
  <2> QED BY <2>1, <1>1 DEF LocalTypes, IInv, TypeOK, WorkerTypeOK
<1>4. /\ work' \in [Fanouts -> SUBSET Messages]
      /\ due' \in [RetryPollers -> SUBSET Keys]
  BY DEF CrashWorker, IInv, TypeOK, WorkerTypeOK
<1>5. StoreTypeOK'
  BY DEF CrashWorker, tables, IInv, TypeOK, StoreTypeOK
<1>6. TypeOK'
  BY <1>3, <1>4, <1>5, <1>v DEF IInv, TypeOK, WorkerTypeOK, LocalTypes, ApiTypeOK,
     apiVars
<1>7. TablesStay
  BY <1>v DEF TablesStay, ActionExists
<1>8. /\ RowsExist' /\ Rungs' /\ Calls'
      /\ \A d \in Deliveries, a \in Actions : Gone(d, a)' <=> Gone(d, a)
  BY <1>7, TablesStayLadder DEF IInv, Ladder
<1>9. Locals'
  BY <1>1 DEF IInv, Ladder, Locals
<1>10. Retries'
  <2>1. \A g \in RetryPollers, k \in Keys :
           k \in HeldRetries(g)' => k \in HeldRetries(g)
    BY <1>1, <1>2 DEF HeldRetries, Goroutines
  <2> QED BY <2>1, <1>8, <1>v DEF IInv, Ladder, Retries, Keys
<1>11. \A g \in Goroutines : InFlight(g)' =>
          InFlight(g) /\ pc'[g] = pc[g] /\ key'[g] = key[g] /\ res'[g] = res[g]
  BY <1>1 DEF InFlight
<1>12. Flights'
  BY <1>8, <1>11, <1>v DEF IInv, Ladder, Flights, Flight, InFlight, TypeOK,
     WorkerTypeOK, Keys, PairOf
<1>13. Exclusive'
  BY <1>11 DEF IInv, Ladder, Exclusive, PairOf
<1> QED BY <1>6, <1>8, <1>9, <1>10, <1>12, <1>13 DEF IInv, Ladder

LEMMA StepsInv ==
    ASSUME IInv, NEW g \in Goroutines, Step(g), UNCHANGED apiVars
    PROVE  IInv'
<1>1. CASE Poll(g)
  BY <1>1, ReceiveInv, ListPendingInv, ListRetryableInv DEF Poll
<1>2. CASE ProcessDelivery(g)
  BY <1>2, GetDeliveryInv, GetSourceInv, ClaimInv, ListActionsInv, StoreTransformedInv
     DEF ProcessDelivery
<1>3. CASE DispatchAction(g)
  BY <1>3, CreateAttemptInv, DispatchInv, RecordResultInv DEF DispatchAction
<1>4. CASE RetryAttempt(g)
  BY <1>4, GetRetryDeliveryInv, GetActionInv, ClearRetryInv DEF RetryAttempt
<1>5. CASE RollUp(g)
  BY <1>5, RollUpActionsInv, RollUpAttemptsInv, WriteStatusInv DEF RollUp
<1> QED BY <1>1, <1>2, <1>3, <1>4, <1>5 DEF Step

-----------------------------------------------------------------------------
(* The API server and Redis                                                 *)

(* A step that leaves the workers and the ladder's tables alone.            *)
LEMMA ApiStepInv ==
    ASSUME IInv, TablesStay, StoreTypeOK', ApiTypeOK', UNCHANGED workerVars
    PROVE  IInv'
<1>v. UNCHANGED <<pc, work, due, job, key, res, crashes, calls, acked, carried>>
  BY DEF workerVars, locals, receivers
<1>1. /\ RowsExist' /\ Rungs' /\ Calls'
      /\ \A d \in Deliveries, a \in Actions : Gone(d, a)' <=> Gone(d, a)
  BY TablesStayLadder DEF IInv, Ladder
<1>2. WorkerTypeOK'
  BY <1>v DEF IInv, TypeOK, WorkerTypeOK
<1>3. Locals' /\ Exclusive'
  BY <1>v DEF IInv, Ladder, Locals, Exclusive, InFlight, PairOf
<1>4. Retries'
  BY <1>1, <1>v DEF IInv, Ladder, Retries, HeldRetries, TablesStay, Keys
<1>5. Flights'
  BY <1>1, <1>v DEF IInv, Ladder, Flights, Flight, InFlight, TablesStay, TypeOK,
     WorkerTypeOK, Keys, PairOf
<1> QED BY <1>1, <1>2, <1>3, <1>4, <1>5 DEF IInv, Ladder, TypeOK

(* The handlers' moves.                                                     *)
LEMMA ContinueType ==
    ASSUME ApiTypeOK, NEW h \in Handlers, at[h] # "idle", SameRequests,
           NEW label \in {"mark", "publish", "force", "unarm"}, Continue(h, label)
    PROVE  ApiTypeOK'
  BY DEF ApiTypeOK, SameRequests, Continue

LEMMA RespondType ==
    ASSUME ApiTypeOK, NEW h \in Handlers, SameRequests, Respond(h)
    PROVE  ApiTypeOK'
  BY DEF ApiTypeOK, SameRequests, Respond

LEMMA NextForwardType ==
    ASSUME ApiTypeOK, NEW h \in Handlers, at[h] # "idle", SameRequests, NextForward(h)
    PROVE  ApiTypeOK'
<1>1. CASE Respond(h)
  BY <1>1, RespondType
<1>2. ASSUME NEW d \in req[h].rest,
             req' = [req EXCEPT ![h].id = d, ![h].rest = @ \ {d}],
             at' = [at EXCEPT ![h] = "rearm"]
      PROVE  ApiTypeOK'
  <2> DEFINE q == [req[h] EXCEPT !.id = d, !.rest = @ \ {d}]
  <2>1. q \in Requests
    BY DEF Requests, ApiTypeOK
  <2>2. req' = [req EXCEPT ![h] = q]
    BY <1>2
  <2> HIDE DEF q
  <2> QED BY <1>2, <2>1, <2>2 DEF ApiTypeOK, SameRequests
<1> QED BY <1>1, <1>2 DEF NextForward

(* A handler's statement that writes a status.                              *)
LEMMA StatusUpdateTables ==
    ASSUME IInv, StatusUpdateOnly, UNCHANGED workerVars, NEW o, Sql(o),
           NEW d \in Deliveries, NEW st \in Statuses \ {"none"},
           UpdateStatus(o, d, st)
    PROVE  TablesStay /\ StoreTypeOK'
<1>1. dbFaults' \in 0 .. MaxDbFaults
  BY SqlType DEF IInv, TypeOK, StoreTypeOK
<1>2. /\ status' \in [Deliveries -> Statuses]
      /\ \A e \in Deliveries : status'[e] = "none" <=> status[e] = "none"
  BY UpdateStatusType DEF IInv, TypeOK, StoreTypeOK
<1>3. StoreTypeOK'
  BY <1>1, <1>2 DEF IInv, TypeOK, StoreTypeOK, StatusUpdateOnly, redis
<1>4. TablesStay
  BY <1>2 DEF TablesStay, StatusUpdateOnly, workerVars, receivers, ActionExists
<1> QED BY <1>3, <1>4

(* XADD.                                                                    *)
LEMMA PublishTables ==
    ASSUME IInv, NEW o, NEW m \in Messages, Publish(o, m),
           UNCHANGED <<tables, dbFaults>>, UNCHANGED workerVars
    PROVE  TablesStay /\ StoreTypeOK'
<1>1. redisFaults' \in 0 .. MaxRedisFaults
  BY RedisType DEF Publish, IInv, TypeOK, StoreTypeOK
<1>2. stream' \in Seq(Messages)
  <2>1. stream \in Seq(Messages) /\ Append(stream, m) \in Seq(Messages)
        /\ Append(stream, m) # << >>
    BY DEF IInv, TypeOK, StoreTypeOK
  <2>2. Tail(Append(stream, m)) \in Seq(Messages)
    BY <2>1
  <2> QED BY <2>1, <2>2 DEF Publish
<1>3. StoreTypeOK'
  BY <1>1, <1>2 DEF IInv, TypeOK, StoreTypeOK, Publish, tables
<1>4. TablesStay
  BY DEF TablesStay, tables, workerVars, receivers, ActionExists
<1> QED BY <1>3, <1>4

LEMMA HandleInv ==
    ASSUME IInv, NEW h \in Handlers, Handle(h), UNCHANGED workerVars
    PROVE  IInv'
<1>t. ApiTypeOK
  BY DEF IInv, TypeOK
<1>h. at[h] # "idle" /\ req[h] \in Requests /\ req[h].id \in Deliveries
  BY <1>t DEF Handle, CreateDelivery, MarkRecorded, PublishToStream, Rearm,
     ForwardToStream, Unarm, ApiTypeOK, Requests
<1>m. \A force \in BOOLEAN : [id |-> req[h].id, force |-> force] \in Messages
  BY <1>h DEF Messages
<1>1. CASE CreateDelivery(h)
  <2> DEFINE d == req[h].id
  <2>1. SameRequests /\ StatusUpdateOnly
    BY <1>1 DEF CreateDelivery, StatusUpdateOnly
  <2>2. \/ /\ CanInsertDelivery(d)
           /\ status' \in {status, [status EXCEPT ![d] = "pending"]}
           /\ dbFaults' \in 0 .. MaxDbFaults
        \/ UNCHANGED <<status, dbFaults>>
    BY <1>1, SqlType DEF CreateDelivery, IInv, TypeOK, StoreTypeOK
  <2>3. ApiTypeOK'
    BY <1>1, <1>t, <1>h, <2>1, ContinueType, RespondType DEF CreateDelivery
  <2>4. StoreTypeOK'
    BY <1>h, <2>1, <2>2 DEF IInv, TypeOK, StoreTypeOK, StatusUpdateOnly, redis, Statuses
  <2>5. TablesStay
    BY <1>h, <2>1, <2>2 DEF TablesStay, StatusUpdateOnly, workerVars, receivers,
       ActionExists, CanInsertDelivery, SourceExists, LiveModes, IInv, TypeOK, StoreTypeOK
  <2> QED BY <2>3, <2>4, <2>5, ApiStepInv
<1>2. CASE MarkRecorded(h)
  <2>1. TablesStay /\ StoreTypeOK'
    BY <1>2, <1>h, StatusUpdateTables DEF MarkRecorded, Statuses
  <2>2. ApiTypeOK'
    BY <1>2, <1>t, RespondType DEF MarkRecorded, StatusUpdateOnly
  <2> QED BY <2>1, <2>2, ApiStepInv
<1>3. CASE PublishToStream(h)
  <2>1. TablesStay /\ StoreTypeOK'
    BY <1>3, <1>m, PublishTables DEF PublishToStream
  <2>2. ApiTypeOK'
    BY <1>3, <1>t, RespondType DEF PublishToStream
  <2> QED BY <2>1, <2>2, ApiStepInv
<1>4. CASE Rearm(h)
  <2>1. TablesStay /\ StoreTypeOK'
    BY <1>4, <1>h, StatusUpdateTables DEF Rearm, Statuses
  <2>2. ApiTypeOK'
    BY <1>4, <1>t, <1>h, ContinueType, NextForwardType DEF Rearm, StatusUpdateOnly
  <2> QED BY <2>1, <2>2, ApiStepInv
<1>5. CASE ForwardToStream(h)
  <2>1. TablesStay /\ StoreTypeOK'
    BY <1>5, <1>m, PublishTables DEF ForwardToStream
  <2>2. ApiTypeOK'
    BY <1>5, <1>t, <1>h, ContinueType, NextForwardType DEF ForwardToStream
  <2> QED BY <2>1, <2>2, ApiStepInv
<1>6. CASE Unarm(h)
  <2>1. TablesStay /\ StoreTypeOK'
    BY <1>6, <1>h, StatusUpdateTables DEF Unarm, Statuses
  <2>2. ApiTypeOK'
    BY <1>6, <1>t, <1>h, NextForwardType DEF Unarm, StatusUpdateOnly
  <2> QED BY <2>1, <2>2, ApiStepInv
<1> QED BY <1>1, <1>2, <1>3, <1>4, <1>5, <1>6 DEF Handle

(* A new request.                                                           *)
LEMMA RequestInv ==
    ASSUME IInv, NEW h \in Handlers, Ingest(h) \/ Forward(h), UNCHANGED workerVars
    PROVE  IInv'
<1>1. UNCHANGED storeVars /\ UNCHANGED <<edits, apiCrashes>>
  BY DEF Ingest, Forward, SameRequests
<1>2. StoreTypeOK'
  BY <1>1 DEF IInv, TypeOK, StoreTypeOK, storeVars, tables, redis
<1>3. TablesStay
  BY <1>1 DEF TablesStay, storeVars, tables, workerVars, receivers, ActionExists
<1>4. ApiTypeOK'
  <2>1. CASE Ingest(h)
    <3>1. PICK d \in Deliveries :
             /\ SourceExists(SourceOf[d])
             /\ req' = [req EXCEPT ![h] =
                           [id |-> d, rest |-> {}, mode |-> mode[SourceOf[d]]]]
      BY <2>1 DEF Ingest
    <3>2. mode[SourceOf[d]] \in LiveModes
      BY <3>1 DEF SourceExists
    <3>3. [id |-> d, rest |-> {}, mode |-> mode[SourceOf[d]]] \in Requests
      BY <3>2 DEF Requests
    <3> QED BY <2>1, <3>1, <3>3 DEF Ingest, SameRequests, IInv, TypeOK, ApiTypeOK
  <2>2. CASE Forward(h)
    <3> DEFINE Recorded(s) == {d \in Deliveries :
                                  SourceOf[d] = s /\ status[d] = "recorded"}
    <3> DEFINE Batch(b) ==
             /\ \A d \in b : forwarded[d] < MaxForwards
             /\ forwarded' = [d \in Deliveries |->
                    IF d \in b THEN forwarded[d] + 1 ELSE forwarded[d]]
             /\ \E d \in b : req' = [req EXCEPT ![h] =
                      [id |-> d, rest |-> b \ {d}, mode |-> "record"]]
    <3>s. PICK s \in Sources :
             \E b \in {{d} : d \in Recorded(s)} \cup {Recorded(s)} : Batch(b)
      BY <2>2, Zenon DEF Forward
    <3>0. PICK batch \in {{d} : d \in Recorded(s)} \cup {Recorded(s)} : Batch(batch)
      BY <3>s
    <3>1. batch \in SUBSET Deliveries
      OBVIOUS
    <3> HIDE DEF Recorded
    <3>2. forwarded' \in [Deliveries -> 0 .. MaxForwards]
      BY <3>0, <3>1, ApiAssumption DEF IInv, TypeOK, ApiTypeOK
    <3>3. PICK d \in batch :
             req' = [req EXCEPT ![h] =
                        [id |-> d, rest |-> batch \ {d}, mode |-> "record"]]
      BY <3>0
    <3>4. [id |-> d, rest |-> batch \ {d}, mode |-> "record"] \in Requests
      BY <3>1 DEF Requests, LiveModes
    <3>5. at' = [at EXCEPT ![h] = "rearm"]
      BY <2>2 DEF Forward
    <3> QED BY <1>1, <3>2, <3>3, <3>4, <3>5 DEF IInv, TypeOK, ApiTypeOK
  <2> QED BY <2>1, <2>2
<1> QED BY <1>2, <1>3, <1>4, ApiStepInv

LEMMA EditType ==
    ASSUME ApiTypeOK, Edit
    PROVE  ApiTypeOK'
  BY ApiAssumption DEF ApiTypeOK, Edit

(* Edits that delete nothing.                                               *)
LEMMA ChangeInv ==
    ASSUME IInv, UNCHANGED workerVars,
           \/ \E s \in Sources : CreateSource(s) \/ UpdateSource(s)
           \/ \E a \in Actions : CreateAction(a) \/ UpdateAction(a)
    PROVE  IInv'
<1>e. Edit /\ UNCHANGED <<status, transformed, attempt, scheduled>>
  BY DEF CreateSource, UpdateSource, CreateAction, UpdateAction, KeepDeliveries
<1>1. ApiTypeOK'
  BY <1>e, EditType DEF IInv, TypeOK
<1>2. CASE \E s \in Sources : CreateSource(s) \/ UpdateSource(s)
  <2>1. PICK s \in Sources : WriteSource(s) /\ mode[s] # "deleted"
    BY <1>2 DEF CreateSource, AddSource, UpdateSource, SetSource, SourceExists, LiveModes
  <2>2. PICK m \in LiveModes, b \in BOOLEAN :
           mode' = [mode EXCEPT ![s] = m] /\ scripted' = [scripted EXCEPT ![s] = b]
    BY <2>1 DEF WriteSource
  <2>3. StoreTypeOK'
    BY <1>e, <2>1, <2>2 DEF WriteSource, Edit, redis, IInv, TypeOK, StoreTypeOK, Modes
  <2>4. TablesStay
    BY <1>e, <2>1, <2>2 DEF WriteSource, TablesStay, LiveModes, ActionExists,
       workerVars, receivers, IInv, TypeOK, StoreTypeOK
  <2> QED BY <1>1, <2>3, <2>4, ApiStepInv
<1>3. CASE \E a \in Actions : CreateAction(a) \/ UpdateAction(a)
  <2>1. PICK a \in Actions : CreateAction(a) \/ UpdateAction(a)
    BY <1>3
  <2>2. PICK st \in {"active", "inactive"} : action' = [action EXCEPT ![a] = st]
    BY <2>1 DEF CreateAction, AddAction, UpdateAction, SetAction
  <2>3. transforms' \in SUBSET Actions /\ UNCHANGED <<mode, scripted>>
    BY <2>1 DEF CreateAction, AddAction, UpdateAction, SetAction, IInv, TypeOK, StoreTypeOK
  <2>4. StoreTypeOK'
    BY <1>e, <2>2, <2>3 DEF Edit, redis, IInv, TypeOK, StoreTypeOK, ActionStates
  <2>5. action[a] # "deleted"
    BY <2>1 DEF CreateAction, AddAction, UpdateAction, SetAction, ActionExists
  <2>6. TablesStay
    BY <1>e, <2>2, <2>3, <2>5 DEF TablesStay, ActionExists, workerVars, receivers,
       IInv, TypeOK, StoreTypeOK
  <2> QED BY <1>1, <2>4, <2>6, ApiStepInv
<1> QED BY <1>2, <1>3

(* A deletion takes the attempts of whole pairs with it; what a goroutine   *)
(* still holds of them is Gone.                                             *)
LEMMA DeletionInv ==
    ASSUME IInv, UNCHANGED workerVars, TypeOK', RowsExist',
           NEW gone \in SUBSET Keys, DeleteAttempts(gone),
           \A d \in Deliveries, a \in Actions : Gone(d, a) => Gone(d, a)',
           \A k \in gone : attempt[k] = "none" \/ Gone(k[1], k[2])',
           \A d \in Deliveries, a \in Actions, m, n \in Numbers :
              <<d, a, m>> \in gone => <<d, a, n>> \in gone
    PROVE  IInv'
<1>v. UNCHANGED <<pc, work, due, job, key, res, crashes, calls, acked, carried>>
  BY DEF workerVars, locals, receivers
<1>1. /\ \A k \in Keys : attempt'[k] = IF k \in gone THEN "none" ELSE attempt[k]
      /\ scheduled' = scheduled \ gone
      /\ scheduled \in SUBSET Keys
  BY DEF DeleteAttempts, IInv, TypeOK, StoreTypeOK
<1>2. Rungs'
  <2> SUFFICES ASSUME NEW k \in Keys, attempt'[k] # "none"
               PROVE  /\ k[3] <= Top
                      /\ \A m \in 1 .. (k[3] - 1) :
                            attempt'[<<k[1], k[2], m>>] = "failed"
    BY DEF Rungs
  <2>1. k \notin gone /\ attempt[k] # "none"
    BY <1>1
  <2>2. /\ k[3] <= Top
        /\ \A m \in 1 .. (k[3] - 1) : attempt[<<k[1], k[2], m>>] = "failed"
    BY <2>1 DEF IInv, Ladder, Rungs
  <2>3. /\ k[1] \in Deliveries /\ k[2] \in Actions /\ k[3] \in Numbers
        /\ k = <<k[1], k[2], k[3]>>
    BY DEF Keys
  <2>4. \A m \in 1 .. (k[3] - 1) : /\ m \in Numbers
                                   /\ <<k[1], k[2], m>> \in Keys
    BY <2>3, BoundsAssumption DEF Keys, Numbers, Top
  <2>5. \A m \in 1 .. (k[3] - 1) : <<k[1], k[2], m>> \notin gone
    BY <2>1, <2>3, <2>4
  <2> QED BY <2>2, <2>4, <2>5, <1>1
<1>3. Locals' /\ Exclusive'
  BY <1>v DEF IInv, Ladder, Locals, Exclusive, InFlight, PairOf
<1>4. Retries'
  <2>1. \A k \in scheduled' : attempt'[k] = "failed" /\ HasRetry(k[3])
    BY <1>1 DEF IInv, Ladder, Retries
  <2>2. ASSUME NEW h \in RetryPollers, NEW k \in Keys, k \in HeldRetries(h)'
        PROVE  HasRetry(k[3]) /\ (attempt'[k] = "failed" \/ Gone(k[1], k[2])')
    <3>1. HasRetry(k[3]) /\ (attempt[k] = "failed" \/ Gone(k[1], k[2]))
      BY <2>2, <1>v DEF HeldRetries, IInv, Ladder, Retries
    <3>2. k[1] \in Deliveries /\ k[2] \in Actions
      BY DEF Keys
    <3> QED BY <3>1, <3>2, <1>1
  <2> QED BY <2>1, <2>2 DEF Retries
<1>5. Flights'
  <2> SUFFICES ASSUME NEW h \in Goroutines, InFlight(h)
               PROVE  Flight(h)'
    BY <1>v DEF Flights, InFlight
  <2>1. Flight(h) /\ key[h] \in Keys
    BY DEF IInv, Ladder, Flights, TypeOK, WorkerTypeOK, InFlight
  <2>2. key[h][1] \in Deliveries /\ key[h][2] \in Actions
    BY <2>1 DEF Keys
  <2>3. attempt'[key[h]] = "pending" \/ Gone(key[h][1], key[h][2])'
    BY <2>1, <2>2, <1>1, <1>v DEF Flight, Gone
  <2> QED BY <2>1, <2>3, <1>v DEF Flight, PairOf, Gone
<1>6. Calls'
  <2>1. ASSUME NEW k \in Keys, attempt'[k] \in {"success", "failed"}
        PROVE  calls[PairOf(k)] >= k[3]
    BY <2>1, <1>1 DEF IInv, Ladder, Calls
  <2>2. ASSUME NEW d \in Deliveries, NEW a \in Actions
        PROVE  LET n == calls[<<d, a>>] IN
               /\ n <= Top
               /\ n > 0 /\ ~Gone(d, a)' => attempt'[<<d, a, n>>] # "none"
               /\ <<d, a>> \in acked => n > 0
               /\ <<d, a>> \in acked /\ ~Gone(d, a)' =>
                      attempt'[<<d, a, n>>] # "failed"
    <3> DEFINE n == calls[<<d, a>>]
    <3>1. /\ n <= Top /\ n \in Nat
          /\ n > 0 /\ ~Gone(d, a) => attempt[<<d, a, n>>] # "none"
          /\ <<d, a>> \in acked => n > 0
          /\ <<d, a>> \in acked /\ ~Gone(d, a) => attempt[<<d, a, n>>] # "failed"
      BY DEF IInv, Ladder, Calls, TypeOK, WorkerTypeOK, Pairs
    <3>2. n > 0 => <<d, a, n>> \in Keys
      BY <3>1, BoundsAssumption DEF Keys, Numbers, Top
    <3>3. ~Gone(d, a)' => ~Gone(d, a)
      OBVIOUS
    <3>4. n > 0 /\ ~Gone(d, a)' => <<d, a, n>> \notin gone
      BY <3>1, <3>3
    <3> QED BY <3>1, <3>2, <3>3, <3>4, <1>1
  <2> QED BY <2>1, <2>2, <1>v DEF Calls, PairOf
<1> QED BY <1>2, <1>3, <1>4, <1>5, <1>6 DEF IInv, Ladder

LEMMA DeleteActionInv ==
    ASSUME IInv, UNCHANGED workerVars, NEW a \in Actions, DeleteAction(a)
    PROVE  IInv'
<1> DEFINE gone == {k \in Keys : k[2] = a}
<1>1. /\ action' = [action EXCEPT ![a] = "deleted"]
      /\ DeleteAttempts(gone) /\ Edit
      /\ UNCHANGED <<mode, scripted, transforms, status, transformed>>
  BY DEF DeleteAction, RemoveAction
<1>2. TypeOK'
  <2>1. ApiTypeOK'
    BY <1>1, EditType DEF IInv, TypeOK
  <2>2. /\ attempt' \in [Keys -> AttemptStatuses]
        /\ scheduled' \in SUBSET Keys
    BY <1>1 DEF DeleteAttempts, AttemptStatuses, IInv, TypeOK, StoreTypeOK
  <2>3. StoreTypeOK'
    BY <1>1, <2>2 DEF Edit, redis, ActionStates, IInv, TypeOK, StoreTypeOK
  <2>4. WorkerTypeOK'
    BY DEF IInv, TypeOK, WorkerTypeOK, workerVars, locals, receivers
  <2> QED BY <2>1, <2>3, <2>4 DEF TypeOK
<1>3. \A b \in Actions : action'[b] = IF b = a THEN "deleted" ELSE action[b]
  BY <1>1 DEF IInv, TypeOK, StoreTypeOK
<1>4. RowsExist'
  <2>1. ASSUME NEW k \in Keys, attempt'[k] # "none"
        PROVE  DeliveryExists(k[1])' /\ ActionExists(k[2])'
    <3>1. k[2] # a /\ attempt[k] # "none" /\ k[2] \in Actions
      BY <2>1, <1>1 DEF DeleteAttempts, Keys
    <3> QED BY <3>1, <1>1, <1>3 DEF IInv, Ladder, RowsExist, DeliveryExists,
       ActionExists
  <2> QED BY <2>1, <1>1 DEF IInv, Ladder, RowsExist, DeliveryExists
<1>5. \A d \in Deliveries, b \in Actions : Gone(d, b) => Gone(d, b)'
  BY <1>1, <1>3 DEF Gone
<1>6. \A k \in gone : Gone(k[1], k[2])'
  BY <1>3 DEF Gone
<1>7. \A d \in Deliveries, b \in Actions, m, n \in Numbers :
         <<d, b, m>> \in gone => <<d, b, n>> \in gone
  BY DEF Keys
<1> HIDE DEF gone
<1>8. gone \in SUBSET Keys
  BY DEF gone
<1> QED BY <1>1, <1>2, <1>4, <1>5, <1>6, <1>7, <1>8, DeletionInv

LEMMA DeleteSourceInv ==
    ASSUME IInv, UNCHANGED workerVars, NEW s \in Sources, DeleteSource(s)
    PROVE  IInv'
<1> DEFINE gone == {k \in Keys : s \in {SourceOf[k[1]], OwnerOf[k[2]]}}
<1>1. /\ mode' = [mode EXCEPT ![s] = "deleted"]
      /\ action' = [a \in Actions |-> IF OwnerOf[a] = s /\ ActionExists(a)
                                      THEN "deleted" ELSE action[a]]
      /\ status' = [d \in Deliveries |-> IF SourceOf[d] = s THEN "none"
                                                            ELSE status[d]]
      /\ DeleteAttempts(gone) /\ Edit
      /\ UNCHANGED <<scripted, transforms, transformed>>
  BY DEF DeleteSource, RemoveSource
<1>2. TypeOK'
  <2>1. ApiTypeOK'
    BY <1>1, EditType DEF IInv, TypeOK
  <2>2. /\ attempt' \in [Keys -> AttemptStatuses]
        /\ scheduled' \in SUBSET Keys
    BY <1>1 DEF DeleteAttempts, AttemptStatuses, IInv, TypeOK, StoreTypeOK
  <2>3. /\ mode' \in [Sources -> Modes]
        /\ action' \in [Actions -> ActionStates]
        /\ status' \in [Deliveries -> Statuses]
    BY <1>1 DEF Modes, ActionStates, Statuses, IInv, TypeOK, StoreTypeOK
  <2>4. StoreTypeOK'
    BY <1>1, <2>2, <2>3 DEF Edit, redis, IInv, TypeOK, StoreTypeOK
  <2>5. WorkerTypeOK'
    BY DEF IInv, TypeOK, WorkerTypeOK, workerVars, locals, receivers
  <2> QED BY <2>1, <2>4, <2>5 DEF TypeOK
<1>3. /\ \A d \in Deliveries : /\ SourceOf[d] \in Sources
                               /\ mode'[SourceOf[d]] = IF SourceOf[d] = s
                                     THEN "deleted" ELSE mode[SourceOf[d]]
                               /\ status'[d] = IF SourceOf[d] = s THEN "none"
                                                                  ELSE status[d]
      /\ \A a \in Actions : action'[a] = IF OwnerOf[a] = s /\ ActionExists(a)
                                         THEN "deleted" ELSE action[a]
  BY <1>1, TablesAssumption DEF IInv, TypeOK, StoreTypeOK
<1>k. \A k \in Keys : k[1] \in Deliveries /\ k[2] \in Actions
  BY DEF Keys
<1>4. RowsExist'
  <2>1. ASSUME NEW k \in Keys, attempt'[k] # "none"
        PROVE  DeliveryExists(k[1])' /\ ActionExists(k[2])'
    <3>1. k \notin gone /\ attempt[k] # "none"
      BY <2>1, <1>1 DEF DeleteAttempts
    <3>2. SourceOf[k[1]] # s /\ OwnerOf[k[2]] # s
      BY <3>1
    <3> QED BY <3>1, <3>2, <1>3, <1>k DEF IInv, Ladder, RowsExist, DeliveryExists,
       ActionExists
  <2> QED BY <2>1, <1>3 DEF IInv, Ladder, RowsExist, DeliveryExists
<1>5. \A d \in Deliveries, a \in Actions : Gone(d, a) => Gone(d, a)'
  BY <1>3 DEF Gone, ActionExists
<1>6. \A k \in gone : attempt[k] = "none" \/ Gone(k[1], k[2])'
  BY <1>3, <1>k DEF Gone, IInv, Ladder, RowsExist
<1>7. \A d \in Deliveries, a \in Actions, m, n \in Numbers :
         <<d, a, m>> \in gone => <<d, a, n>> \in gone
  BY DEF Keys
<1> HIDE DEF gone
<1>8. gone \in SUBSET Keys
  BY DEF gone
<1> QED BY <1>1, <1>2, <1>4, <1>5, <1>6, <1>7, <1>8, DeletionInv

LEMMA OtherInv ==
    ASSUME IInv, \/ CrashApi /\ UNCHANGED workerVars
                 \/ RedisLosesData /\ UNCHANGED <<workerVars, apiVars>>
    PROVE  IInv'
<1>1. CASE CrashApi /\ UNCHANGED workerVars
  <2>1. ApiTypeOK'
    BY <1>1, ApiAssumption DEF CrashApi, IInv, TypeOK, ApiTypeOK
  <2>2. StoreTypeOK'
    BY <1>1 DEF CrashApi, storeVars, tables, redis, IInv, TypeOK, StoreTypeOK
  <2>3. TablesStay
    BY <1>1 DEF CrashApi, TablesStay, storeVars, tables, workerVars, receivers,
       ActionExists
  <2> QED BY <1>1, <2>1, <2>2, <2>3, ApiStepInv
<1>2. CASE RedisLosesData /\ UNCHANGED <<workerVars, apiVars>>
  <2>1. ApiTypeOK' /\ UNCHANGED workerVars
    BY <1>2 DEF apiVars, IInv, TypeOK, ApiTypeOK
  <2>2. redisFaults' \in 0 .. MaxRedisFaults
    BY <1>2, RedisType DEF RedisLosesData, IInv, TypeOK, StoreTypeOK
  <2>3. StoreTypeOK'
    BY <1>2, <2>2 DEF RedisLosesData, tables, IInv, TypeOK, StoreTypeOK
  <2>4. TablesStay
    BY <1>2 DEF RedisLosesData, TablesStay, tables, workerVars, receivers, ActionExists
  <2> QED BY <2>1, <2>3, <2>4, ApiStepInv
<1> QED BY <1>1, <1>2

LEMMA StutterInv ==
    ASSUME IInv, UNCHANGED vars
    PROVE  IInv'
<1>1. UNCHANGED workerVars /\ UNCHANGED apiVars /\ UNCHANGED storeVars
  BY DEF vars
<1>2. ApiTypeOK' /\ StoreTypeOK'
  BY <1>1 DEF apiVars, storeVars, tables, redis, IInv, TypeOK, ApiTypeOK, StoreTypeOK
<1>3. TablesStay
  BY <1>1 DEF TablesStay, storeVars, tables, workerVars, receivers, ActionExists
<1> QED BY <1>1, <1>2, <1>3, ApiStepInv

-----------------------------------------------------------------------------
(* The theorems                                                             *)

LEMMA InitInv == Init => IInv
<1> SUFFICES ASSUME Init PROVE IInv
  OBVIOUS
<1> USE DEF Init, WorkerInit, ApiInit
<1>1. StoreTypeOK
  BY ConfigurationAssumption, BoundsAssumption
     DEF StoreTypeOK, Modes, LiveModes, ActionStates, Statuses, AttemptStatuses
<1>2. WorkerTypeOK
  BY GoroutinesAssumption DEF WorkerTypeOK
<1>3. ApiTypeOK
  BY ApiAssumption DEF ApiTypeOK
<1>4. Locals /\ Exclusive /\ Flights
  BY DEF Locals, Exclusive, Flights, InFlight
<1>5. RowsExist
  <2>1. \A k \in Keys : attempt[k] = "none"
    OBVIOUS
  <2>2. \A d \in Deliveries : status[d] = "none"
    OBVIOUS
  <2> QED BY <2>1, <2>2 DEF RowsExist
<1>6. Rungs
  BY DEF Rungs
<1>7. Retries
  BY DEF Retries, HeldRetries, Goroutines
<1>8. Calls
  <2>1. \A p \in Pairs : calls[p] = 0
    OBVIOUS
  <2>2. \A d \in Deliveries, a \in Actions : <<d, a>> \in Pairs
    BY DEF Pairs
  <2>3. 0 <= Top
    BY BoundsAssumption DEF Top
  <2>4. \A k \in Keys : attempt[k] = "none"
    OBVIOUS
  <2> QED BY <2>1, <2>2, <2>3, <2>4 DEF Calls
<1> QED BY <1>1, <1>2, <1>3, <1>4, <1>5, <1>6, <1>7, <1>8 DEF IInv, TypeOK, Ladder

LEMMA NextInv == IInv /\ [Next]_vars => IInv'
<1> SUFFICES ASSUME IInv, [Next]_vars PROVE IInv'
  OBVIOUS
<1>1. CASE WorkerNext /\ UNCHANGED apiVars
  BY <1>1, StepsInv, CrashWorkerInv DEF WorkerNext
<1>2. CASE ApiNext /\ UNCHANGED workerVars
  <2>1. CASE \E h \in Handlers : Ingest(h) \/ Forward(h) \/ Handle(h)
    BY <1>2, <2>1, RequestInv, HandleInv
  <2>2. CASE \E s \in Sources : CreateSource(s) \/ UpdateSource(s) \/ DeleteSource(s)
    BY <1>2, <2>2, ChangeInv, DeleteSourceInv
  <2>3. CASE \E a \in Actions : CreateAction(a) \/ UpdateAction(a) \/ DeleteAction(a)
    BY <1>2, <2>3, ChangeInv, DeleteActionInv
  <2>4. CASE CrashApi
    BY <1>2, <2>4, OtherInv
  <2> QED BY <1>2, <2>1, <2>2, <2>3, <2>4 DEF ApiNext
<1>3. CASE RedisLosesData /\ UNCHANGED <<workerVars, apiVars>>
  BY <1>3, OtherInv
<1>4. CASE UNCHANGED vars
  BY <1>4, StutterInv
<1> QED BY <1>1, <1>2, <1>3, <1>4 DEF Next

(* In every behaviour of the gateway the types hold and so does the ladder. *)
THEOREM InductiveInvariant == Spec => []IInv
<1>1. Init => IInv
  BY InitInv
<1>2. IInv /\ [Next]_vars => IInv'
  BY NextInv
<1> QED BY <1>1, <1>2, PTL DEF Spec

(* Every variable keeps its type: rows, messages, locals and what the       *)
(* receivers saw.                                                           *)
THEOREM TypeCorrect == Spec => []TypeOK
<1>1. IInv => TypeOK
  BY DEF IInv
<1> QED BY <1>1, InductiveInvariant, PTL

(* Attempts are numbered without gaps, retries are held only for failed     *)
(* attempts that are not the last, and whoever has inserted an attempt is   *)
(* alone with its delivery and action until it records the result.          *)
THEOREM LadderInvariant == Spec => []Ladder
<1>1. IInv => Ladder
  BY DEF IInv
<1> QED BY <1>1, InductiveInvariant, PTL

(* However many replicas, consumers and pollers run, the calls of one       *)
(* delivery to one action never overlap.                                    *)
THEOREM NoOverlap == Spec => []OneCallAtATime
<1>1. IInv => OneCallAtATime
  BY DEF IInv, Ladder, Exclusive, InFlight, OneCallAtATime
<1> QED BY <1>1, InductiveInvariant, PTL

(* A call is a call of the contract; every other step is invisible to the   *)
(* receivers.                                                               *)
LEMMA CallsOnly ==
    ASSUME IInv, [Next]_vars
    PROVE  [Contract!Next]_<<calls, acked>>
<1>1. ASSUME NEW g \in Goroutines, Dispatch(g)
      PROVE  Contract!Next
  <2> DEFINE p == <<key[g][1], key[g][2]>>
  <2>1. pc[g] = "send" /\ key[g] \in Keys /\ InFlight(g)
    BY <1>1 DEF Dispatch, IInv, TypeOK, WorkerTypeOK, InFlight
  <2>2. p \in Pairs /\ key[g][3] \in Nat
    BY <2>1, BoundsAssumption DEF Keys, Pairs, Numbers
  <2>3. /\ key[g][3] <= Top /\ calls[p] + 1 = key[g][3] /\ p \notin acked
    BY <2>1 DEF IInv, Ladder, Flights, Flight, PairOf
  <2>4. calls[p] < Top
    BY <2>2, <2>3, BoundsAssumption DEF Top, IInv, TypeOK, WorkerTypeOK
  <2>5. calls' = [calls EXCEPT ![p] = @ + 1]
    BY <1>1 DEF Dispatch
  <2>6. acked' = acked \/ acked' = acked \cup {p}
    BY <1>1 DEF Dispatch
  <2>7. Contract!Call(p)
    BY <2>3, <2>4, <2>5, <2>6 DEF Contract!Call, Contract!Most, Top
  <2> HIDE DEF p
  <2> QED BY <2>2, <2>7 DEF Contract!Next, Contract!Pairs, Pairs
<1>2. ASSUME NEW g \in Goroutines, Step(g), ~Dispatch(g)
      PROVE  UNCHANGED <<calls, acked>>
  BY <1>2 DEF Step, Poll, ProcessDelivery, DispatchAction, RetryAttempt, RollUp,
     Receive, ListPending, ListRetryable, GetDelivery, GetSource, Claim, ListActions,
     StoreTransformed, CreateAttempt, RecordResult, GetRetryDelivery, GetAction,
     ClearRetry, RollUpActions, RollUpAttempts, WriteStatus, receivers
<1>3. ASSUME NEW r \in Replicas, CrashWorker(r)
      PROVE  UNCHANGED <<calls, acked>>
  BY <1>3 DEF CrashWorker, receivers
<1>4. UNCHANGED workerVars => UNCHANGED <<calls, acked>>
  BY DEF workerVars, receivers
<1>5. UNCHANGED vars => UNCHANGED workerVars
  BY DEF vars
<1> QED BY <1>1, <1>2, <1>3, <1>4, <1>5 DEF Next, WorkerNext

(* The gateway keeps the contract it offers to the receivers of actions.    *)
THEOREM KeepsContract == Spec => ReceiverContract
<1>1. Init => Contract!Init
  BY DEF Init, WorkerInit, Contract!Init, Contract!Pairs, Pairs
<1>2. IInv /\ [Next]_vars => [Contract!Next]_<<calls, acked>>
  BY CallsOnly
<1> QED BY <1>1, <1>2, InductiveInvariant, PTL DEF Spec, ReceiverContract, Contract!Spec
=============================================================================
