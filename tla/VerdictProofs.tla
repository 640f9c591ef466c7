--------------------------- MODULE VerdictProofs ---------------------------
(***************************************************************************)
(* A delivery's terminal status is earned: for all values of the           *)
(* constants, however the roll-ups of several goroutines interleave with   *)
(* their attempts.                                                         *)
(***************************************************************************)
EXTENDS GatewaySteps

USE DEF Terminal

SuccessIsAcked == \A k \in Keys : attempt[k] = "success" => PairOf(k) \in acked
AllJudge == edits = 0 => \A g \in Goroutines : pc[g] # "idle" => Judges(g)

LEMMA VerdictInit == Init => VerdictsAreEarned
<1> SUFFICES ASSUME Init PROVE SuccessIsAcked /\ VerdictIsEarned /\ AllJudge
  BY DEF VerdictsAreEarned, SuccessIsAcked, AllJudge
<1>1. SuccessIsAcked
  BY DEF Init, SuccessIsAcked
<1>2. VerdictIsEarned
  <2>1. \A d \in Deliveries : status[d] \notin Terminal
    BY DEF Init
  <2> QED BY <2>1 DEF VerdictIsEarned
<1>3. AllJudge
  BY DEF Init, WorkerInit, AllJudge
<1> QED BY <1>1, <1>2, <1>3

-----------------------------------------------------------------------------
(* A recorded success was answered by the receiver.                         *)

LEMMA WorkingAcked ==
    ASSUME IInv, SuccessIsAcked, NEW g \in Goroutines, Working(g)
    PROVE  SuccessIsAcked'
<1> SUFFICES ASSUME NEW k \in Keys, attempt'[k] = "success"
             PROVE  PairOf(k) \in acked'
  BY DEF SuccessIsAcked, PairOf
<1>1. acked \subseteq acked'
  BY WorkingGrows DEF Grows
<1>2. CASE RecordResult(g)
  <2>1. CASE k = key[g] /\ attempt[k] # "success"
    <3>1. InFlight(g) /\ pc[g] = "result" /\ res[g] = "success"
      BY <1>2, <2>1, RecordResultStep
    <3>2. PairOf(k) \in acked
      BY <2>1, <3>1 DEF IInv, Ladder, Flights, Flight
    <3> QED BY <1>1, <3>2
  <2>2. CASE k # key[g] \/ attempt[k] = "success"
    <3>1. attempt[k] = "success"
      BY <1>2, <2>2, RecordResultStep
    <3> QED BY <1>1, <3>1 DEF SuccessIsAcked
  <2> QED BY <2>1, <2>2
<1>3. CASE CreateAttempt(g)
  <2>1. UNCHANGED attempt \/ \E x \in Keys : attempt' = [attempt EXCEPT ![x] = "pending"]
    BY <1>3, CreateAttemptStep
  <2> QED BY <1>1, <2>1, LocalsAreFunctions DEF SuccessIsAcked
<1>4. CASE ~RecordResult(g) /\ ~CreateAttempt(g)
  <2>1. UNCHANGED attempt
    BY <1>4, GetDeliveryStep, GetSourceStep, ClaimStep, ListActionsStep,
       StoreTransformedStep, DispatchStep, GetRetryDeliveryStep, GetActionStep,
       ClearRetryStep, RollUpActionsStep, RollUpAttemptsStep, WriteStatusStep
       DEF SameRows, Working, ProcessDelivery, DispatchAction, RetryAttempt, RollUp
  <2> QED BY <1>1, <2>1 DEF SuccessIsAcked
<1> QED BY <1>2, <1>3, <1>4

(* Outside the goroutines at work attempts only vanish.                     *)
LEMMA AttemptsVanish ==
    ASSUME IInv, [Next]_vars, ~ \E g \in Goroutines : Working(g)
    PROVE  /\ UNCHANGED acked
           /\ \A k \in Keys : attempt'[k] \in {attempt[k], "none"}
<1>1. CASE WorkerNext /\ UNCHANGED apiVars
  <2>1. ASSUME NEW g \in Goroutines, Poll(g)
        PROVE  UNCHANGED <<acked, attempt>>
    BY <2>1, PollStep DEF SameRows, SameCalls
  <2>2. ASSUME NEW r \in Replicas, CrashWorker(r)
        PROVE  UNCHANGED <<acked, attempt>>
    BY <2>2, CrashStep DEF SameRows, SameCalls
  <2> QED BY <1>1, <2>1, <2>2 DEF WorkerNext, Step, Working
<1>2. CASE ApiNext /\ UNCHANGED workerVars
  <2>1. CASE \/ \E h \in Handlers : Ingest(h) \/ Forward(h) \/ Handle(h)
             \/ CrashApi
    <3>1. UNCHANGED attempt
      BY <2>1 DEF Ingest, Forward, Handle, CreateDelivery, MarkRecorded, PublishToStream,
         Rearm, ForwardToStream, Unarm, CrashApi, StatusUpdateOnly, storeVars, tables
    <3> QED BY <1>2, <3>1 DEF workerVars, receivers
  <2>2. CASE \/ \E s \in Sources : CreateSource(s) \/ UpdateSource(s) \/ DeleteSource(s)
             \/ \E a \in Actions : CreateAction(a) \/ UpdateAction(a) \/ DeleteAction(a)
    <3>1. UNCHANGED attempt \/ \E gone : DeleteAttempts(gone)
      BY <2>2 DEF CreateSource, UpdateSource, DeleteSource, CreateAction, UpdateAction,
         DeleteAction, KeepDeliveries
    <3>2. \A k \in Keys : attempt'[k] \in {attempt[k], "none"}
      BY <3>1 DEF DeleteAttempts
    <3> QED BY <1>2, <3>2 DEF workerVars, receivers
  <2> QED BY <1>2, <2>1, <2>2 DEF ApiNext
<1>3. CASE RedisLosesData /\ UNCHANGED <<workerVars, apiVars>>
  BY <1>3 DEF RedisLosesData, tables, workerVars, receivers
<1>4. CASE UNCHANGED vars
  BY <1>4 DEF vars, storeVars, tables, workerVars, receivers
<1> QED BY <1>1, <1>2, <1>3, <1>4 DEF Next

LEMMA AckedStep ==
    ASSUME IInv, SuccessIsAcked, [Next]_vars
    PROVE  SuccessIsAcked'
<1>1. CASE \E g \in Goroutines : Working(g)
  BY <1>1, WorkingAcked
<1>2. CASE ~ \E g \in Goroutines : Working(g)
  BY <1>2, AttemptsVanish DEF SuccessIsAcked, PairOf
<1> QED BY <1>1, <1>2

-----------------------------------------------------------------------------
(* What was earned stays earned.                                            *)

(* Calls and answers only add up, and no pair is called more than Top times.*)
EarnedOn ==
    /\ UNCHANGED <<scripted, action>>
    /\ \A p \in Pairs : calls[p] <= calls'[p]
    /\ acked \subseteq acked'
    /\ \A p \in Pairs : p \in acked' => p \in acked \/ calls[p] < calls'[p]

(* Earned, of the state after the step.                                     *)
EarnedAfter(d, verdict) ==
    LET acts == ListActiveBySource(SourceOf[d])
        unserved == {a \in acts : <<d, a>> \notin acked'}
    IN /\ \A a \in unserved : calls'[<<d, a>>] = Top
       /\ verdict = "completed" => unserved = {}
       /\ verdict = "failed" => unserved # {}

LEMMA AfterIsPrimed ==
    ASSUME EarnedOn
    PROVE  /\ \A d : Earned(d, status[d])' <=> EarnedAfter(d, status'[d])
           /\ \A g : Earned(job[g].id, res[g])' <=> EarnedAfter(job'[g].id, res'[g])
<1>1. \A s : ListActiveBySource(s)' = ListActiveBySource(s)
  BY DEF EarnedOn, ListActiveBySource
<1>2. Top' = Top
  BY DEF Top
<1>3. \A d : Earned(d, status[d])' <=> EarnedAfter(d, status'[d])
  BY <1>2 DEF Earned, EarnedAfter, Used, EarnedOn, ListActiveBySource
<1>4. \A g : Earned(job[g].id, res[g])' <=> EarnedAfter(job'[g].id, res'[g])
  BY <1>2 DEF Earned, EarnedAfter, Used, EarnedOn, ListActiveBySource
<1> QED BY <1>3, <1>4

LEMMA StillEarned ==
    ASSUME IInv, IInv', EarnedOn, NEW d \in Deliveries, NEW v, Earned(d, v)
    PROVE  EarnedAfter(d, v)
<1> DEFINE acts == ListActiveBySource(SourceOf[d])
<1>1. acts \subseteq Actions
  BY DEF ListActiveBySource
<1>2. ASSUME NEW a \in acts, Used(d, a)
      PROVE  /\ calls'[<<d, a>>] = Top
             /\ <<d, a>> \notin acked => <<d, a>> \notin acked'
  <2>1. <<d, a>> \in Pairs /\ a \in Actions
    BY <1>1 DEF Pairs
  <2>2. /\ calls[<<d, a>>] = Top /\ calls[<<d, a>>] <= calls'[<<d, a>>]
        /\ calls'[<<d, a>>] <= Top
    BY <1>2, <2>1 DEF Used, EarnedOn, IInv, Ladder, Calls, Top
  <2>3. calls'[<<d, a>>] \in Nat /\ Top \in Nat
    BY <2>1, BoundsAssumption DEF IInv, TypeOK, WorkerTypeOK, Top
  <2>4. calls'[<<d, a>>] = Top
    BY <2>2, <2>3
  <2>5. <<d, a>> \in acked' => <<d, a>> \in acked \/ calls[<<d, a>>] < calls'[<<d, a>>]
    BY <2>1 DEF EarnedOn
  <2> QED BY <2>2, <2>3, <2>4, <2>5
<1>3. acked \subseteq acked'
  BY DEF EarnedOn
<1>4. /\ \A a \in acts : <<d, a>> \notin acked => Used(d, a)
      /\ v = "completed" => \A a \in acts : <<d, a>> \in acked
      /\ v = "failed" => \E a \in acts : <<d, a>> \notin acked
  BY DEF Earned
<1> HIDE DEF acts
<1>5. /\ \A a \in acts : <<d, a>> \notin acked' => calls'[<<d, a>>] = Top
      /\ v = "completed" => \A a \in acts : <<d, a>> \in acked'
      /\ v = "failed" => \E a \in acts : <<d, a>> \notin acked'
  BY <1>2, <1>3, <1>4
<1> QED BY <1>5 DEF EarnedAfter, acts

LEMMA StillJudges ==
    ASSUME IInv, IInv', EarnedOn, NEW g \in Goroutines, pc[g] # "idle", Judges(g),
           pc'[g] = pc[g], job'[g] = job[g], res'[g] = res[g]
    PROVE  Judges(g)'
<1>1. Earned(job[g].id, res[g]) => Earned(job[g].id, res[g])'
  BY JobOf, StillEarned, AfterIsPrimed
<1>2. ListActiveBySource(SourceOf[job[g].id])' = ListActiveBySource(SourceOf[job[g].id])
  BY DEF EarnedOn, ListActiveBySource
<1> QED BY <1>1, <1>2 DEF Judges, EarnedOn

-----------------------------------------------------------------------------
(* The roll-up's verdict.                                                   *)

LEMMA ExhaustedIsUsed ==
    ASSUME IInv, NEW d \in Deliveries, NEW a \in Actions, Exhausted(d, a)
    PROVE  Used(d, a) /\ <<d, a>> \notin acked
<1>1. PICK n \in Numbers : attempt[<<d, a, n>>] = "failed" /\ ~HasRetry(n)
  BY DEF Exhausted, LatestIs
<1>2. <<d, a, n>> \in Keys /\ <<d, a>> \in Pairs
  BY DEF Keys, Pairs
<1>3. n <= Top /\ calls[<<d, a>>] >= n /\ calls[<<d, a>>] <= Top
  BY <1>1, <1>2 DEF IInv, Ladder, Rungs, Calls, PairOf
<1>4. n \in Nat /\ n >= 1 /\ n >= MaxRetries /\ calls[<<d, a>>] \in Nat
  BY <1>1, <1>2, BoundsAssumption, LocalsAreFunctions DEF Numbers, HasRetry
<1>5. n = Top /\ calls[<<d, a>>] = Top
  BY <1>3, <1>4, BoundsAssumption DEF Top
<1>6. ~Gone(d, a)
  BY <1>1, <1>2 DEF IInv, Ladder, RowsExist, Gone, DeliveryExists, ActionExists
<1>7. <<d, a>> \notin acked
  BY <1>1, <1>5, <1>6 DEF IInv, Ladder, Calls
<1> QED BY <1>5, <1>7 DEF Used

LEMMA RollUpEarns ==
    ASSUME IInv, SuccessIsAcked, NEW g \in Goroutines, RollUpAttempts(g), Judges(g),
           pc'[g] # "idle"
    PROVE  Earned(job[g].id, res'[g]) /\ pc'[g] = "close" /\ job'[g] = job[g]
<1> DEFINE d == job[g].id
           acts == ListActiveBySource(SourceOf[d])
<1>1. /\ pc[g] = "rollAttempts" /\ pc'[g] = "close" /\ job'[g] = job[g]
      /\ \A a \in job[g].acts : Delivered(d, a) \/ Exhausted(d, a)
      /\ res'[g] = IF \E a \in job[g].acts : Exhausted(d, a) THEN "failed" ELSE "completed"
  BY RollUpAttemptsStep
<1>2. d \in Deliveries /\ job[g].acts = acts /\ acts \subseteq Actions
  BY <1>1, JobOf DEF Judges, ListActiveBySource
<1>3. \A a \in acts : Delivered(d, a) => <<d, a>> \in acked
  <2> SUFFICES ASSUME NEW a \in acts, NEW n \in Numbers, attempt[<<d, a, n>>] = "success"
               PROVE  <<d, a>> \in acked
    BY DEF Delivered, LatestIs
  <2>1. <<d, a, n>> \in Keys
    BY <1>2 DEF Keys
  <2> QED BY <2>1 DEF SuccessIsAcked, PairOf
<1>4. \A a \in acts : Exhausted(d, a) => Used(d, a) /\ <<d, a>> \notin acked
  BY <1>2, ExhaustedIsUsed
<1> HIDE DEF d, acts
<1>5. Earned(d, res'[g])
  <2>1. \A a \in acts : <<d, a>> \notin acked => Used(d, a)
    BY <1>1, <1>2, <1>3, <1>4
  <2>2. res'[g] = "completed" => \A a \in acts : <<d, a>> \in acked
    BY <1>1, <1>2, <1>3
  <2>3. res'[g] = "failed" => \E a \in acts : <<d, a>> \notin acked
    BY <1>1, <1>2, <1>4
  <2> QED BY <2>1, <2>2, <2>3 DEF Earned, acts
<1> QED BY <1>1, <1>5 DEF d

LEMMA ProcessJudges ==
    ASSUME IInv, NEW g \in Goroutines, ProcessDelivery(g),
           pc[g] # "idle" => Judges(g), pc'[g] # "idle", Grows
    PROVE  Judges(g)'
<1>u. UNCHANGED scripted
  BY DEF Grows
<1>1. CASE GetDelivery(g)
  <2>1. pc'[g] = "source"
    BY <1>1, GetDeliveryStep DEF SameLocals
  <2> QED BY <2>1 DEF Judges
<1>2. CASE GetSource(g)
  <2>1. CASE pc'[g] = "close" /\ res'[g] = "recorded"
    BY <2>1 DEF Judges
  <2>2. CASE /\ pc'[g] = "claim" /\ job'[g].id = job[g].id
             /\ job'[g].script = scripted[SourceOf[job[g].id]]
    BY <1>u, <2>2 DEF Judges
  <2> QED BY <1>2, <2>1, <2>2, GetSourceStep
<1>3. CASE Claim(g)
  BY <1>u, <1>3, ClaimStep DEF Judges
<1>4. CASE ListActions(g)
  <2> DEFINE listed == ListActiveBySource(SourceOf[job[g].id])
  <2>1. job[g].script = scripted[SourceOf[job[g].id]] /\ UNCHANGED action
    BY <1>4, ListActionsStep DEF Judges, Grows
  <2>2. CASE pc'[g] = "close" /\ job'[g] = job[g] /\ job[g].script
    BY <1>u, <2>1, <2>2 DEF Judges
  <2>3. CASE /\ pc'[g] = "close" /\ job'[g] = job[g]
             /\ listed = {} /\ res'[g] = "completed"
    <3>1. Earned(job[g].id, res[g])'
      BY <2>1, <2>3 DEF Earned, ListActiveBySource
    <3> QED BY <2>3, <3>1 DEF Judges
  <2>4. CASE pc'[g] \in {"dispatch", "rollActions"}
    BY <2>4 DEF Judges
  <2>5. CASE pc'[g] = "store" /\ job[g].script /\ SameJob(g)
    BY <1>u, <2>1, <2>5 DEF Judges, SameJob
  <2> QED BY <1>4, <2>2, <2>3, <2>4, <2>5, ListActionsStep
<1>5. CASE StoreTransformed(g)
  BY <1>u, <1>5, StoreTransformedStep DEF Judges
<1> QED BY <1>1, <1>2, <1>3, <1>4, <1>5 DEF ProcessDelivery

LEMMA WorkingJudges ==
    ASSUME IInv, IInv', SuccessIsAcked, NEW g \in Goroutines, Working(g),
           pc[g] # "idle" => Judges(g), pc'[g] # "idle"
    PROVE  Judges(g)'
<1>g. Grows /\ EarnedOn
  BY WorkingGrows DEF Grows, EarnedOn
<1>1. CASE ProcessDelivery(g)
  BY <1>g, <1>1, ProcessJudges
<1>2. CASE DispatchAction(g) \/ RetryAttempt(g)
  <2>1. pc'[g] \in {"send", "result", "action", "dispatch", "clear", "rollActions"}
    <3>1. CASE CreateAttempt(g)
      BY <3>1, CreateAttemptStep
    <3>2. CASE Dispatch(g) \/ RecordResult(g)
      BY <3>2, DispatchStep, RecordResultStep
    <3>3. CASE RetryAttempt(g)
      BY <3>3, GetRetryDeliveryStep, GetActionStep, ClearRetryStep
         DEF RetryAttempt, SameLocals
    <3> QED BY <1>2, <3>1, <3>2, <3>3 DEF DispatchAction
  <2> QED BY <2>1 DEF Judges
<1>3. CASE RollUpActions(g)
  <2>1. /\ pc'[g] = "rollAttempts" /\ SameJob(g)
        /\ job'[g].acts = ListActiveBySource(SourceOf[job[g].id])
    BY <1>3, RollUpActionsStep
  <2>3. job'[g].acts = ListActiveBySource(SourceOf[job[g].id])'
    BY <1>g, <2>1 DEF ListActiveBySource, Grows, SameJob
  <2> QED BY <2>1, <2>3 DEF Judges
<1>4. CASE RollUpAttempts(g)
  <2>1. /\ pc[g] = "rollAttempts" /\ job[g].id \in Deliveries
    BY <1>4, RollUpAttemptsStep, JobOf
  <2>2. Earned(job[g].id, res'[g]) /\ pc'[g] = "close" /\ job'[g] = job[g]
    BY <1>4, <2>1, RollUpEarns
  <2>3. EarnedAfter(job'[g].id, res'[g])
    BY <1>g, <2>1, <2>2, StillEarned
  <2>4. Earned(job[g].id, res[g])'
    BY <1>g, <2>3, AfterIsPrimed
  <2> QED BY <2>2, <2>4 DEF Judges
<1>5. CASE WriteStatus(g)
  BY <1>5, WriteStatusStep
<1> QED BY <1>1, <1>2, <1>3, <1>4, <1>5 DEF Working, RollUp

(* The status a goroutine at work writes.                                   *)
LEMMA WorkingVerdict ==
    ASSUME IInv, IInv', NEW g \in Goroutines, Working(g), pc[g] # "idle" => Judges(g),
           NEW d \in Deliveries, ~scripted[SourceOf[d]], status'[d] \in Terminal,
           status[d] \in Terminal => Earned(d, status[d])
    PROVE  Earned(d, status[d])'
<1>e. EarnedOn
  BY WorkingGrows DEF Grows, EarnedOn
<1>1. status'[d] = status[d] \/ (WriteStatus(g) /\ job[g].id = d /\ status'[d] = res[g])
  <2>1. CASE Claim(g)
    <3>1. status' \in {status, [status EXCEPT ![job[g].id] = "processing"]}
      BY <2>1, ClaimStep DEF UpdateStatus
    <3>2. status'[d] \in {status[d], "processing"}
      BY <3>1, LocalsAreFunctions
    <3> QED BY <3>2
  <2>2. CASE WriteStatus(g)
    BY <2>2, WriteStatusStep, LocalsAreFunctions DEF UpdateStatus
  <2>3. CASE ~Claim(g) /\ ~WriteStatus(g)
    BY <2>3, GetDeliveryStep, GetSourceStep, ListActionsStep, StoreTransformedStep,
       CreateAttemptStep, DispatchStep, RecordResultStep, GetRetryDeliveryStep,
       GetActionStep, ClearRetryStep, RollUpActionsStep, RollUpAttemptsStep
       DEF SameRows, Working, ProcessDelivery, DispatchAction, RetryAttempt, RollUp
  <2> QED BY <2>1, <2>2, <2>3
<1>2. Earned(d, status'[d])
  BY <1>1, WriteStatusStep DEF Judges
<1>3. EarnedAfter(d, status'[d])
  BY <1>e, <1>2, StillEarned
<1> QED BY <1>e, <1>3, AfterIsPrimed

LEMMA VerdictStep ==
    ASSUME IInv, VerdictsAreEarned, [Next]_vars
    PROVE  VerdictsAreEarned'
<1>i. IInv'
  BY NextInv
<1>a. SuccessIsAcked /\ SuccessIsAcked'
  BY AckedStep DEF VerdictsAreEarned, SuccessIsAcked
<1> SUFFICES ASSUME edits' = 0
             PROVE  /\ \A d \in Deliveries :
                          ~scripted'[SourceOf[d]] /\ status'[d] \in Terminal =>
                              Earned(d, status[d])'
                    /\ \A g \in Goroutines : pc'[g] # "idle" => Judges(g)'
  BY <1>a DEF VerdictsAreEarned, SuccessIsAcked, VerdictIsEarned
<1>1. edits = 0 /\ (Outside \/ \E g \in Goroutines : Working(g))
  BY StepOrOutside
<1>2. /\ \A d \in Deliveries :
            ~scripted[SourceOf[d]] /\ status[d] \in Terminal => Earned(d, status[d])
      /\ \A g \in Goroutines : pc[g] # "idle" => Judges(g)
  BY <1>1 DEF VerdictsAreEarned, VerdictIsEarned
<1>3. CASE Outside
  <2>1. EarnedOn
    BY <1>3, LocalsAreFunctions DEF Outside, SameCalls, EarnedOn
  <2>2. ASSUME NEW d \in Deliveries, ~scripted'[SourceOf[d]], status'[d] \in Terminal
        PROVE  Earned(d, status[d])'
    <3>0. scripted' = scripted /\ status'[d] \in {status[d], "pending", "recorded"}
      BY <1>3 DEF Outside
    <3>1. status'[d] = status[d] /\ ~scripted[SourceOf[d]]
      BY <2>2, <3>0
    <3>2. EarnedAfter(d, status'[d])
      BY <1>i, <1>2, <2>1, <2>2, <3>1, StillEarned
    <3> QED BY <2>1, <3>2, AfterIsPrimed
  <2>3. ASSUME NEW g \in Goroutines, pc'[g] # "idle" PROVE Judges(g)'
    <3>1. pc'[g] = pc[g] /\ job'[g] = job[g] /\ res'[g] = res[g]
      BY <1>3, <2>3 DEF Outside
    <3> QED BY <1>i, <1>2, <2>1, <2>3, <3>1, StillJudges
  <2> QED BY <2>2, <2>3
<1>4. ASSUME NEW g \in Goroutines, Working(g)
      PROVE  /\ \A d \in Deliveries :
                   ~scripted'[SourceOf[d]] /\ status'[d] \in Terminal =>
                       Earned(d, status[d])'
             /\ \A h \in Goroutines : pc'[h] # "idle" => Judges(h)'
  <2>1. EarnedOn
    BY <1>4, WorkingGrows DEF Grows, EarnedOn
  <2>2. ASSUME NEW d \in Deliveries, ~scripted'[SourceOf[d]], status'[d] \in Terminal
        PROVE  Earned(d, status[d])'
    BY <1>i, <1>2, <1>4, <2>1, <2>2, WorkingVerdict DEF EarnedOn
  <2>3. ASSUME NEW h \in Goroutines, h # g, pc'[h] # "idle" PROVE Judges(h)'
    <3>1. pc'[h] = pc[h] /\ job'[h] = job[h] /\ res'[h] = res[h]
      BY <1>4, <2>3, OthersKept DEF Others
    <3> QED BY <1>i, <1>2, <2>1, <2>3, <3>1, StillJudges
  <2>4. pc'[g] # "idle" => Judges(g)'
    BY <1>i, <1>a, <1>2, <1>4, WorkingJudges
  <2> QED BY <2>2, <2>3, <2>4
<1> QED BY <1>1, <1>3, <1>4

(* Whoever is about to write a verdict has read it off attempts that still  *)
(* say so when the UPDATE arrives.                                          *)
THEOREM VerdictsEarned == Spec => []VerdictsAreEarned
<1>1. Init => VerdictsAreEarned
  BY VerdictInit
<1>2. IInv /\ VerdictsAreEarned /\ [Next]_vars => VerdictsAreEarned'
  BY VerdictStep
<1> QED BY <1>1, <1>2, InductiveInvariant, PTL DEF Spec

(* While nothing is edited, completed means that every active action        *)
(* answered with success, and failed that one never did and, like every     *)
(* other one that did not, has used up its calls.                           *)
THEOREM VerdictHolds == Spec => []VerdictIsEarned
<1>1. VerdictsAreEarned => VerdictIsEarned
  BY DEF VerdictsAreEarned
<1> QED BY <1>1, VerdictsEarned, PTL
=============================================================================
