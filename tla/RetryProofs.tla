---------------------------- MODULE RetryProofs ----------------------------
(***************************************************************************)
(* Nobody is forgotten, for all values of the constants: a failed attempt  *)
(* keeps its schedule until the next attempt is in the table, and who stops*)
(* looking after a delivery in processing leaves it to somebody.           *)
(***************************************************************************)
EXTENDS VerdictProofs, PayloadProofs

-----------------------------------------------------------------------------
(* No retry is lost                                                         *)

(* Neither statements fail nor rows are edited, and no transform skips.     *)
Undisturbed == dbFaults = 0 /\ edits = 0 /\ transforms = {}

LEMMA RetriesInit == Init => RetriesAreKept
<1> SUFFICES ASSUME Init
             PROVE  Unretried \subseteq scheduled /\ \A g \in RetryPollers : Retrying(g)
  BY DEF RetriesAreKept
<1>1. Unretried = {}
  BY DEF Init, Unretried
<1>2. \A g \in RetryPollers : pc[g] = "idle"
  BY DEF Init, WorkerInit, Goroutines
<1> QED BY <1>1, <1>2 DEF Retrying, InFlight

(* The attempt after one that has a retry is a key.                         *)
LEMMA NextOfKey ==
    ASSUME NEW k \in Keys, HasRetry(k[3])
    PROVE  NextOf(k) \in Keys
  BY BoundsAssumption DEF Keys, Numbers, Top, HasRetry, NextOf

(* A poller not disturbed by the step.                                      *)
LEMMA StillRetrying ==
    ASSUME IInv, NEW g \in RetryPollers, Retrying(g),
           pc'[g] = pc[g], job'[g] = job[g], key'[g] = key[g],
           \A k \in Keys : attempt'[k] = "none" => attempt[k] = "none"
    PROVE  Retrying(g)'
<1>1. CASE pc[g] = "clear"
  <2>1. g \in Goroutines /\ job[g].prev \in HeldRetries(g)
    BY <1>1, JobOf DEF Goroutines, HeldRetries
  <2>2. NextOf(job[g].prev) \in Keys
    BY <2>1, NextOfKey DEF IInv, Ladder, Retries, HeldRetries
  <2> QED BY <1>1, <2>2 DEF Retrying, InFlight
<1>2. CASE pc[g] # "clear"
  BY <1>2 DEF Retrying, InFlight
<1> QED BY <1>1, <1>2

(* An attempt that is there and unretried after the step was so before,     *)
(* unless the step recorded its failure.                                    *)
LEMMA StillUnretried ==
    ASSUME \A k \in Keys : attempt'[k] = "none" => attempt[k] = "none",
           NEW k \in Unretried', attempt[k] = "failed"
    PROVE  k \in Unretried
  BY NextOfKey DEF Unretried, NextOf

LEMMA CreateAttemptRetries ==
    ASSUME IInv, NothingDeleted, Undisturbed, Undisturbed',
           NEW g \in RetryPollers, Retrying(g), CreateAttempt(g)
    PROVE  Retrying(g)'
<1> DEFINE k == job[g].prev
<1>g. g \in Goroutines /\ pc[g] = "dispatch"
  BY CreateAttemptStep DEF Goroutines
<1>1. /\ k \in Keys /\ job[g].id = k[1] /\ job[g].acts = {k[2]}
      /\ k \in HeldRetries(g)
  BY <1>g, JobOf DEF Retrying, HeldRetries
<1>2. AttemptNumber(job[g]) = k[3] + 1
  BY <1>1, GoroutinesAssumption DEF AttemptNumber
<1>3. /\ SameJob(g) /\ job'[g].acts = {}
      /\ \/ pc'[g] = "send" /\ key'[g] = NextOf(k)
         \/ /\ pc'[g] = "clear"
            /\ ~CanInsertAttempt(k[1], k[2], k[3] + 1)
            /\ UNCHANGED attempt
  <2>1. PICK a \in job[g].acts :
          /\ job'[g].acts = job[g].acts \ {a}
          /\ \/ /\ pc'[g] = "send"
                /\ key'[g] = <<job[g].id, a, AttemptNumber(job[g])>>
             \/ /\ pc'[g] = IF job'[g].acts # {} THEN "dispatch"
                            ELSE IF g \in RetryPollers THEN "clear" ELSE "rollActions"
                /\ \/ dbFaults' # dbFaults
                   \/ /\ ~CanInsertAttempt(job[g].id, a, AttemptNumber(job[g]))
                      /\ UNCHANGED attempt
    BY <1>g, CreateAttemptStep
  <2>2. a = k[2] /\ job'[g].acts = {} /\ SameJob(g)
    BY <1>1, <1>g, <2>1, CreateAttemptStep
  <2>3. dbFaults' = dbFaults
    BY DEF Undisturbed
  <2> QED BY <1>1, <1>2, <2>1, <2>2, <2>3 DEF NextOf
<1>4. job'[g].prev = k
  BY <1>3 DEF SameJob
<1>5. CASE pc'[g] = "send"
  BY <1>3, <1>4, <1>5 DEF Retrying, InFlight
<1>6. CASE ~CanInsertAttempt(k[1], k[2], k[3] + 1) /\ UNCHANGED attempt
           /\ pc'[g] = "clear"
  <2>1. k[1] \in Deliveries /\ k[2] \in Actions
    BY <1>1 DEF Keys
  <2>2. ~Gone(k[1], k[2])
    BY <2>1, NothingGone DEF Undisturbed
  <2>3. attempt[k] = "failed"
    BY <1>1, <2>2 DEF IInv, Ladder, Retries
  <2>4. DeliveryExists(k[1]) /\ ActionExists(k[2])
    BY <1>1, <2>3 DEF IInv, Ladder, RowsExist
  <2>5. attempt[NextOf(k)] # "none"
    BY <1>6, <2>4 DEF CanInsertAttempt, NextOf
  <2> QED BY <1>4, <1>6, <2>5 DEF Retrying, InFlight
<1> QED BY <1>3, <1>5, <1>6

(* A step of a poller keeps what Retrying says of it.                       *)
LEMMA PollerRetries ==
    ASSUME IInv, NothingDeleted, Undisturbed, Undisturbed',
           NEW g \in RetryPollers, Retrying(g), Working(g)
    PROVE  Retrying(g)'
<1>g. g \in Goroutines /\ g \notin Fanouts
  BY GoroutinesAssumption DEF Goroutines
<1>1. CASE ProcessDelivery(g)
  BY <1>1, <1>g, JobOf, StoreTransformedStep DEF ProcessDelivery, GetDelivery,
     GetSource, Claim, ListActions
<1>2. CASE CreateAttempt(g)
  BY <1>2, CreateAttemptRetries
<1>3. CASE Dispatch(g)
  BY <1>3, <1>g, DispatchStep DEF Retrying, InFlight
<1>4. CASE RecordResult(g)
  <2>1. /\ pc[g] = "result" /\ InFlight(g) /\ job'[g] = job[g]
        /\ job[g].acts = {} /\ key[g] = NextOf(job[g].prev)
        /\ pc'[g] = "clear" /\ key[g] \in Keys
    BY <1>4, <1>g, RecordResultStep DEF Retrying
  <2>2. key[g][1] \in Deliveries /\ key[g][2] \in Actions
    BY <2>1 DEF Keys
  <2>3. attempt[key[g]] = "pending"
    BY <1>g, <2>1, <2>2, NothingGone DEF IInv, Ladder, Flights, Flight, Undisturbed
  <2>4. attempt'[key[g]] # "none"
    BY <1>4, <1>g, <2>1, <2>3, WorkingGrows DEF Grows, Working, DispatchAction
  <2> QED BY <2>1, <2>4 DEF Retrying, InFlight
<1>5. CASE GetRetryDelivery(g)
  <2>1. CASE SameLocals
    BY <1>5, <1>g, <2>1, GetRetryDeliveryStep DEF SameLocals, Retrying, InFlight
  <2>2. CASE \E k \in due[g] : /\ pc'[g] = "action" /\ job'[g].prev = k
                               /\ job'[g].acts = {k[2]}
    BY <2>2 DEF Retrying, InFlight
  <2> QED BY <1>5, <1>g, <2>1, <2>2, GetRetryDeliveryStep
<1>6. CASE GetAction(g)
  <2>1. CASE pc'[g] = "idle"
    BY <2>1 DEF Retrying, InFlight
  <2>2. CASE /\ SameJob(g) /\ job'[g].acts = job[g].acts
             /\ pc'[g] = IF job'[g].acts # {} THEN "dispatch" ELSE "clear"
    <3>1. pc[g] = "action"
      BY <1>6, <1>g, GetActionStep
    <3>2. job'[g].acts = {job'[g].prev[2]} /\ pc'[g] = "dispatch"
      BY <2>2, <3>1 DEF Retrying, SameJob
    <3> QED BY <3>2 DEF Retrying, InFlight
  <2>3. transforms = {}
    BY DEF Undisturbed
  <2> QED BY <1>6, <1>g, <2>1, <2>2, <2>3, GetActionStep
<1>7. CASE ClearRetry(g) \/ RollUp(g)
  <2>1. pc'[g] \in {"rollActions", "rollAttempts", "close", "idle"}
    BY <1>7, <1>g, ClearRetryStep, RollUpActionsStep, RollUpAttemptsStep,
       WriteStatusStep DEF RollUp
  <2> QED BY <2>1 DEF Retrying, InFlight
<1> QED BY <1>1, <1>2, <1>3, <1>4, <1>5, <1>6, <1>7 DEF Working, DispatchAction,
           RetryAttempt

(* A step of a goroutine at work leaves no failed attempt unscheduled.      *)
LEMMA WorkingUnretried ==
    ASSUME IInv, NothingDeleted, Undisturbed, Undisturbed',
           Unretried \subseteq scheduled, NEW g \in Goroutines, Working(g),
           g \in RetryPollers => Retrying(g)
    PROVE  Unretried' \subseteq scheduled'
<1> SUFFICES ASSUME NEW k \in Unretried'
             PROVE  k \in scheduled'
  OBVIOUS
<1>k. /\ k \in Keys /\ attempt'[k] = "failed" /\ HasRetry(k[3])
      /\ attempt'[NextOf(k)] = "none"
  BY DEF Unretried, NextOf
<1>o. \A j \in Keys : attempt'[j] = "none" => attempt[j] = "none"
  BY WorkingGrows DEF Grows
<1>1. CASE RecordResult(g)
  <2>1. CASE k # key[g]
    <3>1. attempt[k] = "failed" /\ (k \in scheduled' <=> k \in scheduled)
      BY <1>1, <1>k, <2>1, RecordResultStep
    <3> QED BY <1>o, <3>1, StillUnretried
  <2>2. CASE k = key[g]
    <3>1. k[1] \in Deliveries /\ k[2] \in Actions
      BY <1>k DEF Keys
    <3>2. attempt[k] = "pending"
      BY <1>1, <2>2, <3>1, RecordResultStep, NothingGone DEF IInv, Ladder, Flights,
         Flight, Undisturbed
    <3>3. res[g] = "failed"
      BY <1>1, <1>k, <2>2, <3>2, RecordResultStep
    <3>4. dbFaults' = dbFaults
      BY DEF Undisturbed
    <3> QED BY <1>1, <1>k, <2>2, <3>2, <3>3, <3>4, RecordResultStep
  <2> QED BY <2>1, <2>2
<1>2. CASE ClearRetry(g)
  <2>1. /\ pc[g] = "clear" /\ UNCHANGED attempt /\ g \in RetryPollers
        /\ scheduled \ {job[g].prev} \subseteq scheduled'
    BY <1>2, ClearRetryStep
  <2>2. k # job[g].prev
    BY <1>k, <2>1 DEF Retrying
  <2>3. k \in Unretried
    BY <1>k, <1>o, <2>1, StillUnretried
  <2> QED BY <2>1, <2>2, <2>3
<1>3. CASE ~RecordResult(g) /\ ~ClearRetry(g)
  <2>1. UNCHANGED scheduled
    BY <1>3, GetDeliveryStep, GetSourceStep, ClaimStep, ListActionsStep,
       StoreTransformedStep, CreateAttemptStep, DispatchStep, GetRetryDeliveryStep,
       GetActionStep, RollUpActionsStep, RollUpAttemptsStep, WriteStatusStep
       DEF SameRows, Working, ProcessDelivery, DispatchAction, RetryAttempt, RollUp
  <2>2. attempt[k] = "failed"
    <3>1. CASE CreateAttempt(g)
      <4>1. UNCHANGED attempt \/ \E x \in Keys :
               attempt' = [attempt EXCEPT ![x] = "pending"]
        BY <3>1, CreateAttemptStep
      <4> QED BY <1>k, <4>1, LocalsAreFunctions
    <3>2. CASE ~CreateAttempt(g)
      <4>1. UNCHANGED attempt
        BY <1>3, <3>2, GetDeliveryStep, GetSourceStep, ClaimStep, ListActionsStep,
           StoreTransformedStep, DispatchStep, GetRetryDeliveryStep, GetActionStep,
           RollUpActionsStep, RollUpAttemptsStep, WriteStatusStep
           DEF SameRows, Working, ProcessDelivery, DispatchAction, RetryAttempt, RollUp
      <4> QED BY <1>k, <4>1
    <3> QED BY <3>1, <3>2
  <2> QED BY <1>o, <2>1, <2>2, StillUnretried
<1> QED BY <1>1, <1>2, <1>3

LEMMA RetriesStep ==
    ASSUME IInv, NothingDeleted, RetriesAreKept, [Next]_vars
    PROVE  RetriesAreKept'
<1> SUFFICES ASSUME Undisturbed'
             PROVE  /\ Unretried' \subseteq scheduled'
                    /\ \A g \in RetryPollers : Retrying(g)'
  BY DEF RetriesAreKept, Undisturbed
<1>1. Outside \/ \E g \in Goroutines : Working(g)
  BY StepOrOutside DEF Undisturbed
<1>2. Undisturbed
  BY StepOrOutside, WorkingGrows, LocalsAreFunctions
     DEF Undisturbed, Outside, Grows
<1>3. Unretried \subseteq scheduled /\ \A g \in RetryPollers : Retrying(g)
  BY <1>2 DEF RetriesAreKept, Undisturbed
<1>4. CASE Outside
  <2>1. Unretried' = Unretried /\ scheduled' = scheduled
    BY <1>4 DEF Outside, Unretried
  <2>2. ASSUME NEW g \in RetryPollers PROVE Retrying(g)'
    <3>1. CASE pc'[g] = pc[g] /\ job'[g] = job[g] /\ key'[g] = key[g]
      BY <1>3, <1>4, <3>1 DEF Outside, Retrying, InFlight
    <3>2. CASE pc'[g] = "idle"
      BY <3>2 DEF Retrying, InFlight
    <3> QED BY <1>4, <3>1, <3>2 DEF Outside, Goroutines
  <2> QED BY <1>3, <2>1, <2>2
<1>5. ASSUME NEW g \in Goroutines, Working(g)
      PROVE  /\ Unretried' \subseteq scheduled'
             /\ \A h \in RetryPollers : Retrying(h)'
  <2>1. Unretried' \subseteq scheduled'
    BY <1>2, <1>3, <1>5, WorkingUnretried
  <2>2. ASSUME NEW h \in RetryPollers, h # g PROVE Retrying(h)'
    <3>1. Others(g)
      BY <1>5, OthersKept
    <3>2. \A k \in Keys : attempt'[k] = "none" => attempt[k] = "none"
      BY <1>5, WorkingGrows DEF Grows
    <3> QED BY <1>3, <2>2, <3>1, <3>2, StillRetrying DEF Others, Goroutines
  <2>3. g \in RetryPollers => Retrying(g)'
    BY <1>2, <1>3, <1>5, PollerRetries
  <2> QED BY <2>1, <2>2, <2>3
<1> QED BY <1>1, <1>4, <1>5

(* Whatever crashes, a retry poller that goes on to clear the schedule of   *)
(* an attempt has seen the next one into the table.                         *)
THEOREM RetriesKept == Spec => []RetriesAreKept
<1>1. Init => RetriesAreKept
  BY RetriesInit
<1>2. IInv /\ NothingDeleted /\ RetriesAreKept /\ [Next]_vars => RetriesAreKept'
  BY RetriesStep
<1> QED BY <1>1, <1>2, InductiveInvariant, DeletedByEdits, PTL DEF Spec

(* While no statement fails, nothing is edited and no transform skips an    *)
(* action, a failed attempt with attempts left keeps its next_retry_at      *)
(* until the next attempt exists.                                           *)
THEOREM RetryIsNotLost == Spec => []NoRetryIsLost
<1>1. RetriesAreKept => NoRetryIsLost
  BY DEF RetriesAreKept, NoRetryIsLost
<1> QED BY <1>1, RetriesKept, PTL

-----------------------------------------------------------------------------
(* A delivery in processing is attended                                     *)

(* What other invariants say of a calm system: nothing is deleted, and a    *)
(* goroutine's delivery exists and is the one of the attempt it makes.      *)
LEMMA CalmFacts ==
    ASSUME IInv, NothingDeleted, PayloadIsDecided, Calm
    PROVE  /\ \A d \in Deliveries, a \in Actions : ~Gone(d, a)
           /\ \A g \in Goroutines : pc[g] # "idle" =>
                 /\ DeliveryExists(job[g].id)
                 /\ InFlight(g) => key[g][1] = job[g].id
           /\ \A g \in RetryPollers : pc[g] # "idle" =>
                 /\ job[g].prev \in Keys /\ job[g].id = job[g].prev[1]
                 /\ attempt[job[g].prev] = "failed"
                 /\ ActionExists(job[g].prev[2])
<1>1. \A d \in Deliveries, a \in Actions : ~Gone(d, a)
  BY NothingGone DEF Calm
<1>2. \A g \in Goroutines : pc[g] # "idle" => Carries(g)
  BY DEF PayloadIsDecided, Calm
<1>3. ASSUME NEW g \in RetryPollers, pc[g] # "idle"
      PROVE  /\ job[g].prev \in Keys /\ job[g].id = job[g].prev[1]
             /\ attempt[job[g].prev] = "failed"
             /\ ActionExists(job[g].prev[2])
  <2>1. g \in Goroutines
    BY DEF Goroutines
  <2>2. job[g].prev \in Keys /\ job[g].id = job[g].prev[1]
    BY <1>3, <2>1, JobOf
  <2>3. job[g].prev \in HeldRetries(g)
    BY <1>3, <2>2 DEF HeldRetries
  <2>4. job[g].prev[1] \in Deliveries /\ job[g].prev[2] \in Actions
    BY <2>2 DEF Keys
  <2>5. attempt[job[g].prev] = "failed"
    BY <1>1, <2>2, <2>3, <2>4 DEF IInv, Ladder, Retries
  <2>6. ActionExists(job[g].prev[2])
    BY <2>2, <2>5 DEF IInv, Ladder, RowsExist
  <2> QED BY <2>2, <2>5, <2>6
<1> QED BY <1>1, <1>2, <1>3 DEF Carries

(* The last attempt of a pair bears the number of its last call, and what   *)
(* it is decides who looks after the delivery: the one who makes it, or the *)
(* schedule.  Only a success or a used-up failure leaves nobody.            *)
LEMMA Handover ==
    ASSUME IInv, NothingDeleted, PayloadIsDecided, RetriesAreKept, ProcessingIsHandedOn,
           Calm, NEW d \in Deliveries, NEW a \in Actions, Entered(d, a),
           ~Delivered(d, a), ~Exhausted(d, a)
    PROVE  \/ \E h \in Goroutines : InFlight(h) /\ job[h].id = d
           \/ \E k \in scheduled : k[1] = d
<1>1. CASE \E n \in Numbers : attempt[<<d, a, n>>] = "pending"
  <2>1. PICK n \in Numbers : attempt[<<d, a, n>>] = "pending"
    BY <1>1
  <2>2. <<d, a, n>> \in Keys
    BY DEF Keys
  <2>3. PICK h \in Goroutines : InFlight(h) /\ key[h] = <<d, a, n>>
    BY <2>1, <2>2 DEF ProcessingIsHandedOn
  <2>4. job[h].id = d
    BY <2>3, CalmFacts DEF InFlight
  <2> QED BY <2>3, <2>4
<1>2. CASE \A n \in Numbers : attempt[<<d, a, n>>] # "pending"
  <2> DEFINE n == calls[<<d, a>>]
  <2>1. \A m \in Numbers : <<d, a, m>> \in Keys
    BY DEF Keys
  <2>n. <<d, a>> \in Pairs /\ n \in Nat
    BY LocalsAreFunctions DEF Pairs
  <2>2. \A m \in NumbersOf(d, a) : m <= n
    <3> SUFFICES ASSUME NEW m \in Numbers, attempt[<<d, a, m>>] # "none"
                 PROVE  m <= n
      BY DEF NumbersOf
    <3>1. attempt[<<d, a, m>>] \in {"success", "failed"}
      BY <1>2, <2>1, LocalsAreFunctions DEF AttemptStatuses
    <3>2. n >= m
      BY <2>1, <3>1 DEF IInv, Ladder, Calls, PairOf
    <3> QED BY <3>2, <2>n DEF Numbers, Top
  <2>3. 1 \in NumbersOf(d, a)
    BY BoundsAssumption DEF Entered, NumbersOf, Numbers, Top
  <2>4. n \in Numbers /\ n <= Top
    <3>1. n <= Top
      BY DEF IInv, Ladder, Calls
    <3> QED BY <2>2, <2>3, <2>n, <3>1, BoundsAssumption DEF Numbers, Top
  <2>5. attempt[<<d, a, n>>] # "none"
    BY <2>2, <2>3, <2>n, CalmFacts DEF IInv, Ladder, Calls
  <2>6. attempt[<<d, a, n>>] = "failed" /\ HasRetry(n)
    <3>1. attempt[<<d, a, n>>] \in {"success", "failed"}
      BY <1>2, <2>1, <2>4, <2>5, LocalsAreFunctions DEF AttemptStatuses
    <3>2. LatestIs(d, a, n, attempt[<<d, a, n>>])
      BY <2>2 DEF LatestIs
    <3> QED BY <2>4, <3>1, <3>2 DEF Delivered, Exhausted
  <2>7. attempt[<<d, a, n + 1>>] = "none"
    <3>1. n + 1 \in Numbers
      BY <2>4, <2>6, <2>n, BoundsAssumption DEF HasRetry, Numbers, Top
    <3> QED BY <2>2, <2>n, <3>1 DEF NumbersOf
  <2>8. <<d, a, n>> \in Unretried
    BY <2>1, <2>4, <2>6, <2>7 DEF Unretried
  <2> QED BY <2>8 DEF RetriesAreKept, Calm
<1> QED BY <1>1, <1>2

(* What the rest of the system does in a calm step: polls may add to a list,*)
(* and only a source that exists gets a delivery.                           *)
Resting == /\ Outside /\ SameLocals
           /\ \A g \in RetryPollers : due[g] \subseteq due'[g]
           /\ \A d \in Deliveries : status[d] = "none" /\ status'[d] # "none" =>
                 SourceExists(SourceOf[d])

(* A row of deliveries is made for a source that exists.                    *)
LEMMA OwnedRows ==
    ASSUME IInv, ApiNext, NEW d \in Deliveries, status[d] = "none", status'[d] # "none"
    PROVE  SourceExists(SourceOf[d])
<1>1. ASSUME NEW h \in Handlers, Handle(h) PROVE SourceExists(SourceOf[d])
  <2>1. CASE CreateDelivery(h)
    <3>1. req[h].id \in Deliveries
      BY <2>1 DEF CreateDelivery, IInv, TypeOK, ApiTypeOK, Requests
    <3>2. PICK x \in Deliveries : x = req[h].id
      BY <3>1
    <3>3. \/ UNCHANGED status
          \/ /\ CanInsertDelivery(x)
             /\ status' \in {status, [status EXCEPT ![x] = "pending"]}
      BY <2>1, <3>2 DEF CreateDelivery
    <3> QED BY <3>2, <3>3, LocalsAreFunctions DEF CanInsertDelivery
  <2>2. CASE ~CreateDelivery(h)
    <3>1. \/ UNCHANGED status
          \/ \E o, st : UpdateStatus(o, req[h].id, st)
      BY <1>1, <2>2 DEF Handle, MarkRecorded, PublishToStream, Rearm, ForwardToStream,
         Unarm, tables
    <3>2. req[h].id \in Deliveries
      BY <1>1 DEF Handle, CreateDelivery, MarkRecorded, PublishToStream, Rearm,
         ForwardToStream, Unarm, IInv, TypeOK, ApiTypeOK, Requests
    <3>3. UNCHANGED status \/ \E st : status' = [status EXCEPT ![req[h].id] = st]
                                       /\ status[req[h].id] # "none"
      BY <3>1 DEF UpdateStatus, DeliveryExists
    <3> QED BY <3>2, <3>3, LocalsAreFunctions
  <2> QED BY <2>1, <2>2
<1>2. ASSUME UNCHANGED status PROVE FALSE
  BY <1>2
<1>3. ASSUME NEW s \in Sources, DeleteSource(s) PROVE FALSE
  BY <1>3, LocalsAreFunctions DEF DeleteSource
<1>4. CASE \E h \in Handlers : Ingest(h) \/ Forward(h) \/ Handle(h)
  BY <1>1, <1>2, <1>4 DEF Ingest, Forward, storeVars, tables
<1>5. CASE CrashApi
  BY <1>2, <1>5 DEF CrashApi, storeVars, tables
<1>6. CASE \E s \in Sources : CreateSource(s) \/ UpdateSource(s) \/ DeleteSource(s)
  BY <1>2, <1>3, <1>6 DEF CreateSource, UpdateSource, KeepDeliveries
<1>7. CASE \E a \in Actions : CreateAction(a) \/ UpdateAction(a) \/ DeleteAction(a)
  BY <1>2, <1>7 DEF CreateAction, UpdateAction, DeleteAction, KeepDeliveries
<1> QED BY <1>4, <1>5, <1>6, <1>7 DEF ApiNext

LEMMA CalmStep ==
    ASSUME IInv, [Next]_vars, Calm'
    PROVE  Calm /\ (Resting \/ \E g \in Goroutines : Working(g))
<1>n. crashes \in Nat /\ dbFaults \in Nat
  BY LocalsAreFunctions, GoroutinesAssumption DEF IInv, TypeOK, WorkerTypeOK
<1>1. edits = 0 /\ (Outside \/ \E g \in Goroutines : Working(g))
  BY StepOrOutside DEF Calm
<1>c. crashes = 0 /\ ~ \E r \in Replicas : CrashWorker(r)
  <2>1. ~ \E r \in Replicas : CrashWorker(r)
    BY <1>n DEF Calm, CrashWorker
  <2>2. UNCHANGED crashes
    <3>1. ASSUME NEW g \in Goroutines, Step(g) PROVE UNCHANGED crashes
      BY <3>1 DEF Step, Poll, ProcessDelivery, DispatchAction, RetryAttempt, RollUp,
         Receive, ListPending, ListRetryable, GetDelivery, GetSource, Claim, ListActions,
         StoreTransformed, CreateAttempt, Dispatch, RecordResult, GetRetryDelivery,
         GetAction, ClearRetry, RollUpActions, RollUpAttempts, WriteStatus, ReadOnly,
         StatusOnly, SqlOnly
    <3> QED BY <2>1, <3>1 DEF Next, WorkerNext, vars, workerVars
  <2> QED BY <2>1, <2>2 DEF Calm
<1>2. Calm
  <2>1. UNCHANGED transforms /\ dbFaults <= dbFaults'
    BY <1>1, WorkingGrows DEF Outside, Grows
  <2> QED BY <1>1, <1>c, <1>n, <2>1 DEF Calm
<1>3. ASSUME Outside PROVE Resting \/ \E g \in Goroutines : Working(g)
  <2>1. CASE \E g \in Goroutines : Poll(g)
    <3>1. PICK g \in Goroutines : Poll(g)
      BY <2>1
    <3>2. SameLocals /\ SameRows
      BY <3>1, PollStep
    <3>3. UNCHANGED due \/ ListRetryable(g)
      BY <3>1 DEF Poll, Receive, ListPending
    <3>4. ListRetryable(g) => \A h \in RetryPollers : due[h] \subseteq due'[h]
      <4>1. ASSUME ListRetryable(g)
            PROVE  due[g] = {} /\ \E batch : due' = [due EXCEPT ![g] = batch]
        BY <4>1 DEF ListRetryable
      <4> QED BY <4>1, LocalsAreFunctions
    <3> QED BY <1>3, <3>2, <3>3, <3>4 DEF Resting, SameRows
  <2>2. CASE ApiNext /\ UNCHANGED workerVars
    BY <1>3, <2>2, OwnedRows DEF Resting, SameLocals, workerVars, locals
  <2>3. CASE UNCHANGED <<tables, workerVars>>
    BY <1>3, <2>3 DEF Resting, SameLocals, workerVars, locals, tables
  <2> QED BY <1>c, <2>1, <2>2, <2>3 DEF Next, WorkerNext, Step, Working,
             RedisLosesData, vars, storeVars
<1> QED BY <1>1, <1>2, <1>3

Holds(g, d) == pc[g] # "idle" /\ job[g].id = d

(* A goroutine keeps its delivery until it returns.                         *)
LEMMA HoldsOn ==
    ASSUME IInv, NEW g \in Goroutines, Working(g), pc[g] # "idle", pc'[g] # "idle"
    PROVE  job'[g].id = job[g].id
<1>1. CASE GetSource(g) \/ Claim(g) \/ ListActions(g) \/ StoreTransformed(g)
  BY <1>1, GetSourceStep, ClaimStep, ListActionsStep, StoreTransformedStep DEF SameJob
<1>2. CASE DispatchAction(g)
  BY <1>2, CreateAttemptStep, DispatchStep, RecordResultStep DEF DispatchAction, SameJob
<1>3. CASE GetAction(g) \/ ClearRetry(g) \/ RollUp(g)
  BY <1>3, GetActionStep, ClearRetryStep, RollUpActionsStep, RollUpAttemptsStep,
     WriteStatusStep DEF RollUp, SameJob
<1>4. CASE GetDelivery(g) \/ GetRetryDelivery(g)
  BY <1>4, GetDeliveryStep, GetRetryDeliveryStep
<1> QED BY <1>1, <1>2, <1>3, <1>4 DEF Working, ProcessDelivery, RetryAttempt

(* In a calm system a goroutine returns at the end only, with a verdict or  *)
(* without.                                                                 *)
LEMMA ReturnsAtTheEnd ==
    ASSUME IInv, NothingDeleted, PayloadIsDecided, ProcessingIsHandedOn, Calm, Calm',
           NEW g \in Goroutines, Working(g), pc[g] # "idle", pc'[g] = "idle"
    PROVE  WriteStatus(g) \/ RollUpAttempts(g)
<1>o. \A o : Sql(o) => o = "ok"
  BY DEF Sql, Calm
<1>j. /\ job[g].id \in Deliveries /\ DeliveryExists(job[g].id)
      /\ SourceExists(SourceOf[job[g].id])
  BY JobOf, CalmFacts DEF ProcessingIsHandedOn
<1>l. /\ \A l \in {"close", "store", "claim", "list", "rollAttempts"} : ~Goto(g, l)
      /\ \A acts : ~Loop(g, acts)
  BY LocalsAreFunctions DEF Goto, Loop
<1>w. \A v : \A l \in {"close", "store"} : ~Write(g, v, l)
  BY <1>l DEF Write
<1>1. CASE GetSource(g)
  <2>1. PICK o \in Reads : /\ Sql(o)
                           /\ \/ ~(o = "ok" /\ SourceExists(SourceOf[job[g].id]))
                              \/ Write(g, "recorded", "close")
                              \/ Goto(g, "claim")
    BY <1>1, Zenon DEF GetSource
  <2> QED BY <2>1, <1>o, <1>j, <1>l, <1>w
<1>2. CASE Claim(g)
  <2>1. PICK o \in Writes : Sql(o) /\ (o # "ok" \/ Goto(g, "list"))
    BY <1>2, Zenon DEF Claim
  <2> QED BY <2>1, <1>o, <1>l
<1>3. CASE ListActions(g)
  <2>1. PICK o \in Reads : /\ Sql(o)
                           /\ \/ o = "lost"
                              \/ \E v : Write(g, v, "close") \/ Write(g, v, "store")
                              \/ \E acts : Loop(g, acts)
    BY <1>3, Zenon DEF ListActions
  <2> QED BY <2>1, <1>o, <1>l, <1>w
<1>4. CASE GetAction(g)
  <2>1. g \in RetryPollers
    BY <1>4, GetActionStep
  <2>2. PICK o \in Reads : /\ Sql(o)
                           /\ \/ ~(o = "ok" /\ ActionExists(job[g].prev[2]))
                              \/ Loop(g, job'[g].acts)
    BY <1>4, Zenon DEF GetAction
  <2> QED BY <1>o, <1>l, <2>1, <2>2, CalmFacts
<1>5. CASE RollUpActions(g)
  <2>1. PICK o \in Reads : /\ Sql(o)
                           /\ \/ ~(o = "ok" /\ DeliveryExists(job[g].id))
                              \/ Goto(g, "rollAttempts")
    BY <1>5, Zenon DEF RollUpActions
  <2> QED BY <2>1, <1>o, <1>j, <1>l
<1>6. CASE StoreTransformed(g) \/ DispatchAction(g) \/ ClearRetry(g)
  <2>1. CASE DispatchAction(g)
    BY <2>1, CreateAttemptStep, DispatchStep, RecordResultStep DEF DispatchAction
  <2> QED BY <1>6, <2>1, StoreTransformedStep, ClearRetryStep
<1>7. CASE GetDelivery(g) \/ GetRetryDelivery(g)
  BY <1>7, GetDeliveryStep, GetRetryDeliveryStep
<1> QED BY <1>1, <1>2, <1>3, <1>4, <1>5, <1>6, <1>7
           DEF Working, ProcessDelivery, RetryAttempt, RollUp

(* A step of a goroutine writes the status of its own delivery only: the    *)
(* claim, or at the end what is no longer processing.                       *)
LEMMA StatusStep ==
    ASSUME IInv, NEW g \in Goroutines, Working(g), NEW d \in Deliveries,
           status'[d] = "processing"
    PROVE  status[d] = "processing" \/ (Holds(g, d) /\ Claim(g))
<1>1. CASE Claim(g)
  <2>1. pc[g] = "claim" /\ \E o \in Writes : UpdateStatus(o, job[g].id, "processing")
    BY <1>1, ClaimStep
  <2>2. d # job[g].id => status'[d] = status[d]
    BY <2>1, LocalsAreFunctions DEF UpdateStatus
  <2> QED BY <1>1, <2>1, <2>2 DEF Holds
<1>2. CASE WriteStatus(g)
  <2>1. /\ pc[g] = "close" /\ res[g] # "processing"
        /\ \E o \in Writes : UpdateStatus(o, job[g].id, res[g])
    BY <1>2, WriteStatusStep DEF Terminal
  <2> QED BY <2>1, LocalsAreFunctions DEF UpdateStatus
<1>3. CASE ~Claim(g) /\ ~WriteStatus(g)
  <2>1. UNCHANGED status
    BY <1>3, GetDeliveryStep, GetSourceStep, ListActionsStep, StoreTransformedStep,
       CreateAttemptStep, DispatchStep, RecordResultStep, GetRetryDeliveryStep,
       GetActionStep, ClearRetryStep, RollUpActionsStep, RollUpAttemptsStep
       DEF SameRows, Working, ProcessDelivery, DispatchAction, RetryAttempt, RollUp
  <2> QED BY <2>1
<1> QED BY <1>1, <1>2, <1>3

(* A retry leaves the schedule or a list only into the hands of a goroutine *)
(* that works on its delivery.                                              *)
LEMMA RetriesMove ==
    ASSUME IInv, NothingDeleted, PayloadIsDecided, Calm, Calm',
           NEW g \in Goroutines, Working(g), NEW k \in Keys, DeliveryExists(k[1])
    PROVE  /\ k \in scheduled => k \in scheduled' \/ Holds(g, k[1])'
           /\ \A h \in RetryPollers : k \in due[h] => k \in due'[h] \/ Holds(g, k[1])'
<1>1. k \in scheduled => k \in scheduled' \/ Holds(g, k[1])'
  <2>1. CASE RecordResult(g)
    <3>1. /\ InFlight(g) /\ pc[g] # "idle" /\ pc'[g] # "idle" /\ job'[g] = job[g]
          /\ k # key[g] => (k \in scheduled' <=> k \in scheduled)
      BY <2>1, RecordResultStep
    <3>2. key[g][1] = job[g].id
      BY <3>1, CalmFacts
    <3> QED BY <3>1, <3>2 DEF Holds
  <2>2. CASE ClearRetry(g)
    <3>1. /\ pc[g] = "clear" /\ pc'[g] = "rollActions" /\ UNCHANGED job
          /\ g \in RetryPollers /\ scheduled \ {job[g].prev} \subseteq scheduled'
      BY <2>2, ClearRetryStep
    <3>2. job[g].id = job[g].prev[1]
      BY <3>1, JobOf
    <3> QED BY <3>1, <3>2 DEF Holds
  <2>3. CASE ~RecordResult(g) /\ ~ClearRetry(g)
    <3>1. UNCHANGED scheduled
      BY <2>3, GetDeliveryStep, GetSourceStep, ClaimStep, ListActionsStep,
         StoreTransformedStep, CreateAttemptStep, DispatchStep, GetRetryDeliveryStep,
         GetActionStep, RollUpActionsStep, RollUpAttemptsStep, WriteStatusStep
         DEF SameRows, Working, ProcessDelivery, DispatchAction, RetryAttempt, RollUp
    <3> QED BY <3>1
  <2> QED BY <2>1, <2>2, <2>3
<1>2. ASSUME NEW h \in RetryPollers, k \in due[h]
      PROVE  k \in due'[h] \/ Holds(g, k[1])'
  <2>1. CASE GetRetryDelivery(g)
    <3>1. PICK x \in due[g], o \in Reads :
            /\ Sql(o)
            /\ due' = [due EXCEPT ![g] = @ \ {x}]
            /\ o = "ok" /\ DeliveryExists(x[1]) =>
                 /\ job' = [job EXCEPT ![g] =
                      [id |-> x[1], force |-> FALSE, script |-> FALSE,
                       acts |-> {x[2]}, prev |-> x,
                       payload |-> IF x[1] \in transformed
                                   THEN "transformed" ELSE "original"]]
                 /\ Goto(g, "action")
      BY <2>1, Zenon DEF GetRetryDelivery
    <3>2. o = "ok"
      BY <3>1 DEF Sql, Calm
    <3>3. CASE k = x
      <4>1. job'[g].id = k[1] /\ pc'[g] = "action"
        BY <3>1, <3>2, <3>3, LocalsAreFunctions DEF Goto
      <4> QED BY <4>1 DEF Holds
    <3>4. CASE k # x
      BY <1>2, <3>1, <3>4, LocalsAreFunctions
    <3> QED BY <3>3, <3>4
  <2>2. CASE ~GetRetryDelivery(g)
    <3>1. UNCHANGED due
      BY <2>2 DEF Working, ProcessDelivery, DispatchAction, RetryAttempt, RollUp,
         GetDelivery, GetSource, Claim, ListActions, StoreTransformed, CreateAttempt,
         Dispatch, RecordResult, GetAction, ClearRetry, RollUpActions, RollUpAttempts,
         WriteStatus
    <3> QED BY <1>2, <3>1
  <2> QED BY <2>1, <2>2
<1> QED BY <1>1, <1>2

(* The roll-up that finds an action unsettled leaves the delivery to        *)
(* somebody else.                                                           *)
LEMMA RollUpHandsOn ==
    ASSUME IInv, NothingDeleted, PayloadIsDecided, VerdictsAreEarned, RetriesAreKept,
           ProcessingIsHandedOn, Calm, Calm',
           NEW g \in Goroutines, RollUpAttempts(g), pc'[g] = "idle",
           ~scripted[SourceOf[job[g].id]]
    PROVE  \/ \E h \in Goroutines : h # g /\ Holds(h, job[g].id)
           \/ \E k \in scheduled : k[1] = job[g].id
<1> DEFINE d == job[g].id
<1>1. pc[g] = "rollAttempts" /\ d \in Deliveries
  BY RollUpAttemptsStep, JobOf
<1>2. job[g].acts = ListActiveBySource(SourceOf[d])
  BY <1>1 DEF VerdictsAreEarned, Judges, Calm
<1>3. PICK a \in job[g].acts : ~Delivered(d, a) /\ ~Exhausted(d, a)
  <2>1. PICK o \in Reads :
          /\ Sql(o)
          /\ o = "ok" /\ (\A a \in job[g].acts : Delivered(d, a) \/ Exhausted(d, a)) =>
               \E v : Write(g, v, "close")
    BY Zenon DEF RollUpAttempts
  <2>2. o = "ok"
    BY <2>1 DEF Sql, Calm
  <2>3. \A v : ~Write(g, v, "close")
    BY LocalsAreFunctions DEF Write, Goto
  <2> QED BY <2>1, <2>2, <2>3
<1>4. a \in Actions /\ a \in ListActiveBySource(SourceOf[d])
  BY <1>2, <1>3 DEF ListActiveBySource
<1>5. Entered(d, a) \/ \E h \in Fanouts : h # g /\ Entering(h, d, a)
  <2>1. CASE g \in Fanouts
    <3>1. EntersAll(g) /\ ~Entering(g, d, a)
      BY <1>1, <2>1 DEF ProcessingIsHandedOn, Entering, InLoop
    <3> QED BY <1>1, <1>4, <3>1 DEF EntersAll
  <2>2. CASE g \in RetryPollers
    <3>1. /\ job[g].prev \in Keys /\ job[g].prev[1] = d
          /\ attempt[job[g].prev] = "failed"
      BY <1>1, <2>2, CalmFacts
    <3>2. AllAreEntered(d)
      BY <3>1 DEF ProcessingIsHandedOn
    <3>3. \A h \in Fanouts : h # g
      BY <2>2, GoroutinesAssumption
    <3> QED BY <1>4, <3>2, <3>3 DEF AllAreEntered
  <2> QED BY <2>1, <2>2 DEF Goroutines
<1>6. CASE Entered(d, a)
  <2>1. ~InFlight(g)
    BY <1>1 DEF InFlight
  <2> QED BY <1>1, <1>3, <1>4, <1>6, <2>1, Handover DEF Holds, InFlight
<1>7. CASE \E h \in Fanouts : h # g /\ Entering(h, d, a)
  BY <1>7 DEF Entering, InLoop, Holds, Goroutines
<1> QED BY <1>5, <1>6, <1>7

(* Whoever takes a step, a delivery in processing is attended after it.     *)
LEMMA AttendedStep ==
    ASSUME IInv, NothingDeleted, PayloadIsDecided, VerdictsAreEarned, RetriesAreKept,
           ProcessingIsHandedOn, Calm, Calm',
           NEW g \in Goroutines, Working(g),
           NEW d \in Deliveries, ~scripted[SourceOf[d]], status'[d] = "processing"
    PROVE  Attended(d)'
<1>a. ASSUME NEW h \in Goroutines, Holds(h, d)' PROVE Attended(d)'
  BY <1>a DEF Holds, Attended
<1>h. ASSUME NEW h \in Goroutines, h # g, Holds(h, d) PROVE Attended(d)'
  BY <1>a, <1>h, OthersKept DEF Others, Holds
<1>1. CASE Holds(g, d)
  <2>1. CASE pc'[g] # "idle"
    BY <1>1, <1>a, <2>1, HoldsOn DEF Holds
  <2>2. CASE pc'[g] = "idle" /\ WriteStatus(g)
    <3>1. PICK o \in Writes : Sql(o) /\ UpdateStatus(o, job[g].id, res[g])
      BY <2>2 DEF WriteStatus
    <3>2. o = "ok"
      BY <3>1 DEF Sql, Calm
    <3>3. DeliveryExists(d) /\ res[g] # "processing" /\ job[g].id = d
      BY <1>1, <2>2, CalmFacts, WriteStatusStep DEF Holds, Terminal
    <3>4. status'[d] = res[g]
      BY <3>1, <3>2, <3>3, LocalsAreFunctions DEF UpdateStatus, Took
    <3> QED BY <3>3, <3>4
  <2>3. CASE pc'[g] = "idle" /\ RollUpAttempts(g)
    <3>1. \/ \E h \in Goroutines : h # g /\ Holds(h, d)
          \/ \E k \in scheduled : k[1] = d
      BY <1>1, <2>3, RollUpHandsOn DEF Holds
    <3>2. scheduled' = scheduled /\ scheduled \subseteq Keys
      BY <2>3, RollUpAttemptsStep, LocalsAreFunctions DEF SameRows
    <3>3. CASE \E k \in scheduled : k[1] = d
      BY <3>2, <3>3 DEF Attended
    <3> QED BY <1>h, <3>1, <3>3
  <2> QED BY <1>1, <2>1, <2>2, <2>3, ReturnsAtTheEnd DEF Holds
<1>2. CASE ~Holds(g, d)
  <2>1. status[d] = "processing" /\ DeliveryExists(d)
    BY <1>2, StatusStep DEF DeliveryExists
  <2>2. Attended(d)
    BY <2>1 DEF ProcessingIsHandedOn, ProcessingIsAttended
  <2>3. CASE \E h \in Goroutines : Holds(h, d)
    BY <1>2, <1>h, <2>3
  <2>4. CASE \E k \in Keys : k[1] = d /\ k \in scheduled
    <3>1. PICK k \in Keys : k[1] = d /\ k \in scheduled
      BY <2>4
    <3>2. k \in scheduled' \/ Holds(g, d)'
      BY <2>1, <3>1, RetriesMove
    <3> QED BY <1>a, <3>1, <3>2 DEF Attended
  <2>5. CASE \E h \in RetryPollers, k \in Keys : k[1] = d /\ k \in due[h]
    <3>1. PICK h \in RetryPollers, k \in Keys : k[1] = d /\ k \in due[h]
      BY <2>5
    <3>2. k \in due'[h] \/ Holds(g, d)'
      BY <2>1, <3>1, RetriesMove
    <3> QED BY <1>a, <3>1, <3>2 DEF Attended
  <2> QED BY <2>2, <2>3, <2>4, <2>5 DEF Attended, Holds
<1> QED BY <1>1, <1>2

(* A pending attempt has its maker at hand.                                 *)
LEMMA PendingStep ==
    ASSUME IInv, NothingDeleted, ProcessingIsHandedOn, Calm, Calm',
           NEW g \in Goroutines, Working(g), NEW k \in Keys, attempt'[k] = "pending"
    PROVE  \E h \in Goroutines : InFlight(h)' /\ key'[h] = k
<1>o. \A h \in Goroutines : h # g /\ InFlight(h) => InFlight(h)' /\ key'[h] = key[h]
  BY OthersKept DEF Others, InFlight
<1>f. dbFaults' = dbFaults
  BY DEF Calm
<1>1. CASE CreateAttempt(g)
  <2>1. pc[g] = "dispatch"
    BY <1>1, CreateAttemptStep
  <2>2. \/ UNCHANGED attempt
        \/ \E x \in Keys : /\ InFlight(g)' /\ key'[g] = x
                           /\ attempt' = [attempt EXCEPT ![x] = "pending"]
    BY <1>1, <1>f, CreateAttemptStep DEF InFlight
  <2>3. CASE attempt[k] = "pending"
    BY <1>o, <2>1, <2>3 DEF ProcessingIsHandedOn, InFlight
  <2>4. CASE attempt[k] # "pending"
    BY <2>2, <2>4, LocalsAreFunctions
  <2> QED BY <2>3, <2>4
<1>2. CASE RecordResult(g)
  <2>1. /\ InFlight(g) /\ key[g] \in Keys /\ res[g] \in {"success", "failed"}
        /\ k # key[g] => attempt'[k] = attempt[k]
    BY <1>2, RecordResultStep
  <2>2. CASE k # key[g]
    BY <1>o, <2>1, <2>2 DEF ProcessingIsHandedOn
  <2>3. CASE k = key[g]
    <3>1. PICK o \in Writes : /\ Sql(o)
                              /\ Took(o) /\ attempt[k] # "none" =>
                                   attempt' = [attempt EXCEPT ![k] = res[g]]
      BY <1>2, <2>3 DEF RecordResult, UpdateAttempt
    <3>2. Took(o)
      BY <3>1 DEF Sql, Calm, Took
    <3>3. attempt[k] # "none"
      <4>1. k[1] \in Deliveries /\ k[2] \in Actions
        BY DEF Keys
      <4>2. ~Gone(k[1], k[2])
        BY <4>1, NothingGone DEF Calm
      <4> QED BY <2>1, <2>3, <4>2 DEF IInv, Ladder, Flights, Flight
    <3> QED BY <2>1, <3>1, <3>2, <3>3, LocalsAreFunctions
  <2> QED BY <2>2, <2>3
<1>3. CASE Dispatch(g)
  <2>1. InFlight(g)' /\ key'[g] = key[g] /\ UNCHANGED attempt
    BY <1>3, DispatchStep DEF SameRows, InFlight
  <2> QED BY <1>o, <2>1 DEF ProcessingIsHandedOn
<1>4. CASE ~DispatchAction(g)
  <2>1. UNCHANGED attempt
    BY <1>4, GetDeliveryStep, GetSourceStep, ClaimStep, ListActionsStep,
       StoreTransformedStep, GetRetryDeliveryStep, GetActionStep, ClearRetryStep,
       RollUpActionsStep, RollUpAttemptsStep, WriteStatusStep
       DEF SameRows, Working, ProcessDelivery, RetryAttempt, RollUp
  <2>2. ~InFlight(g)
    BY <1>4, GetDeliveryStep, GetSourceStep, ClaimStep, ListActionsStep,
       StoreTransformedStep, GetRetryDeliveryStep, GetActionStep, ClearRetryStep,
       RollUpActionsStep, RollUpAttemptsStep, WriteStatusStep
       DEF InFlight, Working, ProcessDelivery, RetryAttempt, RollUp
  <2> QED BY <1>o, <2>1, <2>2 DEF ProcessingIsHandedOn
<1> QED BY <1>1, <1>2, <1>3, <1>4 DEF DispatchAction

LEMMA StaysEntered ==
    ASSUME Grows, NEW d \in Deliveries
    PROVE  /\ ListActiveBySource(SourceOf[d])' = ListActiveBySource(SourceOf[d])
           /\ \A a \in ListActiveBySource(SourceOf[d]) :
                 /\ a \in Actions
                 /\ Entered(d, a) => Entered(d, a)'
<1>1. /\ ListActiveBySource(SourceOf[d])' = ListActiveBySource(SourceOf[d])
      /\ ListActiveBySource(SourceOf[d]) \subseteq Actions
  BY DEF Grows, ListActiveBySource
<1>2. \A a \in Actions : <<d, a, 1>> \in Keys
  BY BoundsAssumption DEF Keys, Numbers, Top
<1> QED BY <1>1, <1>2 DEF Grows, Entered

(* Without a script and without transforms the loop starts with all actions *)
(* and takes one out only when it has an attempt.                           *)
LEMMA FanoutEnters ==
    ASSUME IInv, NothingDeleted, PayloadIsDecided, VerdictsAreEarned,
           ProcessingIsHandedOn, Calm, Calm',
           NEW g \in Fanouts, Working(g), pc'[g] # "idle",
           ~scripted[SourceOf[job'[g].id]]
    PROVE  EntersAll(g)'
<1>g. g \in Goroutines /\ g \notin RetryPollers /\ Grows
  BY WorkingGrows, GoroutinesAssumption DEF Goroutines
<1>1. CASE pc'[g] \notin {"dispatch", "send", "result", "rollActions", "rollAttempts"}
  BY <1>1 DEF EntersAll, InLoop
<1>2. CASE pc'[g] \in {"dispatch", "send", "result", "rollActions", "rollAttempts"}
  <2> DEFINE d == job[g].id
             acts == ListActiveBySource(SourceOf[d])
  <2>1. pc[g] # "idle"
    BY <1>2, GetDeliveryStep, GetRetryDeliveryStep, GetSourceStep, ClaimStep,
       ListActionsStep, StoreTransformedStep, CreateAttemptStep, DispatchStep,
       RecordResultStep, GetActionStep, ClearRetryStep, RollUpActionsStep,
       RollUpAttemptsStep, WriteStatusStep, <1>g
       DEF SameLocals, Working, ProcessDelivery, DispatchAction, RetryAttempt, RollUp
  <2>2. /\ d \in Deliveries /\ job'[g].id = d /\ ~scripted[SourceOf[d]]
        /\ DeliveryExists(d) /\ job[g].prev = NoKey
    BY <1>g, <2>1, HoldsOn, JobOf, CalmFacts
  <2>3. EntersAll(g) /\ Judges(g)
    BY <1>g, <2>1, <2>2 DEF ProcessingIsHandedOn, VerdictsAreEarned, Calm
  <2>4. /\ acts' = acts
        /\ \A a \in acts : a \in Actions /\ (Entered(d, a) => Entered(d, a)')
    <3>1. PICK x \in Deliveries : x = d
      BY <2>2
    <3>2. \A a : Entered(x, a)' <=> attempt'[<<x, a, 1>>] # "none"
      BY DEF Entered
    <3>3. ListActiveBySource(SourceOf[x])' = ListActiveBySource(SourceOf[x])
      BY <1>g, StaysEntered
    <3> QED BY <1>g, <2>2, <3>1, <3>3, StaysEntered DEF Entered, ListActiveBySource, Grows
  <2> SUFFICES ASSUME NEW a \in acts
               PROVE  attempt'[<<d, a, 1>>] # "none" \/ (InLoop(g)' /\ a \in job'[g].acts)
    BY <2>2, <2>4 DEF EntersAll, Entering, Entered, ListActiveBySource, InLoop
  <2>5. Entered(d, a) => attempt'[<<d, a, 1>>] # "none"
    <3>1. <<d, a, 1>> \in Keys
      BY <2>2, <2>4, BoundsAssumption DEF Keys, Numbers, Top
    <3> QED BY <1>g, <3>1 DEF Entered, Grows
  <2>6. InLoop(g) => Entered(d, a) \/ a \in job[g].acts
    BY <2>3 DEF EntersAll, Entering
  <2>7. CASE ListActions(g)
    <3>0. pc[g] = "list"
      BY <1>g, <2>7, ListActionsStep
    <3>s. job[g].script = scripted[SourceOf[d]]
      BY <2>3, <3>0 DEF Judges
    <3>1. pc[g] = "list" /\ ~job[g].script
      BY <2>2, <3>0, <3>s, Zenon
    <3>2. PICK x \in Deliveries : x = d
      BY <2>2
    <3>3. \E kept : /\ acts # {} /\ kept = acts
                    /\ Keep(g, kept, "original") /\ Loop(g, job'[g].acts)
      <4>1. \A v, l \in {"close"} : ~Write(g, v, l)
        BY <1>2, LocalsAreFunctions, <1>g DEF Write, Goto
      <4>2. ~Return(g)
        BY <1>g, <1>2, ReturnStep
      <4> QED BY <2>7, <3>1, <4>1, <4>2, Zenon DEF ListActions
    <3>4. job'[g].acts = acts /\ acts # {}
      <4>0. PICK kept : kept = acts /\ acts # {} /\ Keep(g, kept, "original")
        BY <3>3
      <4>1. PICK skipped \in SUBSET (kept \cap transforms) :
              job' = [job EXCEPT ![g].acts = kept \ skipped, ![g].payload = "original"]
        BY <4>0, Zenon DEF Keep
      <4>2. skipped = {} /\ job[g] \in Jobs
        BY <1>g, <2>1, <4>1, JobOf DEF Calm
      <4> HIDE DEF acts
      <4> QED BY <1>g, <4>0, <4>1, <4>2, LocalsAreFunctions DEF Jobs
    <3>5. pc'[g] = "dispatch"
      BY <1>g, <3>3, <3>4, LoopStep
    <3> QED BY <3>4, <3>5 DEF InLoop
  <2>8. CASE StoreTransformed(g)
    BY <1>g, <2>2, <2>3, <2>8, StoreTransformedStep DEF Judges
  <2>9. CASE CreateAttempt(g)
    <3>1. InLoop(g) /\ AttemptNumber(job[g]) = 1
      BY <1>g, <2>2, <2>9, CreateAttemptStep DEF InLoop, AttemptNumber
    <3>2. PICK b \in job[g].acts :
            /\ job'[g].acts = job[g].acts \ {b}
            /\ <<d, b, 1>> \in Keys
            /\ \/ attempt' = [attempt EXCEPT ![<<d, b, 1>>] = "pending"]
               \/ dbFaults' # dbFaults
               \/ ~CanInsertAttempt(d, b, 1)
            /\ pc'[g] = "send" \/ pc'[g] = IF job'[g].acts # {} THEN "dispatch"
                                           ELSE IF g \in RetryPollers THEN "clear"
                                                                      ELSE "rollActions"
      BY <1>g, <2>9, <3>1, CreateAttemptStep
    <3>3. CASE a = b
      <4>1. ActionExists(a)
        BY DEF ListActiveBySource, ActionExists
      <4>2. Entered(d, a) \/ attempt' = [attempt EXCEPT ![<<d, b, 1>>] = "pending"]
        BY <2>2, <3>2, <3>3, <4>1 DEF CanInsertAttempt, Entered, Calm
      <4> QED BY <2>5, <3>2, <3>3, <4>2, LocalsAreFunctions
    <3>4. CASE a # b
      <4>1. CASE a \in job[g].acts
        BY <3>2, <3>4, <4>1 DEF InLoop
      <4> QED BY <2>5, <2>6, <3>1, <4>1
    <3> QED BY <3>3, <3>4
  <2>10. CASE Dispatch(g)
    <3>1. InLoop(g) /\ InLoop(g)' /\ job' = job
      BY <1>g, <2>10, DispatchStep DEF InLoop
    <3> QED BY <2>5, <2>6, <3>1
  <2>11. CASE RecordResult(g)
    <3>1. /\ InLoop(g) /\ job' = job
          /\ pc'[g] = IF job[g].acts # {} THEN "dispatch"
                      ELSE IF g \in RetryPollers THEN "clear" ELSE "rollActions"
      BY <1>g, <2>11, RecordResultStep DEF InLoop
    <3> QED BY <2>5, <2>6, <3>1 DEF InLoop
  <2>12. CASE RollUpActions(g)
    <3>1. pc[g] = "rollActions" /\ ~InLoop(g)
      BY <1>g, <2>12, RollUpActionsStep DEF InLoop
    <3>2. Entered(d, a)
      BY <2>3, <3>1 DEF EntersAll, Entering
    <3> QED BY <2>5, <3>2
  <2>13. CASE GetSource(g) \/ Claim(g) \/ RetryAttempt(g) \/ RollUpAttempts(g)
              \/ WriteStatus(g) \/ GetDelivery(g)
    BY <1>g, <1>2, <2>1, <2>13, GetSourceStep, ClaimStep, GetRetryDeliveryStep,
       GetActionStep, ClearRetryStep, RollUpAttemptsStep, WriteStatusStep,
       GetDeliveryStep DEF RetryAttempt
  <2> QED BY <2>7, <2>8, <2>9, <2>10, <2>11, <2>12, <2>13
             DEF Working, ProcessDelivery, DispatchAction, RollUp
<1> QED BY <1>1, <1>2

(* Once a delivery has an attempt, every active action has one or is in the *)
(* loop of a fan-out, whoever takes a step.                                 *)
LEMMA StaysHandedOn ==
    ASSUME IInv, NothingDeleted, PayloadIsDecided, VerdictsAreEarned,
           ProcessingIsHandedOn, Calm, Calm',
           NEW g \in Goroutines, Working(g), NEW d \in Deliveries,
           ~scripted[SourceOf[d]], AllAreEntered(d)
    PROVE  AllAreEntered(d)'
<1>g. Grows
  BY WorkingGrows
<1>1. SUFFICES ASSUME NEW a \in ListActiveBySource(SourceOf[d])
               PROVE  Entered(d, a)' \/ \E h \in Fanouts : Entering(h, d, a)'
  BY <1>g, StaysEntered DEF AllAreEntered, Entered, Entering, InLoop
<1>2. CASE Entered(d, a)
  BY <1>g, <1>2, StaysEntered
<1>3. CASE \E h \in Fanouts : h # g /\ Entering(h, d, a)
  BY <1>3, OthersKept DEF Others, Entering, InLoop, Goroutines
<1>4. CASE g \in Fanouts /\ Entering(g, d, a)
  <2>1. InLoop(g) /\ job[g].id = d /\ pc[g] # "idle" /\ g \notin RetryPollers
    BY <1>4, GoroutinesAssumption DEF Entering, InLoop
  <2>2. DispatchAction(g)
    BY <2>1, GetDeliveryStep, GetSourceStep, ClaimStep, ListActionsStep,
       StoreTransformedStep, GetRetryDeliveryStep, GetActionStep, ClearRetryStep,
       RollUpActionsStep, RollUpAttemptsStep, WriteStatusStep
       DEF InLoop, Working, ProcessDelivery, RetryAttempt, RollUp
  <2>3. pc'[g] \in {"dispatch", "send", "result", "rollActions"}
    BY <2>1, <2>2, CreateAttemptStep, DispatchStep, RecordResultStep DEF DispatchAction
  <2>4. job'[g].id = d
    BY <2>1, <2>3, HoldsOn
  <2>5. EntersAll(g)'
    BY <1>4, <2>3, <2>4, FanoutEnters
  <2>6. ListActiveBySource(SourceOf[d])' = ListActiveBySource(SourceOf[d])
    BY <1>g, StaysEntered
  <2>7. \A b \in ListActiveBySource(SourceOf[d])' : Entered(d, b)' \/ Entering(g, d, b)'
    BY <2>3, <2>4, <2>5 DEF EntersAll, Entered, Entering, InLoop, ListActiveBySource
  <2> QED BY <1>4, <2>6, <2>7
<1> QED BY <1>2, <1>3, <1>4 DEF AllAreEntered

LEMMA EnteredStep ==
    ASSUME IInv, NothingDeleted, PayloadIsDecided, VerdictsAreEarned,
           ProcessingIsHandedOn, Calm, Calm',
           NEW g \in Goroutines, Working(g), NEW k \in Keys, attempt'[k] # "none",
           ~scripted[SourceOf[k[1]]]
    PROVE  AllAreEntered(k[1])'
<1>k. k[1] \in Deliveries
  BY DEF Keys
<1>1. CASE \E j \in Keys : j[1] = k[1] /\ attempt[j] # "none"
  <2>1. AllAreEntered(k[1])
    BY <1>1 DEF ProcessingIsHandedOn
  <2> QED BY <1>k, <2>1, StaysHandedOn
<1>2. CASE \A j \in Keys : j[1] = k[1] => attempt[j] = "none"
  <2>1. CreateAttempt(g)
    <3>1. CASE RecordResult(g)
      BY <1>2, <3>1, RecordResultStep
    <3>2. CASE ~CreateAttempt(g) /\ ~RecordResult(g)
      <4>1. UNCHANGED attempt
        BY <3>2, GetDeliveryStep, GetSourceStep, ClaimStep, ListActionsStep,
           StoreTransformedStep, DispatchStep, GetRetryDeliveryStep, GetActionStep,
           ClearRetryStep, RollUpActionsStep, RollUpAttemptsStep, WriteStatusStep
           DEF SameRows, Working, ProcessDelivery, DispatchAction, RetryAttempt, RollUp
      <4> QED BY <1>2, <4>1
    <3> QED BY <3>1, <3>2
  <2>2. PICK x \in Keys : /\ x[1] = job[g].id /\ pc'[g] = "send"
                          /\ attempt' = [attempt EXCEPT ![x] = "pending"]
    <3>1. \/ UNCHANGED attempt
          \/ dbFaults' # dbFaults
          \/ \E x \in Keys : /\ x[1] = job[g].id /\ pc'[g] = "send"
                             /\ attempt' = [attempt EXCEPT ![x] = "pending"]
      BY <2>1, CreateAttemptStep
    <3> QED BY <1>2, <3>1 DEF Calm
  <2>3. x = k
    BY <1>2, <2>2, LocalsAreFunctions
  <2>4. pc[g] # "idle" /\ job'[g].id = k[1]
    BY <2>1, <2>2, <2>3, CreateAttemptStep, HoldsOn
  <2>5. g \in Fanouts
    <3>1. SUFFICES ASSUME g \in RetryPollers PROVE FALSE
      BY DEF Goroutines
    <3>2. job[g].prev \in Keys /\ job[g].prev[1] = k[1] /\ attempt[job[g].prev] = "failed"
      BY <2>2, <2>3, <2>4, <3>1, CalmFacts
    <3> QED BY <1>2, <3>2
  <2>6. EntersAll(g)'
    BY <2>2, <2>4, <2>5, FanoutEnters
  <2> QED BY <2>2, <2>4, <2>5, <2>6
             DEF EntersAll, AllAreEntered, Entered, Entering, InLoop, ListActiveBySource
<1> QED BY <1>1, <1>2

-----------------------------------------------------------------------------
(* The invariant                                                            *)

LEMMA HandedOnInit == Init => ProcessingIsHandedOn
<1> SUFFICES ASSUME Init PROVE ProcessingIsHandedOn
  OBVIOUS
<1>1. /\ \A d \in Deliveries : status[d] = "none"
      /\ \A k \in Keys : attempt[k] = "none"
      /\ \A g \in Goroutines : pc[g] = "idle"
  BY DEF Init, WorkerInit
<1> QED BY <1>1 DEF ProcessingIsHandedOn, ProcessingIsAttended, DeliveryExists, Fanouts,
           Goroutines

LEMMA RestingHandsOn ==
    ASSUME IInv, ProcessingIsHandedOn, Calm, Resting
    PROVE  ProcessingIsHandedOn'
<1>1. /\ UNCHANGED <<mode, scripted, action, transforms, attempt, scheduled, pc, job, key>>
      /\ \A d \in Deliveries : status'[d] \in {status[d], "pending", "recorded"}
      /\ \A d \in Deliveries : status[d] = "none" /\ status'[d] # "none" =>
                 SourceExists(SourceOf[d])
      /\ \A g \in RetryPollers : due[g] \subseteq due'[g]
  BY DEF Resting, Outside, SameLocals
<1>2. ASSUME NEW d \in Deliveries, ~scripted[SourceOf[d]], status'[d] = "processing"
      PROVE  Attended(d)'
  <2>1. Attended(d)
    BY <1>1, <1>2 DEF ProcessingIsHandedOn, ProcessingIsAttended
  <2> QED BY <1>1, <2>1 DEF Attended
<1>3. \A d \in Deliveries : DeliveryExists(d)' => SourceExists(SourceOf[d])'
  BY <1>1 DEF ProcessingIsHandedOn, DeliveryExists, SourceExists
<1>4. \A k \in Keys : attempt'[k] = "pending" =>
          \E g \in Goroutines : InFlight(g)' /\ key'[g] = k
  BY <1>1 DEF ProcessingIsHandedOn, InFlight
<1>5. \A k \in Keys : attempt'[k] # "none" /\ ~scripted'[SourceOf[k[1]]] =>
          AllAreEntered(k[1])'
  BY <1>1 DEF ProcessingIsHandedOn, AllAreEntered, Entered, Entering, InLoop,
     ListActiveBySource
<1>6. \A g \in Fanouts : pc'[g] # "idle" /\ ~scripted'[SourceOf[job'[g].id]] =>
          EntersAll(g)'
  BY <1>1 DEF ProcessingIsHandedOn, EntersAll, Entered, Entering, InLoop,
     ListActiveBySource
<1> QED BY <1>1, <1>2, <1>3, <1>4, <1>5, <1>6 DEF ProcessingIsHandedOn, ProcessingIsAttended

LEMMA WorkingHandsOn ==
    ASSUME IInv, NothingDeleted, PayloadIsDecided, VerdictsAreEarned, RetriesAreKept,
           ProcessingIsHandedOn, Calm, Calm', NEW g \in Goroutines, Working(g)
    PROVE  ProcessingIsHandedOn'
<1>g. Grows
  BY WorkingGrows
<1>1. \A d \in Deliveries : ~scripted'[SourceOf[d]] /\ status'[d] = "processing" =>
          Attended(d)'
  BY <1>g, AttendedStep DEF Grows
<1>2. \A d \in Deliveries : DeliveryExists(d)' => SourceExists(SourceOf[d])'
  BY <1>g DEF ProcessingIsHandedOn, DeliveryExists, SourceExists, Grows
<1>3. \A k \in Keys : attempt'[k] = "pending" =>
          \E h \in Goroutines : InFlight(h)' /\ key'[h] = k
  BY PendingStep
<1>4. \A k \in Keys : attempt'[k] # "none" /\ ~scripted'[SourceOf[k[1]]] =>
          AllAreEntered(k[1])'
  BY <1>g, EnteredStep DEF Grows
<1>5. ASSUME NEW h \in Fanouts, pc'[h] # "idle", ~scripted'[SourceOf[job'[h].id]]
      PROVE  EntersAll(h)'
  <2>u. UNCHANGED scripted
    BY <1>g DEF Grows
  <2>1. CASE h = g
    BY <1>5, <2>u, <2>1, FanoutEnters
  <2>2. CASE h # g
    <3>1. pc'[h] = pc[h] /\ job'[h] = job[h] /\ h \in Goroutines
      BY <2>2, OthersKept DEF Others, Goroutines
    <3>2. EntersAll(h) /\ job[h].id \in Deliveries
      BY <1>5, <2>u, <3>1, JobOf DEF ProcessingIsHandedOn
    <3>3. PICK d \in Deliveries : d = job[h].id
      BY <3>2
    <3>4. /\ ListActiveBySource(SourceOf[d])' = ListActiveBySource(SourceOf[d])
          /\ \A a \in ListActiveBySource(SourceOf[d]) :
                Entered(d, a) => attempt'[<<d, a, 1>>] # "none"
      BY <1>g, StaysEntered DEF Entered
    <3> QED BY <3>1, <3>2, <3>3, <3>4 DEF EntersAll, Entered, Entering, InLoop,
               ListActiveBySource
  <2> QED BY <2>1, <2>2
<1> QED BY <1>1, <1>2, <1>3, <1>4, <1>5 DEF ProcessingIsHandedOn, ProcessingIsAttended

(* While nothing crashes, fails or is edited, who stops looking after a     *)
(* delivery leaves it to another goroutine or to the schedule of a retry.   *)
THEOREM HandedOn == Spec => []ProcessingIsHandedOn
<1>1. Init => ProcessingIsHandedOn
  BY HandedOnInit
<1>2. IInv /\ NothingDeleted /\ PayloadIsDecided /\ VerdictsAreEarned /\ RetriesAreKept
        /\ ProcessingIsHandedOn /\ [Next]_vars
      => ProcessingIsHandedOn'
  <2> SUFFICES ASSUME IInv, NothingDeleted, PayloadIsDecided, VerdictsAreEarned,
                      RetriesAreKept, ProcessingIsHandedOn, [Next]_vars, Calm'
               PROVE  ProcessingIsHandedOn'
    BY DEF ProcessingIsHandedOn
  <2> QED BY CalmStep, RestingHandsOn, WorkingHandsOn
<1> QED BY <1>1, <1>2, InductiveInvariant, DeletedByEdits, PayloadDecided, VerdictsEarned,
           RetriesKept, PTL DEF Spec

(* While nothing crashes, fails or is edited, and neither script nor        *)
(* transform skips an action, a delivery in processing is in the hands of a *)
(* goroutine, or one of its retries is scheduled or listed.                 *)
THEOREM AttendedInProcessing == Spec => []ProcessingIsAttended
<1>1. ProcessingIsHandedOn => ProcessingIsAttended
  BY DEF ProcessingIsHandedOn, ProcessingIsAttended
<1> QED BY <1>1, HandedOn, PTL
=============================================================================
