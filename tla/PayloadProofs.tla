--------------------------- MODULE PayloadProofs ---------------------------
(***************************************************************************)
(* The script's result is sent, and stored before the first attempt, if    *)
(* and only if the source has a script: for all values of the constants,   *)
(* whichever replica makes a call, first or retry.                         *)
(***************************************************************************)
EXTENDS GatewaySteps

(* Neither statements fail nor rows are edited.                             *)
Unharmed == edits = 0 /\ dbFaults = 0

OneKind == \A d \in Deliveries : carried[d] \subseteq {PayloadOf(d)}
OnlyScripted == \A d \in transformed : scripted[SourceOf[d]]
StoredFirst == \A k \in Keys : attempt[k] # "none" => Stored(k[1])
AllCarry == \A g \in Goroutines : pc[g] # "idle" => Carries(g)

LEMMA Decided ==
    /\ PayloadIsDecided <=>
          (Unharmed => OneKind /\ OnlyScripted /\ StoredFirst /\ AllCarry)
    /\ PayloadIsDecided' <=>
          (Unharmed' => OneKind' /\ OnlyScripted' /\ StoredFirst' /\ AllCarry')
  BY DEF PayloadIsDecided, Unharmed, OneKind, OnlyScripted, StoredFirst, AllCarry

LEMMA PayloadInit == Init => PayloadIsDecided
<1> SUFFICES ASSUME Init PROVE OneKind /\ OnlyScripted /\ StoredFirst /\ AllCarry
  BY Decided
<1> QED BY DEF Init, WorkerInit, OneKind, OnlyScripted, StoredFirst, AllCarry

(* What a goroutine carries stays what it is while others work.             *)
LEMMA StillCarries ==
    ASSUME NEW g \in Goroutines, Carries(g), UNCHANGED scripted,
           job[g].id \in Deliveries,
           transformed \subseteq transformed',
           \A d \in Deliveries : status[d] # "none" => status'[d] # "none",
           pc'[g] = pc[g], job'[g] = job[g], key'[g] = key[g]
    PROVE  Carries(g)'
  BY DEF Carries, DeliveryExists, PayloadOf, Stored, InFlight

(* The retries a poller holds are failed attempts.                          *)
LEMMA HeldIsStored ==
    ASSUME IInv, NothingDeleted, Unharmed, StoredFirst,
           NEW g \in RetryPollers, NEW k \in HeldRetries(g)
    PROVE  Stored(k[1])
<1>1. k \in Keys /\ k[1] \in Deliveries /\ k[2] \in Actions
  BY DEF HeldRetries, Keys
<1>2. attempt[k] = "failed"
  BY <1>1, NothingGone DEF IInv, Ladder, Retries, Unharmed
<1> QED BY <1>1, <1>2 DEF StoredFirst

LEMMA FanoutCarries ==
    ASSUME IInv, Unharmed, Unharmed', NEW g \in Goroutines, ProcessDelivery(g),
           pc[g] # "idle" => Carries(g)
    PROVE  pc'[g] # "idle" => Carries(g)'
<1> SUFFICES ASSUME pc'[g] # "idle" PROVE Carries(g)'
  OBVIOUS
<1>g. Grows
  BY WorkingGrows DEF Working
<1>d. pc[g] # "idle" => job[g].id \in Deliveries
  BY JobOf
<1>1. CASE GetDelivery(g)
  <2>1. PICK m \in work[g] :
           /\ m \in Messages
           /\ SameLocals \/ (Eligible(m) /\ pc'[g] = "source" /\ job'[g].id = m.id)
    BY <1>1, GetDeliveryStep
  <2>2. pc[g] = "idle" /\ m.id \in Deliveries
    BY <1>1, <2>1, GetDeliveryStep DEF Messages
  <2>3. status[m.id] # "none" /\ pc'[g] = "source" /\ job'[g].id = m.id
    BY <2>1, <2>2 DEF SameLocals, Eligible
  <2> QED BY <1>g, <2>2, <2>3 DEF Carries, DeliveryExists, Grows, InFlight
<1>2. CASE GetSource(g)
  BY <1>2, <1>d, <1>g, GetSourceStep DEF Carries, DeliveryExists, Grows, InFlight
<1>3. CASE Claim(g)
  BY <1>3, <1>d, <1>g, ClaimStep DEF Carries, DeliveryExists, Grows, InFlight
<1>4. CASE ListActions(g)
  <2>1. /\ job[g].script = scripted[SourceOf[job[g].id]] /\ pc[g] = "list"
        /\ DeliveryExists(job[g].id) /\ job[g].id \in Deliveries
    BY <1>4, <1>d, ListActionsStep DEF Carries
  <2>2. \/ pc'[g] = "close" /\ job'[g] = job[g]
        \/ /\ pc'[g] \in {"dispatch", "rollActions"} /\ ~job[g].script
           /\ SameJob(g) /\ job'[g].payload = "original"
        \/ /\ pc'[g] = "store" /\ job[g].script
           /\ SameJob(g) /\ job'[g].payload = "transformed"
    BY <1>4, ListActionsStep
  <2>3. job'[g].id = job[g].id
    BY <2>2 DEF SameJob
  <2> QED BY <1>g, <2>1, <2>2, <2>3 DEF Carries, DeliveryExists, Grows, InFlight,
             PayloadOf, Stored
<1>5. CASE StoreTransformed(g)
  <2>1. PICK o \in Writes : Sql(o) /\ SetTransformed(o, job[g].id)
    BY <1>5, StoreTransformedStep
  <2>2. o = "ok"
    BY <2>1 DEF Sql, Unharmed
  <2>3. /\ DeliveryExists(job[g].id) /\ job[g].payload = PayloadOf(job[g].id)
        /\ job'[g] = job[g] /\ pc'[g] \in {"close", "dispatch", "rollActions"}
    BY <1>5, StoreTransformedStep DEF Carries
  <2>4. job[g].id \in transformed' /\ job[g].id \in Deliveries
    BY <1>5, <1>d, <2>1, <2>2, <2>3, StoreTransformedStep DEF SetTransformed, Took
  <2> QED BY <1>g, <2>3, <2>4 DEF Carries, DeliveryExists, Grows, InFlight,
             PayloadOf, Stored
<1> QED BY <1>1, <1>2, <1>3, <1>4, <1>5 DEF ProcessDelivery

LEMMA DispatchCarries ==
    ASSUME IInv, NEW g \in Goroutines, DispatchAction(g), Carries(g)
    PROVE  Carries(g)'
<1>g. Grows
  BY WorkingGrows DEF Working
<1>1. CASE CreateAttempt(g)
  <2>1. /\ pc[g] = "dispatch" /\ SameJob(g) /\ job'[g].payload = job[g].payload
        /\ job'[g].id = job[g].id /\ job[g].id \in Deliveries
    BY <1>1, CreateAttemptStep, JobOf DEF SameJob
  <2>2. /\ pc'[g] \in {"send", "dispatch", "clear", "rollActions"}
        /\ pc'[g] = "send" => key'[g][1] = job[g].id
    <3>1. PICK a \in job[g].acts :
             \/ /\ pc'[g] = "send"
                /\ key'[g] = <<job[g].id, a, AttemptNumber(job[g])>>
             \/ pc'[g] \in {"dispatch", "clear", "rollActions"}
      BY <1>1, CreateAttemptStep
    <3> QED BY <3>1
  <2>3. /\ DeliveryExists(job[g].id)' /\ job[g].payload = PayloadOf(job[g].id)
        /\ Stored(job[g].id) /\ Stored(job[g].id)'
    BY <1>g, <2>1 DEF Carries, DeliveryExists, Grows, PayloadOf, Stored
  <2> QED BY <1>g, <2>1, <2>2, <2>3 DEF Carries, InFlight, PayloadOf, Grows
<1>2. CASE Dispatch(g)
  <2>1. /\ pc[g] = "send" /\ pc'[g] = "result" /\ job'[g] = job[g]
        /\ key'[g] = key[g] /\ job[g].id \in Deliveries
    BY <1>2, DispatchStep, JobOf
  <2> QED BY <1>g, <2>1 DEF Carries, DeliveryExists, Grows, InFlight, PayloadOf, Stored
<1>3. CASE RecordResult(g)
  <2>1. /\ pc[g] = "result" /\ pc'[g] \in {"dispatch", "clear", "rollActions"}
        /\ job'[g] = job[g] /\ job[g].id \in Deliveries
    BY <1>3, RecordResultStep, JobOf
  <2> QED BY <1>g, <2>1 DEF Carries, DeliveryExists, Grows, InFlight, PayloadOf, Stored
<1> QED BY <1>1, <1>2, <1>3 DEF DispatchAction

LEMMA RetryCarries ==
    ASSUME IInv, NothingDeleted, Unharmed, OnlyScripted, StoredFirst,
           NEW g \in Goroutines, RetryAttempt(g), pc[g] # "idle" => Carries(g)
    PROVE  pc'[g] # "idle" => Carries(g)'
<1> SUFFICES ASSUME pc'[g] # "idle" PROVE Carries(g)'
  OBVIOUS
<1>g. Grows
  BY WorkingGrows DEF Working
<1>1. CASE GetRetryDelivery(g)
  <2>1. PICK k \in Keys :
           /\ k \in HeldRetries(g) /\ DeliveryExists(k[1]) /\ pc'[g] = "action"
           /\ job'[g].id = k[1]
           /\ job'[g].payload = IF k[1] \in transformed
                                THEN "transformed" ELSE "original"
    BY <1>1, GetRetryDeliveryStep DEF SameLocals
  <2>2. g \in RetryPollers /\ k[1] \in Deliveries
    BY <1>1, GetRetryDeliveryStep DEF Keys
  <2>3. Stored(k[1])
    BY <2>1, <2>2, HeldIsStored
  <2>4. job'[g].payload = PayloadOf(k[1])
    BY <2>1, <2>2, <2>3 DEF Stored, PayloadOf, OnlyScripted
  <2> QED BY <1>g, <2>1, <2>2, <2>4 DEF Carries, DeliveryExists, Grows, InFlight, PayloadOf
<1>2. CASE GetAction(g)
  <2>1. /\ pc[g] = "action" /\ g \in RetryPollers /\ SameJob(g)
        /\ job'[g].payload = job[g].payload /\ pc'[g] \in {"dispatch", "clear"}
    BY <1>2, GetActionStep
  <2>2. /\ job[g].id = job[g].prev[1] /\ job[g].prev \in HeldRetries(g)
        /\ job[g].id \in Deliveries
    BY <2>1, JobOf DEF HeldRetries
  <2>3. Stored(job[g].id)
    BY <2>1, <2>2, HeldIsStored
  <2> QED BY <1>g, <2>1, <2>2, <2>3 DEF Carries, DeliveryExists, Grows, InFlight,
             PayloadOf, Stored, SameJob
<1>3. CASE ClearRetry(g)
  <2>1. pc[g] = "clear" /\ pc'[g] = "rollActions" /\ job'[g] = job[g]
        /\ job[g].id \in Deliveries
    BY <1>3, ClearRetryStep, JobOf
  <2> QED BY <1>g, <2>1 DEF Carries, DeliveryExists, Grows, InFlight
<1> QED BY <1>1, <1>2, <1>3 DEF RetryAttempt

LEMMA RollUpCarries ==
    ASSUME IInv, NEW g \in Goroutines, RollUp(g), Carries(g), pc'[g] # "idle"
    PROVE  Carries(g)'
<1>1. /\ pc'[g] \in {"rollAttempts", "close"} /\ job'[g].id = job[g].id
      /\ pc[g] # "idle"
  BY RollUpActionsStep, RollUpAttemptsStep, WriteStatusStep DEF RollUp, SameJob
<1>2. Grows /\ job[g].id \in Deliveries
  BY <1>1, WorkingGrows, JobOf DEF Working
<1> QED BY <1>1, <1>2 DEF Carries, DeliveryExists, Grows, InFlight

(* The tables.                                                              *)
LEMMA WorkingPayloads ==
    ASSUME IInv, OneKind, OnlyScripted, StoredFirst,
           NEW g \in Goroutines, Working(g), pc[g] # "idle" => Carries(g)
    PROVE  OneKind' /\ OnlyScripted' /\ StoredFirst'
<1>g. Grows
  BY WorkingGrows
<1>u. /\ \A d \in Deliveries : PayloadOf(d)' = PayloadOf(d) /\ (Stored(d) => Stored(d)')
  BY <1>g DEF Grows, PayloadOf, Stored
<1>1. OneKind'
  <2>1. CASE Dispatch(g)
    <3>1. carried' = [carried EXCEPT ![key[g][1]] = @ \cup {job[g].payload}]
      BY <2>1, DispatchStep
    <3>2. job[g].payload = PayloadOf(key[g][1])
      BY <2>1, DispatchStep DEF Carries, InFlight
    <3> QED BY <1>u, <3>1, <3>2, LocalsAreFunctions DEF OneKind
  <2>2. CASE ~Dispatch(g)
    <3>1. UNCHANGED carried
      BY <2>2, GetDeliveryStep, GetSourceStep, ClaimStep, ListActionsStep,
         StoreTransformedStep, CreateAttemptStep, RecordResultStep,
         GetRetryDeliveryStep, GetActionStep, ClearRetryStep, RollUpActionsStep,
         RollUpAttemptsStep, WriteStatusStep
         DEF SameCalls, Working, ProcessDelivery, DispatchAction, RetryAttempt, RollUp
    <3> QED BY <1>u, <3>1 DEF OneKind
  <2> QED BY <2>1, <2>2
<1>2. OnlyScripted'
  <2>1. CASE StoreTransformed(g)
    <3>1. /\ \E o : SetTransformed(o, job[g].id)
          /\ scripted[SourceOf[job[g].id]]
      BY <2>1, StoreTransformedStep DEF Carries
    <3> QED BY <1>g, <3>1 DEF SetTransformed, OnlyScripted, Grows
  <2>2. CASE ~StoreTransformed(g)
    <3>1. UNCHANGED transformed
      BY <2>2, GetDeliveryStep, GetSourceStep, ClaimStep, ListActionsStep,
         CreateAttemptStep, DispatchStep, RecordResultStep, GetRetryDeliveryStep,
         GetActionStep, ClearRetryStep, RollUpActionsStep, RollUpAttemptsStep,
         WriteStatusStep
         DEF SameRows, Working, ProcessDelivery, DispatchAction, RetryAttempt, RollUp
    <3> QED BY <1>g, <3>1 DEF OnlyScripted, Grows
  <2> QED BY <2>1, <2>2
<1>3. StoredFirst'
  <2> SUFFICES ASSUME NEW k \in Keys, attempt'[k] # "none"
               PROVE  Stored(k[1])
    BY <1>u DEF StoredFirst, Keys
  <2>1. CASE CreateAttempt(g)
    <3>1. Stored(job[g].id)
      BY <2>1, CreateAttemptStep DEF Carries
    <3>2. \/ UNCHANGED attempt
          \/ \E x \in Keys : x[1] = job[g].id /\ attempt' = [attempt EXCEPT ![x] = "pending"]
      BY <2>1, CreateAttemptStep
    <3> QED BY <3>1, <3>2, LocalsAreFunctions DEF StoredFirst
  <2>2. CASE RecordResult(g)
    <3>1. attempt[k] # "none"
      BY <2>2, RecordResultStep
    <3> QED BY <3>1 DEF StoredFirst
  <2>3. CASE ~CreateAttempt(g) /\ ~RecordResult(g)
    <3>1. UNCHANGED attempt
      BY <2>3, GetDeliveryStep, GetSourceStep, ClaimStep, ListActionsStep,
         StoreTransformedStep, DispatchStep, GetRetryDeliveryStep, GetActionStep,
         ClearRetryStep, RollUpActionsStep, RollUpAttemptsStep, WriteStatusStep
         DEF SameRows, Working, ProcessDelivery, DispatchAction, RetryAttempt, RollUp
    <3> QED BY <3>1 DEF StoredFirst
  <2> QED BY <2>1, <2>2, <2>3
<1> QED BY <1>1, <1>2, <1>3

LEMMA PayloadStep ==
    ASSUME IInv, NothingDeleted, PayloadIsDecided, [Next]_vars
    PROVE  PayloadIsDecided'
<1> SUFFICES ASSUME Unharmed' PROVE OneKind' /\ OnlyScripted' /\ StoredFirst' /\ AllCarry'
  BY Decided
<1>1. Outside \/ \E g \in Goroutines : Working(g)
  BY StepOrOutside DEF Unharmed
<1>2. Unharmed
  BY StepOrOutside, WorkingGrows, LocalsAreFunctions DEF Unharmed, Outside, Grows
<1>3. OneKind /\ OnlyScripted /\ StoredFirst /\ AllCarry
  BY <1>2, Decided
<1>4. CASE Outside
  <2>1. OneKind' /\ OnlyScripted' /\ StoredFirst'
    BY <1>3, <1>4 DEF Outside, SameCalls, OneKind, OnlyScripted, StoredFirst,
       PayloadOf, Stored
  <2>2. ASSUME NEW g \in Goroutines, pc'[g] # "idle" PROVE Carries(g)'
    <3>1. pc'[g] = pc[g] /\ job'[g] = job[g] /\ key'[g] = key[g]
      BY <1>4, <2>2 DEF Outside
    <3> QED BY <1>3, <1>4, <2>2, <3>1, StillCarries, JobOf DEF AllCarry, Outside
  <2> QED BY <2>1, <2>2 DEF AllCarry
<1>5. ASSUME NEW g \in Goroutines, Working(g)
      PROVE  OneKind' /\ OnlyScripted' /\ StoredFirst' /\ AllCarry'
  <2>1. OneKind' /\ OnlyScripted' /\ StoredFirst'
    BY <1>3, <1>5, WorkingPayloads DEF AllCarry
  <2>2. ASSUME NEW h \in Goroutines, h # g, pc'[h] # "idle" PROVE Carries(h)'
    <3>1. pc'[h] = pc[h] /\ job'[h] = job[h] /\ key'[h] = key[h]
      BY <1>5, <2>2, OthersKept DEF Others
    <3>2. Grows
      BY <1>5, WorkingGrows
    <3> QED BY <1>3, <2>2, <3>1, <3>2, StillCarries, JobOf DEF AllCarry, Grows
  <2>3. pc'[g] # "idle" => Carries(g)'
    <3>1. pc[g] # "idle" => Carries(g)
      BY <1>3 DEF AllCarry
    <3>2. CASE ProcessDelivery(g)
      BY <1>2, <3>1, <3>2, FanoutCarries
    <3>3. CASE DispatchAction(g)
      <4>1. pc[g] # "idle"
        BY <3>3, CreateAttemptStep, DispatchStep, RecordResultStep DEF DispatchAction
      <4> QED BY <3>1, <3>3, <4>1, DispatchCarries
    <3>4. CASE RetryAttempt(g)
      BY <1>2, <1>3, <3>1, <3>4, RetryCarries
    <3>5. CASE RollUp(g)
      <4>1. pc[g] # "idle"
        BY <3>5, RollUpActionsStep, RollUpAttemptsStep, WriteStatusStep DEF RollUp
      <4> QED BY <3>1, <3>5, <4>1, RollUpCarries
    <3> QED BY <1>5, <3>2, <3>3, <3>4, <3>5 DEF Working
  <2> QED BY <2>1, <2>2, <2>3 DEF AllCarry
<1> QED BY <1>1, <1>4, <1>5

(* Whether the source has a script decides what every call carries, and     *)
(* what the script made is stored before the first attempt exists.          *)
THEOREM PayloadDecided == Spec => []PayloadIsDecided
<1>1. Init => PayloadIsDecided
  BY PayloadInit
<1>2. IInv /\ NothingDeleted /\ PayloadIsDecided /\ [Next]_vars => PayloadIsDecided'
  BY PayloadStep
<1> QED BY <1>1, <1>2, InductiveInvariant, DeletedByEdits, PTL DEF Spec
=============================================================================
