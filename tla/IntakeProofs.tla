---------------------------- MODULE IntakeProofs ----------------------------
(***************************************************************************)
(* What may be dispatched at all, for all values of the constants: one     *)
(* delivery per idempotency key, and of a source in record mode only what  *)
(* the operator forwards.                                                  *)
(***************************************************************************)
EXTENDS GatewaySteps

-----------------------------------------------------------------------------
(* One delivery per key                                                     *)

(* A row that is gone was deleted with its source.                          *)
RowsLast ==
    \A d \in Deliveries : DeliveryExists(d) \/ mode[SourceOf[d]] = "deleted" =>
        DeliveryExists(d)' \/ mode'[SourceOf[d]] = "deleted"
NoNewHolder == \A d \in Deliveries : HoldsKey(d)' => HoldsKey(d)

LEMMA NobodyTakesKey ==
    ASSUME KeyIsHeldOnce, RowsLast, NoNewHolder
    PROVE  KeyIsHeldOnce'
  BY DEF KeyIsHeldOnce, RowsLast, NoNewHolder, Rivals

LEMMA CreateDeliveryKey ==
    ASSUME IInv, KeyIsHeldOnce, NEW h \in Handlers, CreateDelivery(h),
           UNCHANGED workerVars
    PROVE  KeyIsHeldOnce'
<1>0. PICK new \in Deliveries : new = req[h].id
  BY DEF CreateDelivery, IInv, TypeOK, ApiTypeOK, Requests
<1>1. UNCHANGED <<mode, calls, pc, key>>
  BY DEF CreateDelivery, StatusUpdateOnly, workerVars, locals, receivers
<1>2. CASE UNCHANGED status
  <2>1. RowsLast /\ NoNewHolder
    BY <1>1, <1>2 DEF RowsLast, NoNewHolder, HoldsKey, DeliveryExists, InFlight
  <2> QED BY <2>1, NobodyTakesKey
<1>3. CASE CanInsertDelivery(new) /\ status' = [status EXCEPT ![new] = "pending"]
  <2>1. \A d \in Deliveries : d # new => status'[d] = status[d]
    BY <1>3, LocalsAreFunctions
  <2>2. status'[new] = "pending"
    BY <1>0, <1>3, LocalsAreFunctions
  <2>3. RowsLast
    BY <1>1, <2>1, <2>2 DEF RowsLast, DeliveryExists
  <2>4. \A d \in Deliveries : d # new => (HoldsKey(d)' <=> HoldsKey(d))
    BY <1>1, <2>1 DEF HoldsKey, DeliveryExists, InFlight
  <2>5. mode[SourceOf[new]] # "deleted"
    BY <1>3 DEF CanInsertDelivery, SourceExists, LiveModes
  <2>6. \A e \in Deliveries : SourceOf[new] = SourceOf[e] /\ KeyOf[new] = KeyOf[e] =>
           ~HoldsKey(e)
    <3> SUFFICES ASSUME NEW e \in Deliveries, SourceOf[new] = SourceOf[e],
                        KeyOf[new] = KeyOf[e]
                 PROVE  ~HoldsKey(e)
      OBVIOUS
    <3>1. ~DeliveryExists(e) /\ mode[SourceOf[e]] # "deleted"
      BY <1>3, <2>5 DEF CanInsertDelivery
    <3> QED BY <3>1 DEF KeyIsHeldOnce
  <2>7. DeliveryExists(new)'
    BY <2>2 DEF DeliveryExists
  <2> SUFFICES ASSUME NEW d \in Deliveries, HoldsKey(d)'
               PROVE  /\ DeliveryExists(d)' \/ mode'[SourceOf[d]] = "deleted"
                      /\ \A e \in Deliveries : Rivals(d, e) => ~HoldsKey(e)'
    BY DEF KeyIsHeldOnce, Rivals
  <2>8. CASE d = new
    <3>1. \A e \in Deliveries : Rivals(d, e) => e # new /\ ~HoldsKey(e)
      BY <2>6, <2>8 DEF Rivals
    <3> QED BY <2>4, <2>7, <2>8, <3>1
  <2>9. CASE d # new
    <3>1. HoldsKey(d)
      BY <2>4, <2>9
    <3>2. \A e \in Deliveries : Rivals(d, e) => e # new /\ ~HoldsKey(e)
      BY <2>6, <3>1 DEF KeyIsHeldOnce, Rivals
    <3> QED BY <2>3, <2>4, <3>1, <3>2 DEF KeyIsHeldOnce, RowsLast
  <2> QED BY <2>8, <2>9
<1> QED BY <1>0, <1>2, <1>3 DEF CreateDelivery

LEMMA WorkingKey ==
    ASSUME IInv, NEW g \in Goroutines, Working(g)
    PROVE  RowsLast /\ NoNewHolder
<1>g. Grows
  BY WorkingGrows
<1>1. RowsLast
  BY <1>g DEF Grows, RowsLast, DeliveryExists
<1> SUFFICES ASSUME NEW d \in Deliveries, HoldsKey(d)' PROVE HoldsKey(d)
  BY <1>1 DEF NoNewHolder
<1>2. CASE DeliveryExists(d)'
  BY <1>g, <1>2 DEF Grows, DeliveryExists, HoldsKey
<1>3. ASSUME NEW a \in Actions, calls'[<<d, a>>] > 0 PROVE HoldsKey(d)
  <2>1. <<d, a>> \in Pairs
    BY DEF Pairs
  <2>2. CASE Dispatch(g) /\ PairOf(key[g]) = <<d, a>>
    <3>1. InFlight(g) /\ key[g][1] = d
      BY <2>2, DispatchStep DEF InFlight, PairOf
    <3> QED BY <3>1 DEF HoldsKey
  <2>3. CASE Dispatch(g) /\ PairOf(key[g]) # <<d, a>>
    <3>1. calls'[<<d, a>>] = calls[<<d, a>>]
      BY <2>1, <2>3, DispatchStep
    <3> QED BY <1>3, <3>1 DEF HoldsKey
  <2>4. CASE ~Dispatch(g)
    <3>1. UNCHANGED calls
      BY <2>4, GetDeliveryStep, GetSourceStep, ClaimStep, ListActionsStep,
         StoreTransformedStep, CreateAttemptStep, RecordResultStep,
         GetRetryDeliveryStep, GetActionStep, ClearRetryStep, RollUpActionsStep,
         RollUpAttemptsStep, WriteStatusStep
         DEF SameCalls, Working, ProcessDelivery, DispatchAction, RetryAttempt, RollUp
    <3> QED BY <1>3, <3>1 DEF HoldsKey
  <2> QED BY <2>2, <2>3, <2>4
<1>4. ASSUME NEW h \in Goroutines, InFlight(h)', key'[h][1] = d PROVE HoldsKey(d)
  <2>1. CASE h # g
    <3>1. InFlight(h) /\ key[h][1] = d
      BY <1>4, <2>1, OthersKept DEF Others, InFlight
    <3> QED BY <3>1 DEF HoldsKey
  <2>2. CASE h = g /\ CreateAttempt(g)
    <3>1. PICK a \in job[g].acts :
             \/ /\ key'[g] = <<job[g].id, a, AttemptNumber(job[g])>>
                /\ CanInsertAttempt(job[g].id, a, AttemptNumber(job[g]))
             \/ pc'[g] \in {"dispatch", "clear", "rollActions"}
      BY <2>2, CreateAttemptStep
    <3>2. key'[g][1] = job[g].id /\ DeliveryExists(job[g].id)
      BY <1>4, <2>2, <3>1 DEF CanInsertAttempt, InFlight
    <3> QED BY <1>4, <2>2, <3>2 DEF HoldsKey
  <2>3. CASE h = g /\ Dispatch(g)
    <3>1. InFlight(g) /\ key[g][1] = d
      BY <1>4, <2>3, DispatchStep DEF InFlight
    <3> QED BY <3>1 DEF HoldsKey
  <2>4. CASE h = g /\ ~CreateAttempt(g) /\ ~Dispatch(g)
    <3>1. pc'[g] \notin {"send", "result"}
      <4>1. CASE ProcessDelivery(g)
        BY <4>1, GetDeliveryStep, GetSourceStep, ClaimStep, ListActionsStep,
           StoreTransformedStep DEF ProcessDelivery, SameLocals
      <4>2. CASE RecordResult(g)
        BY <4>2, RecordResultStep
      <4>3. CASE RetryAttempt(g)
        BY <4>3, GetRetryDeliveryStep, GetActionStep, ClearRetryStep
           DEF RetryAttempt, SameLocals
      <4>4. CASE RollUp(g)
        BY <4>4, RollUpActionsStep, RollUpAttemptsStep, WriteStatusStep DEF RollUp
      <4> QED BY <2>4, <4>1, <4>2, <4>3, <4>4 DEF Working, DispatchAction
    <3> QED BY <1>4, <2>4, <3>1 DEF InFlight
  <2> QED BY <2>1, <2>2, <2>3, <2>4
<1> QED BY <1>2, <1>3, <1>4 DEF HoldsKey

(* Deletions and every other step that calls nobody.                        *)
LEMMA IdleKey ==
    ASSUME UNCHANGED calls,
           \A d \in Deliveries : DeliveryExists(d)' => DeliveryExists(d),
           \A g \in Goroutines : \/ pc'[g] = pc[g] /\ key'[g] = key[g]
                                 \/ pc'[g] = "idle"
    PROVE  NoNewHolder
  BY DEF NoNewHolder, HoldsKey, InFlight

LEMMA EditKey ==
    ASSUME IInv, UNCHANGED workerVars,
           \/ \E s \in Sources : CreateSource(s) \/ UpdateSource(s) \/ DeleteSource(s)
           \/ \E a \in Actions : CreateAction(a) \/ UpdateAction(a) \/ DeleteAction(a)
    PROVE  RowsLast /\ NoNewHolder
<1>1. UNCHANGED <<calls, pc, key>>
  BY DEF workerVars, locals, receivers
<1>2. ASSUME NEW s \in Sources, CreateSource(s) \/ UpdateSource(s)
      PROVE  RowsLast /\ UNCHANGED status
  <2>1. UNCHANGED status /\ mode[s] # "deleted" /\ \E m : mode' = [mode EXCEPT ![s] = m]
    BY <1>2 DEF CreateSource, UpdateSource, AddSource, SetSource, WriteSource,
       KeepDeliveries, SourceExists, LiveModes
  <2> QED BY <2>1, TablesAssumption DEF RowsLast, DeliveryExists, IInv, TypeOK, StoreTypeOK
<1>3. ASSUME NEW s \in Sources, DeleteSource(s)
      PROVE  RowsLast /\ \A d \in Deliveries : status'[d] \in {status[d], "none"}
  <2>1. /\ mode' = [mode EXCEPT ![s] = "deleted"]
        /\ status' = [d \in Deliveries |-> IF SourceOf[d] = s THEN "none" ELSE status[d]]
    BY <1>3 DEF DeleteSource, RemoveSource
  <2> QED BY <2>1, TablesAssumption DEF RowsLast, DeliveryExists, IInv, TypeOK, StoreTypeOK
<1>4. ASSUME NEW a \in Actions, CreateAction(a) \/ UpdateAction(a) \/ DeleteAction(a)
      PROVE  RowsLast /\ UNCHANGED status
  <2>1. UNCHANGED <<status, mode>>
    BY <1>4 DEF CreateAction, UpdateAction, DeleteAction, AddAction, SetAction,
       RemoveAction, KeepDeliveries
  <2> QED BY <2>1 DEF RowsLast, DeliveryExists
<1>5. RowsLast /\ \A d \in Deliveries : status'[d] \in {status[d], "none"}
  BY <1>2, <1>3, <1>4
<1> QED BY <1>1, <1>5, IdleKey DEF DeliveryExists

LEMMA KeyStep ==
    ASSUME IInv, KeyIsHeldOnce, [Next]_vars
    PROVE  KeyIsHeldOnce'
<1>i. IInv'
  BY NextInv
<1>1. CASE \E g \in Goroutines : Working(g)
  BY <1>1, WorkingKey, NobodyTakesKey
<1>2. CASE ApiNext /\ UNCHANGED workerVars
  <2>1. ASSUME NEW h \in Handlers, CreateDelivery(h)
        PROVE  KeyIsHeldOnce'
    BY <1>2, <2>1, CreateDeliveryKey
  <2>2. CASE \/ \E s \in Sources : CreateSource(s) \/ UpdateSource(s) \/ DeleteSource(s)
             \/ \E a \in Actions : CreateAction(a) \/ UpdateAction(a) \/ DeleteAction(a)
    BY <1>2, <2>2, EditKey, NobodyTakesKey
  <2>3. ASSUME NEW h \in Handlers, Ingest(h) \/ Forward(h) \/ Handle(h), ~CreateDelivery(h)
        PROVE  KeyIsHeldOnce'
    <3>1. UNCHANGED <<calls, pc, key, mode>>
      BY <1>2, <2>3 DEF workerVars, locals, receivers, Ingest, Forward, Handle,
         MarkRecorded, PublishToStream, Rearm, ForwardToStream, Unarm,
         StatusUpdateOnly, storeVars, tables
    <3>2. \/ UNCHANGED status
          \/ /\ req[h].id \in Deliveries
             /\ \E o : \E st \in {"pending", "recorded"} : UpdateStatus(o, req[h].id, st)
      BY <2>3 DEF Ingest, Forward, Handle, MarkRecorded, PublishToStream, Rearm,
         ForwardToStream, Unarm, storeVars, tables, IInv, TypeOK, ApiTypeOK, Requests
    <3>3. \A d \in Deliveries : status'[d] = "none" <=> status[d] = "none"
      BY <3>2, UpdateStatusType, LocalsAreFunctions DEF Statuses
    <3>4. RowsLast /\ NoNewHolder
      BY <3>1, <3>3, IdleKey DEF RowsLast, DeliveryExists
    <3> QED BY <3>4, NobodyTakesKey
  <2>4. CASE CrashApi
    <3>1. UNCHANGED <<calls, pc, key, mode, status>>
      BY <1>2, <2>4 DEF CrashApi, workerVars, locals, receivers, storeVars, tables
    <3>2. RowsLast /\ NoNewHolder
      BY <3>1, IdleKey DEF RowsLast, DeliveryExists
    <3> QED BY <3>2, NobodyTakesKey
  <2> QED BY <1>2, <2>1, <2>2, <2>3, <2>4 DEF ApiNext
<1>3. CASE \/ \E g \in Goroutines : Poll(g)
           \/ \E r \in Replicas : CrashWorker(r)
           \/ RedisLosesData /\ UNCHANGED <<workerVars, apiVars>>
           \/ UNCHANGED vars
  <2>1. /\ UNCHANGED <<calls, mode, status>>
        /\ \A g \in Goroutines : \/ pc'[g] = pc[g] /\ key'[g] = key[g]
                                 \/ pc'[g] = "idle"
    <3>1. CASE \E g \in Goroutines : Poll(g)
      BY <3>1, PollStep DEF SameLocals, SameRows, SameCalls
    <3>2. CASE \E r \in Replicas : CrashWorker(r)
      BY <3>2, CrashStep DEF SameRows, SameCalls
    <3>3. CASE \/ RedisLosesData /\ UNCHANGED <<workerVars, apiVars>>
               \/ UNCHANGED vars
      BY <3>3 DEF RedisLosesData, vars, storeVars, tables, workerVars, locals, receivers
    <3> QED BY <1>3, <3>1, <3>2, <3>3
  <2>2. RowsLast /\ NoNewHolder
    BY <2>1, IdleKey DEF RowsLast, DeliveryExists
  <2> QED BY <2>2, NobodyTakesKey
<1> QED BY <1>1, <1>2, <1>3 DEF Next, WorkerNext, Step, Working

(* A key that a delivery has taken is never another delivery's, not even    *)
(* after both rows are deleted.                                             *)
THEOREM KeyHeldOnce == Spec => []KeyIsHeldOnce
<1>1. Init => KeyIsHeldOnce
  <2> SUFFICES ASSUME Init, NEW d \in Deliveries PROVE ~HoldsKey(d)
    BY DEF KeyIsHeldOnce
  <2>1. ~DeliveryExists(d) /\ \A g \in Goroutines : ~InFlight(g)
    BY DEF Init, WorkerInit, DeliveryExists, InFlight
  <2>2. \A a \in Actions : ~(calls[<<d, a>>] > 0)
    BY DEF Init, WorkerInit, Pairs
  <2> QED BY <2>1, <2>2 DEF HoldsKey
<1>2. IInv /\ KeyIsHeldOnce /\ [Next]_vars => KeyIsHeldOnce'
  BY KeyStep
<1> QED BY <1>1, <1>2, InductiveInvariant, PTL DEF Spec

(* Posting twice with one idempotency key fans out once, whatever fails or  *)
(* is deleted meanwhile.                                                    *)
THEOREM FanoutOncePerKey == Spec => []OneFanoutPerKey
<1>1. IInv /\ KeyIsHeldOnce => OneFanoutPerKey
  <2> SUFFICES ASSUME IInv, KeyIsHeldOnce, NEW d \in Deliveries, NEW e \in Deliveries,
                      Rivals(d, e), NEW a \in Actions, NEW b \in Actions,
                      calls[<<d, a>>] # 0, calls[<<e, b>>] # 0
               PROVE  FALSE
    BY DEF OneFanoutPerKey
  <2>1. calls[<<d, a>>] > 0 /\ calls[<<e, b>>] > 0
    BY LocalsAreFunctions DEF Pairs
  <2> QED BY <2>1 DEF KeyIsHeldOnce, HoldsKey
<1> QED BY <1>1, InductiveInvariant, KeyHeldOnce, PTL

-----------------------------------------------------------------------------
(* Record mode                                                              *)

(* What the operator has not forwarded yet of a source in record mode.      *)
Unforwarded(d) == mode[SourceOf[d]] = "record" /\ forwarded[d] = 0
Untried(d) == \A a \in Actions, n \in Numbers : attempt[<<d, a, n>>] = "none"
NoForcedMessage(d) == /\ \A i \in 1 .. Len(stream) : stream[i] # Forced(d)
                      /\ \A g \in Fanouts : Forced(d) \notin work[g]
NoForward(d) == \A h \in Handlers : ~Forwards(h, d)
Stopped(d, g) == pc[g] # "idle" /\ job[g].id = d =>
                     pc[g] \in {"source", "close"} /\ ~job[g].force

LEMMA HeldBackParts ==
    ASSUME NEW d
    PROVE  /\ HeldBack(d) <=> /\ Untried(d) /\ NoForcedMessage(d) /\ NoForward(d)
                              /\ \A g \in Goroutines : Stopped(d, g)
           /\ HeldBack(d)' <=> /\ Untried(d)' /\ NoForcedMessage(d)' /\ NoForward(d)'
                               /\ \A g \in Goroutines : Stopped(d, g)'
  BY DEF HeldBack, Untried, NoForcedMessage, NoForward, Stopped

(* A step that adds no message, attempt or request keeps a delivery back.   *)
LEMMA StaysStopped ==
    ASSUME NEW d, \A g \in Goroutines : Stopped(d, g),
           \A g \in Goroutines : (pc'[g] = pc[g] /\ job'[g] = job[g]) \/ pc'[g] = "idle"
    PROVE  \A g \in Goroutines : Stopped(d, g)'
  BY DEF Stopped

LEMMA WorkingUntried ==
    ASSUME IInv, NEW d \in Deliveries, Untried(d), NEW g \in Goroutines, Stopped(d, g),
           Working(g)
    PROVE  Untried(d)'
<1> SUFFICES ASSUME NEW a \in Actions, NEW n \in Numbers
             PROVE  attempt'[<<d, a, n>>] = "none"
  BY DEF Untried
<1>1. <<d, a, n>> \in Keys /\ attempt[<<d, a, n>>] = "none"
  BY DEF Keys, Untried
<1>2. CASE CreateAttempt(g)
  <2>1. pc[g] = "dispatch" /\ job[g].id # d
    BY <1>2, CreateAttemptStep DEF Stopped
  <2>2. \/ UNCHANGED attempt
        \/ \E x \in Keys : x[1] = job[g].id /\ attempt' = [attempt EXCEPT ![x] = "pending"]
    BY <1>2, CreateAttemptStep
  <2> QED BY <1>1, <2>1, <2>2, LocalsAreFunctions
<1>3. CASE RecordResult(g)
  BY <1>1, <1>3, RecordResultStep
<1>4. CASE ~CreateAttempt(g) /\ ~RecordResult(g)
  <2>1. UNCHANGED attempt
    BY <1>4, GetDeliveryStep, GetSourceStep, ClaimStep, ListActionsStep,
       StoreTransformedStep, DispatchStep, GetRetryDeliveryStep, GetActionStep,
       ClearRetryStep, RollUpActionsStep, RollUpAttemptsStep, WriteStatusStep
       DEF SameRows, Working, ProcessDelivery, DispatchAction, RetryAttempt, RollUp
  <2> QED BY <1>1, <2>1
<1> QED BY <1>2, <1>3, <1>4

LEMMA WorkingStopped ==
    ASSUME IInv, NothingDeleted, edits = 0, NEW d \in Deliveries, HeldBack(d),
           mode[SourceOf[d]] = "record", NEW g \in Goroutines, Working(g)
    PROVE  Stopped(d, g)'
<1>s. Untried(d) /\ NoForcedMessage(d) /\ Stopped(d, g)
  BY HeldBackParts
<1> SUFFICES ASSUME pc'[g] # "idle", job'[g].id = d
             PROVE  pc'[g] \in {"source", "close"} /\ ~job'[g].force
  BY DEF Stopped
<1>1. CASE GetDelivery(g)
  <2>1. PICK m \in work[g] :
           /\ m \in Messages
           /\ SameLocals \/ (pc'[g] = "source" /\ job'[g].id = m.id
                                              /\ job'[g].force = m.force)
    BY <1>1, GetDeliveryStep
  <2>2. pc'[g] = "source" /\ m.id = d /\ job'[g].force = m.force /\ g \in Fanouts
    BY <1>1, <2>1, GetDeliveryStep DEF SameLocals
  <2>3. m.force => m = Forced(d)
    BY <2>1, <2>2 DEF Messages, Forced
  <2> QED BY <1>s, <2>2, <2>3 DEF NoForcedMessage
<1>2. CASE GetSource(g)
  <2>1. CASE pc'[g] = "close" /\ job'[g] = job[g]
    BY <1>s, <1>2, <2>1, GetSourceStep DEF Stopped
  <2>2. CASE /\ ~StoreOnly(mode[SourceOf[job[g].id]], job[g].force)
             /\ job'[g].id = job[g].id
    BY <1>s, <1>2, <2>2, GetSourceStep DEF Stopped, StoreOnly
  <2> QED BY <1>2, <2>1, <2>2, GetSourceStep
<1>3. CASE GetRetryDelivery(g)
  <2>1. PICK k \in Keys : k \in HeldRetries(g) /\ k[1] = d
    BY <1>3, GetRetryDeliveryStep DEF SameLocals
  <2>2. /\ g \in RetryPollers /\ k[2] \in Actions /\ k[3] \in Numbers
        /\ k = <<d, k[2], k[3]>>
    BY <1>3, <2>1, GetRetryDeliveryStep DEF Keys
  <2>3. attempt[k] = "failed"
    BY <2>1, <2>2, NothingGone DEF IInv, Ladder, Retries
  <2> QED BY <1>s, <2>2, <2>3 DEF Untried
<1>4. CASE ~GetDelivery(g) /\ ~GetSource(g) /\ ~GetRetryDelivery(g)
  <2>1. /\ pc[g] \notin {"idle", "source"} /\ job'[g].id = job[g].id
        /\ pc[g] # "close"
    <3>1. CASE ProcessDelivery(g)
      BY <1>4, <3>1, ClaimStep, ListActionsStep, StoreTransformedStep
         DEF ProcessDelivery, SameJob
    <3>2. CASE DispatchAction(g)
      BY <3>2, CreateAttemptStep, DispatchStep, RecordResultStep
         DEF DispatchAction, SameJob
    <3>3. CASE RetryAttempt(g)
      BY <1>4, <3>3, GetActionStep, ClearRetryStep DEF RetryAttempt, SameJob
    <3>4. CASE RollUp(g)
      BY <3>4, RollUpActionsStep, RollUpAttemptsStep, WriteStatusStep DEF RollUp, SameJob
    <3> QED BY <3>1, <3>2, <3>3, <3>4 DEF Working
  <2>2. pc[g] \notin {"source", "close", "idle"} /\ job[g].id = d
    BY <2>1
  <2> QED BY <1>s, <2>2 DEF Stopped
<1> QED BY <1>1, <1>2, <1>3, <1>4

LEMMA WorkingHeldBack ==
    ASSUME IInv, NothingDeleted, edits = 0, NEW d \in Deliveries, HeldBack(d),
           mode[SourceOf[d]] = "record", NEW g \in Goroutines, Working(g),
           UNCHANGED apiVars
    PROVE  HeldBack(d)'
<1>1. /\ Untried(d) /\ NoForcedMessage(d) /\ NoForward(d)
      /\ \A h \in Goroutines : Stopped(d, h)
  BY HeldBackParts
<1>2. Untried(d)'
  BY <1>1, WorkingUntried
<1>3. NoForcedMessage(d)'
  <2>1. UNCHANGED stream /\ \A h \in Fanouts : work'[h] \subseteq work[h]
    <3>1. CASE GetDelivery(g)
      <4>1. UNCHANGED stream /\ \E m : work' = [work EXCEPT ![g] = @ \ {m}]
        BY <3>1, GetDeliveryStep
      <4> QED BY <4>1, LocalsAreFunctions
    <3>2. CASE ~GetDelivery(g)
      BY <3>2, GetSourceStep, ClaimStep, ListActionsStep, StoreTransformedStep,
         CreateAttemptStep, DispatchStep, RecordResultStep, GetRetryDeliveryStep,
         GetActionStep, ClearRetryStep, RollUpActionsStep, RollUpAttemptsStep,
         WriteStatusStep
         DEF SameQueues, Working, ProcessDelivery, DispatchAction, RetryAttempt, RollUp
    <3> QED BY <3>1, <3>2
  <2> QED BY <1>1, <2>1 DEF NoForcedMessage, Forced
<1>4. NoForward(d)'
  BY <1>1 DEF NoForward, Forwards, apiVars
<1>5. ASSUME NEW h \in Goroutines, h # g PROVE Stopped(d, h)'
  BY <1>1, <1>5, OthersKept DEF Others, Stopped
<1>6. Stopped(d, g)'
  BY WorkingStopped
<1> QED BY <1>2, <1>3, <1>4, <1>5, <1>6, HeldBackParts

(* The messages in the stream after a step that appends m or takes one off. *)
LEMMA StreamStep ==
    ASSUME NEW s, s \in Seq(Messages), NEW t, NEW f \in Messages,
           NEW m \in Messages, m # f, \A i \in 1 .. Len(s) : s[i] # f,
           \/ t \in {s, << >>, Append(s, m), Tail(Append(s, m))}
           \/ s # << >> /\ t = Tail(s)
    PROVE  \A i \in 1 .. Len(t) : t[i] # f
<1>1. Append(s, m) \in Seq(Messages) /\ \A i \in 1 .. Len(Append(s, m)) : Append(s, m)[i] # f
  OBVIOUS
<1>2. ASSUME NEW u \in Seq(Messages), u # << >>, \A i \in 1 .. Len(u) : u[i] # f
      PROVE  \A i \in 1 .. Len(Tail(u)) : Tail(u)[i] # f
  BY <1>2
<1>3. Append(s, m) # << >>
  OBVIOUS
<1>4. CASE t = s
  BY <1>4
<1>5. CASE t = << >>
  BY <1>5
<1>6. CASE t = Append(s, m)
  BY <1>1, <1>6
<1>7. CASE t = Tail(Append(s, m))
  <2>1. \A i \in 1 .. Len(Tail(Append(s, m))) : Tail(Append(s, m))[i] # f
    BY <1>1, <1>2, <1>3
  <2> QED BY <2>1, <1>7
<1>8. CASE s # << >> /\ t = Tail(s)
  <2>1. \A i \in 1 .. Len(Tail(s)) : Tail(s)[i] # f
    BY <1>2, <1>8
  <2> QED BY <2>1, <1>8
<1> QED BY <1>4, <1>5, <1>6, <1>7, <1>8

(* What the handlers do to the stream and to the requests of the others.    *)
LEMMA HandleHeldBack ==
    ASSUME IInv, NEW d \in Deliveries, NoForcedMessage(d), NoForward(d),
           NEW h \in Handlers, Handle(h), UNCHANGED workerVars
    PROVE  NoForcedMessage(d)' /\ NoForward(d)'
<1>h. /\ at[h] # "idle" /\ req[h] \in Requests /\ req[h].id \in Deliveries
      /\ req[h].rest \in SUBSET Deliveries
      /\ at \in [Handlers -> {"idle", "create", "mark", "publish", "rearm", "force", "unarm"}]
      /\ req \in [Handlers -> Requests \cup {NoRequest}]
  BY DEF Handle, CreateDelivery, MarkRecorded, PublishToStream, Rearm, ForwardToStream,
     Unarm, IInv, TypeOK, ApiTypeOK, Requests
<1>w. UNCHANGED work
  BY DEF workerVars, locals
<1>f. Forced(d) \in Messages
  BY DEF Forced, Messages
<1>r. ASSUME Respond(h) PROVE NoForward(d)'
  BY <1>h, <1>r DEF Respond, NoForward, Forwards
<1>c. ASSUME NEW l, Continue(h, l),
             at[h] \in {"rearm", "force", "unarm"} \/ l \in {"mark", "publish"}
      PROVE  NoForward(d)'
  BY <1>h, <1>c DEF Continue, NoForward, Forwards
<1>n. ASSUME NextForward(h), at[h] \in {"rearm", "force", "unarm"} PROVE NoForward(d)'
  <2>1. CASE Respond(h)
    BY <1>r, <2>1
  <2>2. ASSUME NEW e \in req[h].rest, at' = [at EXCEPT ![h] = "rearm"],
               req' = [req EXCEPT ![h].id = e, ![h].rest = @ \ {e}]
        PROVE  NoForward(d)'
    <3>1. d \notin req[h].rest
      BY <1>n DEF NoForward, Forwards
    <3>2. req'[h].id # d /\ d \notin req'[h].rest
      BY <1>h, <2>2, <3>1 DEF Requests
    <3>3. \A i \in Handlers : i # h => req'[i] = req[i] /\ at'[i] = at[i]
      BY <1>h, <2>2
    <3> QED BY <3>2, <3>3 DEF NoForward, Forwards
  <2> QED BY <1>n, <2>1, <2>2, Zenon DEF NextForward
<1>s. ASSUME UNCHANGED stream PROVE NoForcedMessage(d)'
  BY <1>w, <1>s DEF NoForcedMessage, Forced
<1>p. ASSUME NEW o, NEW m \in Messages, m # Forced(d), Publish(o, m)
      PROVE  NoForcedMessage(d)'
  <2>1. stream \in Seq(Messages) /\ \A i \in 1 .. Len(stream) : stream[i] # Forced(d)
    BY DEF IInv, TypeOK, StoreTypeOK, NoForcedMessage
  <2>2. stream' \in {stream, << >>, Append(stream, m), Tail(Append(stream, m))}
    BY <1>p DEF Publish
  <2>3. \A i \in 1 .. Len(stream') : stream'[i] # Forced(d)
    BY <1>f, <1>p, <2>1, <2>2, StreamStep
  <2> QED BY <1>w, <2>3 DEF NoForcedMessage, Forced
<1>1. CASE CreateDelivery(h)
  <2>1. UNCHANGED stream
    BY <1>1 DEF CreateDelivery, StatusUpdateOnly, redis
  <2>2. Respond(h) \/ Continue(h, "mark") \/ Continue(h, "publish")
    BY <1>1 DEF CreateDelivery
  <2> QED BY <1>r, <1>c, <1>s, <2>1, <2>2
<1>2. CASE MarkRecorded(h)
  BY <1>2, <1>r, <1>s DEF MarkRecorded, StatusUpdateOnly, redis
<1>3. CASE PublishToStream(h)
  <2>1. [id |-> req[h].id, force |-> FALSE] \in Messages
    BY <1>h DEF Messages
  <2>2. [id |-> req[h].id, force |-> FALSE] # Forced(d)
    BY DEF Forced
  <2> QED BY <1>3, <1>r, <1>p, <2>1, <2>2 DEF PublishToStream
<1>4. CASE Rearm(h)
  <2>1. UNCHANGED stream /\ at[h] = "rearm" /\ (Continue(h, "force") \/ NextForward(h))
    BY <1>4 DEF Rearm, StatusUpdateOnly, redis
  <2> QED BY <1>c, <1>n, <1>s, <2>1
<1>5. CASE ForwardToStream(h)
  <2>1. at[h] = "force" /\ (Continue(h, "unarm") \/ NextForward(h))
    BY <1>5 DEF ForwardToStream
  <2>2. [id |-> req[h].id, force |-> TRUE] \in Messages
    BY <1>h DEF Messages
  <2>3. req[h].id # d
    BY <2>1 DEF NoForward, Forwards
  <2>4. [id |-> req[h].id, force |-> TRUE] # Forced(d)
    BY <2>3 DEF Forced
  <2> QED BY <1>5, <1>c, <1>n, <1>p, <2>1, <2>2, <2>4 DEF ForwardToStream
<1>6. CASE Unarm(h)
  <2>1. UNCHANGED stream /\ at[h] = "unarm" /\ NextForward(h)
    BY <1>6 DEF Unarm, StatusUpdateOnly, redis
  <2> QED BY <1>n, <1>s, <2>1
<1> QED BY <1>1, <1>2, <1>3, <1>4, <1>5, <1>6 DEF Handle

(* Forwards are counted.                                                    *)
LEMMA ForwardCounts ==
    ASSUME IInv, NEW d \in Deliveries, NEW h \in Handlers, Ingest(h) \/ Forward(h),
           forwarded'[d] = 0
    PROVE  forwarded[d] = 0
<1>t. forwarded[d] \in Nat
  BY ApiAssumption DEF IInv, TypeOK, ApiTypeOK
<1>1. CASE Ingest(h)
  BY <1>1 DEF Ingest, SameRequests
<1>2. CASE Forward(h)
  <2>1. PICK batch : forwarded' = [e \in Deliveries |->
                  IF e \in batch THEN forwarded[e] + 1 ELSE forwarded[e]]
    BY <1>2, Zenon DEF Forward
  <2> QED BY <1>t, <2>1
<1> QED BY <1>1, <1>2

(* A request to ingest or to forward others than d.                         *)
LEMMA RequestHeldBack ==
    ASSUME IInv, NEW d \in Deliveries, NoForward(d), NEW h \in Handlers,
           Ingest(h) \/ Forward(h), forwarded'[d] = 0
    PROVE  NoForward(d)'
<1>t. /\ at \in [Handlers -> {"idle", "create", "mark", "publish", "rearm", "force", "unarm"}]
      /\ req \in [Handlers -> Requests \cup {NoRequest}]
      /\ forwarded[d] \in Nat
  BY ApiAssumption DEF IInv, TypeOK, ApiTypeOK
<1>1. CASE Ingest(h)
  <2>1. forwarded' = forwarded /\ at' = [at EXCEPT ![h] = "create"]
    BY <1>1 DEF Ingest, SameRequests
  <2>2. \E r : req' = [req EXCEPT ![h] = r]
    BY <1>1 DEF Ingest
  <2>3. \A i \in Handlers : i # h => req'[i] = req[i] /\ at'[i] = at[i]
    BY <1>t, <2>1, <2>2
  <2>4. at'[h] = "create"
    BY <1>t, <2>1
  <2>5. NoForward(d)'
    BY <2>3, <2>4 DEF NoForward, Forwards
  <2> QED BY <2>5
<1>2. CASE Forward(h)
  <2>1. PICK batch :
           /\ forwarded' = [e \in Deliveries |->
                  IF e \in batch THEN forwarded[e] + 1 ELSE forwarded[e]]
           /\ \E e \in batch : req' = [req EXCEPT ![h] =
                  [id |-> e, rest |-> batch \ {e}, mode |-> "record"]]
    BY <1>2, Zenon DEF Forward
  <2>2. d \notin batch
    BY <1>t, <2>1
  <2>3. PICK e \in batch : req' = [req EXCEPT ![h] =
                  [id |-> e, rest |-> batch \ {e}, mode |-> "record"]]
    BY <2>1
  <2>4. at' = [at EXCEPT ![h] = "rearm"]
    BY <1>2 DEF Forward
  <2>5. /\ \A i \in Handlers : i # h => req'[i] = req[i] /\ at'[i] = at[i]
        /\ req'[h].id = e /\ req'[h].rest = batch \ {e}
    BY <1>t, <2>3, <2>4
  <2>6. NoForward(d)'
    BY <2>2, <2>3, <2>5 DEF NoForward, Forwards
  <2> QED BY <2>6
<1> QED BY <1>1, <1>2

(* Steps of the queues: polls, crashes of a worker, losses of Redis.        *)
LEMMA QueueHeldBack ==
    ASSUME IInv, NEW d \in Deliveries, HeldBack(d), UNCHANGED apiVars,
           \/ \E g \in Goroutines : Poll(g)
           \/ \E r \in Replicas : CrashWorker(r)
           \/ RedisLosesData /\ UNCHANGED workerVars
           \/ UNCHANGED <<storeVars, workerVars>>
    PROVE  HeldBack(d)'
<1>p. /\ Untried(d) /\ NoForcedMessage(d) /\ NoForward(d)
      /\ \A g \in Goroutines : Stopped(d, g)
  BY HeldBackParts
<1>f. Forced(d) \in Messages /\ [id |-> d, force |-> FALSE] \in Messages
      /\ Forced(d) # [id |-> d, force |-> FALSE] /\ Forced(d).force
  BY DEF Forced, Messages
<1>t. stream \in Seq(Messages) /\ \A i \in 1 .. Len(stream) : stream[i] # Forced(d)
  BY <1>p DEF IInv, TypeOK, StoreTypeOK, NoForcedMessage
<1>1. /\ UNCHANGED attempt
      /\ \A g \in Goroutines : (pc'[g] = pc[g] /\ job'[g] = job[g]) \/ pc'[g] = "idle"
      /\ stream' \in {stream, << >>} \/ (stream # << >> /\ stream' = Tail(stream))
      /\ \A g \in Fanouts : Forced(d) \notin work'[g]
  <2>1. CASE \E g \in Goroutines : Poll(g)
    <3>1. PICK g \in Goroutines : Poll(g)
      BY <2>1
    <3>2. stream # << >> => Head(stream) # Forced(d)
      BY <1>t
    <3>3. \A h \in Fanouts : Forced(d) \notin work'[h]
      BY <1>p, <1>f, <3>1, <3>2, PollStep DEF NoForcedMessage
    <3> QED BY <3>1, <3>3, PollStep DEF SameLocals, SameRows
  <2>2. CASE \E r \in Replicas : CrashWorker(r)
    BY <1>p, <2>2, CrashStep DEF SameRows, NoForcedMessage
  <2>3. CASE RedisLosesData /\ UNCHANGED workerVars
    BY <1>p, <2>3 DEF RedisLosesData, tables, workerVars, locals, NoForcedMessage
  <2>4. CASE UNCHANGED <<storeVars, workerVars>>
    BY <1>p, <2>4 DEF storeVars, tables, redis, workerVars, locals, NoForcedMessage
  <2> QED BY <2>1, <2>2, <2>3, <2>4
<1>2. Untried(d)'
  BY <1>p, <1>1 DEF Untried
<1>3. \A i \in 1 .. Len(stream') : stream'[i] # Forced(d)
  BY <1>f, <1>t, <1>1, StreamStep
<1>4. NoForcedMessage(d)'
  BY <1>1, <1>3 DEF NoForcedMessage, Forced
<1>5. NoForward(d)'
  BY <1>p DEF NoForward, Forwards, apiVars
<1>6. \A g \in Goroutines : Stopped(d, g)'
  BY <1>p, <1>1, StaysStopped
<1> QED BY <1>2, <1>4, <1>5, <1>6, HeldBackParts

LEMMA HeldBackStep ==
    ASSUME IInv, NothingDeleted, UnforwardedIsHeldBack, [Next]_vars
    PROVE  UnforwardedIsHeldBack'
<1> SUFFICES ASSUME edits' = 0, NEW d \in Deliveries,
                    mode'[SourceOf[d]] = "record", forwarded'[d] = 0
             PROVE  HeldBack(d)'
  BY DEF UnforwardedIsHeldBack
<1>1. edits = 0 /\ UNCHANGED mode
  BY StepOrOutside, WorkingGrows DEF Outside, Grows
<1>2. ASSUME forwarded[d] = 0
      PROVE  /\ HeldBack(d) /\ Untried(d) /\ NoForcedMessage(d) /\ NoForward(d)
             /\ \A g \in Goroutines : Stopped(d, g)
  BY <1>1, <1>2, HeldBackParts DEF UnforwardedIsHeldBack
<1>3. CASE WorkerNext /\ UNCHANGED apiVars
  <2>1. HeldBack(d) /\ mode[SourceOf[d]] = "record"
    BY <1>1, <1>2, <1>3 DEF apiVars
  <2>2. CASE \E g \in Goroutines : Working(g)
    BY <1>1, <1>3, <2>1, <2>2, WorkingHeldBack
  <2>3. CASE \E g \in Goroutines : Poll(g)
    BY <1>3, <2>1, <2>3, QueueHeldBack
  <2>4. CASE \E r \in Replicas : CrashWorker(r)
    BY <1>3, <2>1, <2>4, QueueHeldBack
  <2> QED BY <1>3, <2>2, <2>3, <2>4 DEF WorkerNext, Step, Working
<1>4. CASE ApiNext /\ UNCHANGED workerVars
  <2>w. UNCHANGED <<pc, job, work>>
    BY <1>4 DEF workerVars, locals
  <2>e. ~Edit
    BY <1>1 DEF Edit
  <2>1. ASSUME NEW h \in Handlers, Ingest(h) \/ Forward(h) PROVE HeldBack(d)'
    <3>1. UNCHANGED <<attempt, stream>>
      BY <2>1 DEF Ingest, Forward, storeVars, tables, redis
    <3>3. forwarded[d] = 0
      BY <2>1, ForwardCounts
    <3>4. NoForward(d)'
      BY <1>2, <2>1, <3>3, RequestHeldBack
    <3>5. /\ Untried(d)' /\ NoForcedMessage(d)' /\ \A g \in Goroutines : Stopped(d, g)'
      BY <1>2, <2>w, <3>1, <3>3 DEF Untried, NoForcedMessage, Forced, Stopped
    <3> QED BY <3>4, <3>5, HeldBackParts
  <2>2. ASSUME NEW h \in Handlers, Handle(h) PROVE HeldBack(d)'
    <3>1. UNCHANGED <<attempt, forwarded>>
      BY <2>2 DEF Handle, CreateDelivery, MarkRecorded, PublishToStream, Rearm,
         ForwardToStream, Unarm, StatusUpdateOnly, SameRequests, tables
    <3>2. NoForcedMessage(d)' /\ NoForward(d)'
      BY <1>2, <1>4, <2>2, <3>1, HandleHeldBack
    <3>3. Untried(d)' /\ \A g \in Goroutines : Stopped(d, g)'
      BY <1>2, <2>w, <3>1 DEF Untried, Stopped
    <3> QED BY <3>2, <3>3, HeldBackParts
  <2>3. CASE CrashApi
    <3>1. /\ UNCHANGED <<attempt, forwarded, stream>>
          /\ \A h \in Handlers : at'[h] = "idle"
      BY <2>3 DEF CrashApi, storeVars, tables, redis
    <3>2. NoForward(d)'
      BY <3>1 DEF NoForward, Forwards
    <3>3. /\ Untried(d)' /\ NoForcedMessage(d)' /\ \A g \in Goroutines : Stopped(d, g)'
      BY <1>2, <2>w, <3>1 DEF Untried, NoForcedMessage, Forced, Stopped
    <3> QED BY <3>2, <3>3, HeldBackParts
  <2>4. \/ \E h \in Handlers : Ingest(h) \/ Forward(h) \/ Handle(h)
        \/ CrashApi
    BY <1>4, <2>e DEF ApiNext, CreateSource, UpdateSource, DeleteSource, CreateAction,
       UpdateAction, DeleteAction
  <2> QED BY <2>1, <2>2, <2>3, <2>4
<1>5. CASE RedisLosesData /\ UNCHANGED <<workerVars, apiVars>>
  <2>1. HeldBack(d)
    BY <1>1, <1>2, <1>5 DEF apiVars
  <2> QED BY <1>5, <2>1, QueueHeldBack
<1>6. CASE UNCHANGED vars
  <2>1. HeldBack(d)
    BY <1>1, <1>2, <1>6 DEF vars, apiVars
  <2> QED BY <1>6, <2>1, QueueHeldBack DEF vars
<1> QED BY <1>3, <1>4, <1>5, <1>6 DEF Next

(* Until the operator forwards it, nobody who works on a delivery of a      *)
(* source in record mode passes the test of the mode, and nobody tells him. *)
THEOREM UnforwardedHeldBack == Spec => []UnforwardedIsHeldBack
<1>1. Init => UnforwardedIsHeldBack
  BY DEF Init, WorkerInit, ApiInit, UnforwardedIsHeldBack, HeldBack, Forwards, Keys
<1>2. IInv /\ NothingDeleted /\ UnforwardedIsHeldBack /\ [Next]_vars
         => UnforwardedIsHeldBack'
  BY HeldBackStep
<1> QED BY <1>1, <1>2, InductiveInvariant, DeletedByEdits, PTL DEF Spec

(* What is posted to a source in record mode reaches no action before the   *)
(* operator forwards it, although it is pending until Ingest has marked it. *)
THEOREM RecordModeHolds == Spec => []RecordModeIsQuiet
<1>1. IInv /\ NothingDeleted /\ UnforwardedIsHeldBack => RecordModeIsQuiet
  <2> SUFFICES ASSUME IInv, NothingDeleted, UnforwardedIsHeldBack, edits = 0,
                      NEW d \in Deliveries, NEW a \in Actions,
                      mode[SourceOf[d]] = "record", calls[<<d, a>>] > 0,
                      ~(forwarded[d] > 0)
               PROVE  FALSE
    BY DEF RecordModeIsQuiet
  <2>1. forwarded[d] = 0
    BY ApiAssumption DEF IInv, TypeOK, ApiTypeOK
  <2>2. \A n \in Numbers : attempt[<<d, a, n>>] = "none"
    BY <2>1 DEF UnforwardedIsHeldBack, HeldBack
  <2>3. calls[<<d, a>>] <= Top /\ attempt[<<d, a, calls[<<d, a>>]>>] # "none"
    BY NothingGone DEF IInv, Ladder, Calls
  <2>4. calls[<<d, a>>] \in Numbers
    BY <2>3, LocalsAreFunctions, BoundsAssumption DEF Pairs, Numbers, Top
  <2> QED BY <2>2, <2>3, <2>4
<1> QED BY <1>1, InductiveInvariant, DeletedByEdits, UnforwardedHeldBack, PTL
=============================================================================
