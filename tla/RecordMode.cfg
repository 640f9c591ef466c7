CONSTANTS
    s1 = s1 h1 = h1 h2 = h2 a1 = a1 a2 = a2 d1 = d1 d2 = d2 k1 = k1 k2 = k2
    c1 = c1 c2 = c2 p1 = p1 p2 = p2 q1 = q1 q2 = q2 r1 = r1 r2 = r2
    Sources = {s1}
    Actions = {a1}
    Deliveries = {d1, d2}
    SourceOf <- OneSource
    KeyOf <- OwnKey
    OwnerOf <- OneOwner
    Handlers = {h1, h2}
    Consumers = {c1}
    PendingPollers = {p2}
    RetryPollers = {q1}
    Replicas = {r1, r2}
    ReplicaOf <- TwoReplicas
    LiveSources = {s1}
    RecordSources = {s1}
    ScriptedSources = {}
    LiveActions = {a1}
    SkippingActions = {}
    MaxRetries = 1
    StreamMax = 1
    PollLimit = 2
    MaxDbFaults = 0
    MaxRedisFaults = 0
    MaxCrashes = 0
    MaxApiCrashes = 1
    MaxForwards = 1
    MaxEdits = 0
    NoJob = NoJob
    NoKey = NoKey
    NoRequest = NoRequest
SPECIFICATION FairSpec
INVARIANT RecordModeIsQuiet
INVARIANT UnforwardedIsHeldBack
PROPERTY ForwardIsDispatched
