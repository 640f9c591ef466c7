CONSTANTS
    s1 = s1 h1 = h1 h2 = h2 a1 = a1 a2 = a2 d1 = d1 d2 = d2 k1 = k1 k2 = k2
    c1 = c1 c2 = c2 p1 = p1 p2 = p2 q1 = q1 q2 = q2 r1 = r1 r2 = r2
    Sources = {s1}
    Actions = {a1, a2}
    Deliveries = {d1}
    SourceOf <- OneSource
    KeyOf <- OneKey
    OwnerOf <- OneOwner
    Handlers = {h1}
    Consumers = {c1}
    PendingPollers = {p2}
    RetryPollers = {q1}
    Replicas = {r1, r2}
    ReplicaOf <- TwoReplicas
    LiveSources = {s1}
    RecordSources = {}
    ScriptedSources = {}
    LiveActions = {a1, a2}
    SkippingActions = {}
    MaxRetries = 2
    StreamMax = 2
    PollLimit = 2
    MaxDbFaults = 0
    MaxRedisFaults = 0
    MaxCrashes = 0
    MaxApiCrashes = 0
    MaxForwards = 0
    MaxEdits = 1
    NoJob = NoJob
    NoKey = NoKey
    NoRequest = NoRequest
SPECIFICATION Spec
INVARIANT CompletedIsFinal
