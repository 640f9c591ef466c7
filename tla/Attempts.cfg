CONSTANTS
    f1 = f1 q1 = q1 q2 = q2
    Goroutines = {f1, q1, q2}
    Fanouts = {f1}
    Pollers = {q1, q2}
    Skew <- Clocks
    MaxSkew = 1
    Rows <- SomeRows
    MaxCrashes = 1
    MaxRetries = 4
    BaseDelay = 2
    MaxDelay = 3
    Width = 4
SPECIFICATION FairSpec
INVARIANT TypeOK
INVARIANT Ladder
INVARIANT Capping
PROPERTY Spacing
PROPERTY GoroutinesReturn
PROPERTY FailedIsFollowed
