SPECIFICATION FairSpec
CONSTANTS
    FailureThreshold = 3
    Cooldown = 2
    Callers = {r1, r2, r3, r4}
    Channels = {c1}
    NoChannel = none
INVARIANT TypeOK
INVARIANT ClosedCountsTheStreak
INVARIANT SoleProbe
PROPERTY ImplementsGate
PROPERTY NeverShutOut
