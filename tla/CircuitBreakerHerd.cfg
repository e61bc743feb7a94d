SPECIFICATION Spec
CONSTANTS
    FailureThreshold = 2
    Cooldown = 1
    Callers = {r1, r2, r3}
    Channels = {c1}
    NoChannel = none
INVARIANT YoungProbesLimited
