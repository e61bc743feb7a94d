SPECIFICATION Spec
CONSTANTS
    Nodes = {n1, n2}
    Requests = {r1, r2}
    NoNode = none
    RingSize = 1
    BatchSize = 2
    StreamMax = 1
    Redis = TRUE
SYMMETRY Alike
INVARIANT TypeOK
INVARIANT EveryRecordIsAccountedFor
INVARIANT ChargedOnce
PROPERTY GracefulExitIsDrained
