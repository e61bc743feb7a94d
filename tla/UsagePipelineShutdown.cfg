SPECIFICATION Spec
CONSTANTS
    Nodes = {n1, n2}
    Requests = {r1, r2}
    NoNode = none
    RingSize = 1
    BatchSize = 2
    StreamMax = 1
    Redis = FALSE
PROPERTY ExitIsDrained
