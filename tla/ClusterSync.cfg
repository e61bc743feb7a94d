SPECIFICATION PlaySpec
CONSTANTS
    n1 = n1  n2 = n2  h1 = h1  h2 = h2
    Nodes = {n1, n2}
    Handlers = {h1, h2}
    NoTask = none
    NoNode = nowhere
    Order <- TwoParts
    Required = {"channels"}
    Redis = TRUE
    MaxFaults = 1
INVARIANT TypeOK
INVARIANT ReadYourWrites
INVARIANT NotedMeansLoaded
INVARIANT PricesInForce
PROPERTY NoRollback
PROPERTY Converges
