SPECIFICATION Spec
CONSTANTS
    r1 = r1  r2 = r2  c1 = c1  c2 = c2
    m1 = m1  m2 = m2  m3 = m3  m4 = m4  m5 = m5  m6 = m6
    NoChannel = none
    NoModel = nomodel
    Requests = {r1}
    Channels = {c1, c2}
    Models = {m1, m2, m3, m4, m5, m6}
    Kinds = {"chat", "embed"}
    FailureThreshold = 1
    Cooldown = 1
    Fold <- CasePairs
    Tier <- TwoTiers
    Rank <- ConfigOrder
    Width <- Widths
    Tables <- FallbackTables
    FallbackMaps <- FallbackMapsMC
    Callable <- OneNotCallable
    Rejections = FALSE
    ClientsLeave = FALSE
INVARIANT TrailTellsTheCalls
INVARIANT NoCallRepeated
INVARIANT FallbackIsBounded
