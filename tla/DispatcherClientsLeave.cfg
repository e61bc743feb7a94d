SPECIFICATION Spec
CONSTANTS
    r1 = r1  r2 = r2  c1 = c1  c2 = c2
    m1 = m1  m2 = m2  m3 = m3  m4 = m4  m5 = m5  m6 = m6
    NoChannel = none
    NoModel = nomodel
    Requests = {r1}
    Channels = {c1, c2}
    Models = {m1}
    Kinds = {"chat"}
    FailureThreshold = 2
    Cooldown = 1
    Fold <- SameCase
    Tier <- OneTier
    Rank <- ConfigOrder
    Width <- Widths
    Tables <- EverywhereTable
    FallbackMaps <- NoFallbacks
    Callable <- AllCallable
    Rejections = FALSE
    ClientsLeave = TRUE
PROPERTY TripsOnUpstreamFaults
