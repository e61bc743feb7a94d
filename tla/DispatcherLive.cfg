SPECIFICATION FairSpec
CONSTANTS
    r1 = r1  r2 = r2  c1 = c1  c2 = c2
    m1 = m1  m2 = m2  m3 = m3  m4 = m4  m5 = m5  m6 = m6
    NoChannel = none
    NoModel = nomodel
    Requests = {r1}
    Channels = {c1, c2}
    Models = {m1, m2}
    Kinds = {"chat", "stream"}
    FailureThreshold = 1
    Cooldown = 1
    Fold <- SameCase
    Tier <- TwoTiers
    Rank <- ConfigOrder
    Width <- Widths
    Tables <- EverywhereTable
    FallbackMaps <- BackAndForth
    Callable <- AllCallable
    Rejections = FALSE
    ClientsLeave = TRUE
PROPERTY CommittedAfterFirstToken
PROPERTY OnlyBodiesStall
PROPERTY LeavingEndsTheRequest
