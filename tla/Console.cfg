SPECIFICATION ConsoleFairSpec
CONSTANTS
    HoursOfDay = 4
    HourLength = 1
    Days = {1, 2}
    Blank = blank
    Garbled = garbled
    NaN = nan
    Groups = {"default", "vip"}
    Models = {"m1"}
    DefaultGroup = "default"
    NoRule = norule
    NoModel = nomodel
    TypedTimes <- TypedTimesMC
    DefaultSlot <- DefaultSlotMC
    ExtraSlot <- ExtraSlotMC
    SharedPrices <- SharedPricesMC
    PageIsAdmins = TRUE
    MaxSlots = 2
    MaxGestures = 4
    Accounts = {"admin", "bob", "new"}
    Root = "admin"
    Me = "bob"
    Short = short
    UserGroups = {"default", "vip"}
    Gone = gone
    DefaultUserGroup = "default"
    NoUser = nouser
    Registered <- RegisteredMC
    MaxUserSteps = 3
    Cards = {card}
    NoCard = nocard
    WalletIsAdmins = TRUE
    MaxWalletSteps = 2
    Admins = {root}
    Members = {ann}
    NoOne = noone
    Tabs = {"dashboard", "wallet", "docs"}
    MaxSessionSteps = 2
    MaxLog = 3
    Conversations = {"s1", "s2"}
    NoFilter = nofilter
    SessionOf <- SessionOfMC
    OldLogs = {1, 2}
    PageSize = 1
    MaxLogSteps = 2
    Channels = {"ch1", "ch2"}
    NoChannel = nochannel
    Upstreams = {"u1", "u2"}
    NoUpstream = "none"
    KnownProviders <- KnownProvidersMC
    MaxChannelSteps = 4
    PlayModels = {"c1", "c2", "v1", "v2"}
    Unset = "unset"
    inferClientModality <- ModalityMC
    PlayKeys = {"k1", "k2"}
    NoKey = "nokey"
    Passthrough = "passthrough"
    Catalogues <- CataloguesMC
    MaxPolls = 2
    MaxOverlap = 2
    MaxPlaySteps = 4
CHECK_DEADLOCK FALSE
INVARIANT ConsoleTypeOK
INVARIANT SentWindowsUnambiguous
INVARIANT StoredWindowsUnambiguous
INVARIANT AsksOnlyWhatIsAllowed
INVARIANT OneAdjustmentAtATime
INVARIANT OneBalanceShown
INVARIANT CreditedOncePerPress
INVARIANT AdminTabsNeedAnAdmin
INVARIANT SavedWhereItCameFrom
INVARIANT PlaysOfferedModels
INVARIANT LoadingIsUnderWay
PROPERTY OnlyTheUserTurnsPages
PROPERTY TimerHasTheLastWord
