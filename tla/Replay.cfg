\* Three live instruments and one cooldown slot less; windows of four candles.
CONSTANTS
    Window = 4
    DonchianUpper = 3
    DonchianLower = 2
    AtrPeriod = 2
    EmaFast = 2
    EmaSlow = 3
    Wilder = 2
    VolumePeriod = 2
    Primary = 2
    Hour = 4
    StalenessIntervals = 2
    BookMaxAge = 1
    Scale = 10
    MinimumTurnover = 100
    MaximumSpread = 50
    Cooldown = 3
    EventTtl = 2
    CallLimit = 4
    TokenLimit = 10
    CostLimit = 4
    MaximumConcurrency = 1
    ReservedTokens = 2
    ReservedCost = 1
    VolumeAnomaly = 20
    VolatilityExpansion = 12
    InvalidationRisk = 15
    MaxTracked = 2
    MaxSeen = 2
    Requests <- MCRequests
    Ceiling = 802
    LiveSnapshots <- MCLiveSnapshots
    Contexts <- MCContexts
    LiveTimes = {0, 1, 2, 3, 4, 5}
SPECIFICATION ReplaySpec
INVARIANTS
    NoLookAhead
    MirrorImage
    EventsAreSpaced
CHECK_DEADLOCK FALSE
