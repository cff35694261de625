SPECIFICATION EmergencySpec
CONSTANTS
    i1 = i1
    i2 = i2
    b1 = b1
    b2 = b2
    Plans <- TwoPlans
    Actions <- ThreeActions
    Instruments <- OneInstrument
    InstrumentOf <- MCInstrumentOf
    Kinds <- EntryAndExit
    MaxQuantity = 2
    MaxTargets = 1
    MaxLiquidity = 1
    Emergencies = {e1}
    Observations <- TwoObservations
    ObservationOn <- MCObservationOn
    LiquidityIn <- MCLiquidityIn
    LimitIn <- MCLimitIn
    Changes <- StartAndRecover
CHECK_DEADLOCK FALSE
INVARIANTS
    EmergencyAccountsForLots
PROPERTIES
    TerminalOrderIsFinal
    CompletedMeansFlat
    HaltIsNotOverwritten
