SPECIFICATION Spec
CONSTANTS
    i1 = i1
    Plans <- TwoPlans
    Actions <- ThreeActions
    Instruments <- MCInstruments
    InstrumentOf <- MCInstrumentOf
    Kinds <- AllKinds
    MaxQuantity = 2
    MaxTargets = 1
    MaxLiquidity = 2
CHECK_DEADLOCK FALSE
INVARIANTS
    OneActivePlan
    PendingEntryIsWorking
    NoOverfill
    LotsAccountForFills
    StagedUntilEntered
PROPERTIES
    KeepsLifecycle
