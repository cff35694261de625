SPECIFICATION Spec
CONSTANTS
    MaxRuns = 2
    BuyQty = 2
    BuyFee = 1
    FillParts = 2
    Minimum = 2
CHECK_DEADLOCK FALSE
INVARIANTS
    TouchesOnlyItsOwn
    OneUnrecordedOrderPerRun
    EndedRunsLeaveNothingOpen
