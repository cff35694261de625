SPECIFICATION Spec
CONSTANTS
    x = x
    Callers = {r1, r2}
    Contexts = {x}
    Cycles = {c1, c2}
    ContextOf <- SameContext
    Attempts = 2
    Observations = 1
    CallLimit = 2
    TokenLimit = 3
    CostLimit = 4
    InputBound = 1
    MaxOutput = 1
    Prices <- MCPrices
    Reports <- MCReports
    MaxDay = 2
    NoCaller = NoCaller
    NoContext = NoContext
    NoCycle = NoCycle
SYMMETRY Interchangeable
CHECK_DEADLOCK FALSE
INVARIANTS
    BudgetIsExact
    LogMatchesEffects
    OneReplanPerContext
PROPERTIES
    ImplementsCycleLedger
