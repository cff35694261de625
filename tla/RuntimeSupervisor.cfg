SPECIFICATION FairSpec
CONSTANTS
    t1 = t1
    t2 = t2
    t3 = t3
    Tasks <- MCTasks
    Critical <- MCCritical
    TaskLimit = 2
INVARIANTS
    FaultsAreReported
    ReportAccountsForTasks
    ReportIsExplained
PROPERTIES
    ShutdownEnds
