SPECIFICATION Spec
CONSTANTS
    i1 = i1
    Instruments = {i1}
    KlineHistory <- MCKlines
    BookHistory <- MCBooks
    QueueCapacity = 2
    MaxFailures = 3
CHECK_DEADLOCK FALSE
INVARIANTS
    FreshMeansDelivered
    GivesUpOnlyWhenBarren
PROPERTIES
    ActorSeesOnlyNews
    ShutdownEndsStream
