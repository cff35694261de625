SPECIFICATION QueueSpec
CONSTANTS
    Senders = {s1, s2, s3}
    Capacity = 2

CHECK_DEADLOCK FALSE
INVARIANTS
    DepthAccountsForEvents
    MetricsAreBounded
    SnapshotIsCovered
PROPERTY WatermarkCoversCounts
