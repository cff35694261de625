SPECIFICATION LeaseSpec
CONSTANTS
    Owners = {a, b}
    NoOwner = NoOwner
    Durations <- MCDurations
    MaxLag = 2
    MaxTime = 6
INVARIANTS
    AtMostOneHolder
PROPERTIES
    SupersededOwnerIsFenced
