SPECIFICATION Spec
CONSTANTS
    home = home
    other = other
    ann = ann
    bob = bob
    Chats <- MCChats
    Users = {ann, bob}
    AllowedChats <- MCChats
    Operators = {ann}
    Inputs <- MCInputs
    BatchLimit = 2
    MaxPending = 1
    ConfirmationTtl = 1
    MaxUpdates = 3
    MaxClock = 2
    MaxChallenges = 2
    MaxRestarts = 1
    MaxEvents = 3
    NotifyLimit = 2
CHECK_DEADLOCK FALSE
INVARIANT AcceptedCommandReturns
