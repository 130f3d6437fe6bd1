SPECIFICATION FairSpec
CONSTANTS
    Page = {p1}
    Zone = {z1, z2}
    RoomName = z1
    None = None
    MAX_ATTEMPTS = 2
    MaxConns = 5
    MaxEvents = 3
CHECK_DEADLOCK FALSE
INVARIANTS
    SpinnersWork
    NoSilentEnd
PROPERTIES
    RetryingEnds
    SwitchesEnd
