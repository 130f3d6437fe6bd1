SPECIFICATION Spec
CONSTANTS
    p1 = p1
    p2 = p2
    Player = {p1, p2}
    Room = {r1}
    SandboxRoom = {}
    MaxSessions <- NoReturn
    BLEED_OUT_TICKS = 2
    GRACE_TICKS = 1
    STABILIZE_CHANNEL_TICKS = 1
INVARIANTS
    AbandonedAreCleanedUp
