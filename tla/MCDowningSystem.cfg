SPECIFICATION Spec
CONSTANTS
    Player = {p1, p2, p3}
    Room = {r1}
    BLEED_OUT_TICKS = 4
    GRACE_TICKS = 2
    STABILIZE_CHANNEL_TICKS = 2
INVARIANTS
    TypeOK
    ClocksAgree
    ChannelsHavePatients
PROPERTIES
    NoDeathInGrace
    RescueBeatsBleedOut
    BleedingEnds
