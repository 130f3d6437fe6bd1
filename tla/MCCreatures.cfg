SPECIFICATION Spec
CONSTANTS
    den = den
    hall = hall
    abroad = abroad
    Room = {den, hall}
    Elsewhere = {abroad}
    Exits <- MCExits
    None = None
    Spawn = {1}
    Home <- MCHome
    Aggressive = {1}
    Arena = {den}
    ArenaTemplates = {FALSE}
    MAX_HP = 2
    FLEE_HP = 1
    IDLE_TICKS = 1
    MaxCreatures = 2
INVARIANTS
    FightersAreTogether
    PopulationHolds
PROPERTIES
    OnlyAttackHeals
    AlertEnds
    PopulationReturns
