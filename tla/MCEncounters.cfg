SPECIFICATION CombatSpec
CONSTANTS
    Player = {p1, p2}
    Creature = {c1, c2}
    Room = {r1, r2}
    Nobody = Nobody
    WIND_UP_TICKS = 1
    COMBAT_TIMEOUT_TICKS = 1
    MaxEncounterId = 2
    MaxCalls = 4
SYMMETRY Symmetry
INVARIANTS
    CombatTypeOK
    OneFightEach
    FightersAreRegistered
    ActionsHaveFights
    NobodyFightsAlone
    NobodyFallsAndFlees
PROPERTIES
    CompanyStays
