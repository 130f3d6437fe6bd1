SPECIFICATION MCSpec
CONSTANTS
    p1 = p1
    blade = blade
    a1 = a1
    Player = {p1}
    Account = {a1}
    Owner <- MCOwner
    Kind = {blade}
    Nothing = Nothing
    Weight <- MCWeight
    MAX_CARRY = 1
    Soulbound = {}
    Wearable = {}
    StarterKit <- MCKit
    FirstItems <- MCFirst
    MaxSessions <- MCSessions
    MaxCopies <- MCCopies
    MaxVisits <- MCVisits
    MaxJoins = 3
PROPERTIES
    WaitingIsEnough
    ItemsTravel
CHECK_DEADLOCK FALSE
