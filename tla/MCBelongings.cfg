SPECIFICATION MCSpec
CONSTANTS
    p1 = p1
    p2 = p2
    a1 = a1
    blade = blade
    charm = charm
    ore = ore
    Player = {p1, p2}
    Account = {a1}
    Owner <- MCOwner
    Kind = {blade, charm, ore}
    Nothing = Nothing
    Weight <- MCWeight
    MAX_CARRY = 3
    Soulbound = {charm}
    Wearable = {blade, charm}
    StarterKit <- MCKit
    FirstItems <- MCFirst
    MaxSessions <- MCSessions
    MaxCopies <- MCCopies
INVARIANTS
    DeparturesAreSaved
PROPERTIES
    ItemsAreConserved
CHECK_DEADLOCK FALSE
