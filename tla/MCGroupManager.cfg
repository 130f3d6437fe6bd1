SPECIFICATION GroupSpec
CONSTANTS
    Player = {p1, p2, p3, p4, p5}
    MAX_GROUP_SIZE = 3
    MaxGroupId = 6
SYMMETRY Symmetry
INVARIANTS
    MapsAgree
    LeaderIsMember
    SizeInBounds
PROPERTIES
    NoPoaching
