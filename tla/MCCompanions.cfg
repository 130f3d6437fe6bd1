SPECIFICATION Spec
CONSTANTS
    Player = {p1, p2, p3}
    MAX_GROUP_SIZE = 3
    MaxGroupId = 2
    Consenting = {p1}
SYMMETRY Symmetry
INVARIANTS
    MembersAreOnline
    TiesAreOnline
PROPERTIES
    DrivesGroupManager
