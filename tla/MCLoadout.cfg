SPECIFICATION Spec
CONSTANTS
    i1 = i1
    s1 = s1
    None = None
    Item = {i1, i2, i3}
    Slot = {s1, s2}
    Call = {c1, c2}
    CAPACITY = 2
    Fits <- AnyButFirst
    Light <- UpToCapacity
INVARIANTS
    LockExcludes
    NothingDoubled
PROPERTIES
    ImplementsVault
    CallsEnd
