SPECIFICATION Spec
CONSTANTS
    i1 = i1
    s1 = s1
    None = None
    Item = {i2, i3}
    Slot = {s1}
    Call = {c1}
    CAPACITY = 2
    Fits <- AnyButFirst
    Light <- UpToCapacity
INVARIANTS
    FailuresDoubleNothing
