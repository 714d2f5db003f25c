SPECIFICATION Spec
CONSTANTS
    t1 = t1
    t2 = t2
    i1 = i1
    i2 = i2
    i3 = i3
    r1 = r1
    r2 = r2
    None = None
    Types <- MCTypes
    Items <- MCItems
    Requests <- MCRequests
SYMMETRY MCSymmetry
INVARIANTS
    TypeOK
    DefaultsAreBounded
    DefaultIsKept
    ItemsHaveTypes
