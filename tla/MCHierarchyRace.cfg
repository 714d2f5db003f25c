SPECIFICATION Spec
CONSTANTS
    a = a
    b = b
    c = c
    u1 = u1
    r1 = r1
    r2 = r2
    Root = Root
    Nodes <- MCNodes
    Members <- MCMembers
    Requests <- MCRequests
    QueriesFail = FALSE
SYMMETRY MCSymmetry
INVARIANTS
    NoCycle
