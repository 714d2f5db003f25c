SPECIFICATION Spec
CONSTANTS
    root = root
    user = user
    super = super
    role = role
    menu = menu
    r1 = r1
    r2 = r2
    Super = super
    NoRole = NoRole
    Users <- MCUsers
    Roles <- MCRoles
    Menus <- MCMenus
    Requests <- MCRequests
    Code <- MCCode
    MaxRequests = 2
SYMMETRY MCSymmetry
INVARIANTS
    TypeOK
    DeletedRoleHasNoHolder
PROPERTIES
    SuperUsersAreProtected
    DeletedIsLeftAlone
CHECK_DEADLOCK FALSE
