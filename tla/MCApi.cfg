SPECIFICATION Spec
CONSTANT NoRoute = NoRoute
INVARIANTS
    TypeOK
    RefusalChangesNothing
    SuccessMeansEffect
    AccessAsDocumented
    ChangesAreLogged
