SPECIFICATION Spec
INVARIANTS
    TypeOK
    ExclusionUntilStray
PROPERTIES
    FirstStrayAtScopeEnd
    NobodyStuck
