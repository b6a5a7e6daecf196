SPECIFICATION ActSpec
CONSTANTS
    Threads = {t1, t2}
    Limits = {1, 2}
    Window = 2
    MaxTime = 3
    Targets = {"a", "b"}
    Policies <- MCPolicies
SYMMETRY Symmetry
INVARIANTS
    AsksInv
    NeverOverRate
PROPERTIES
    RefusedOnlyAtLimit
    ActsByRule
