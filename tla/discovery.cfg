SPECIFICATION Spec
CONSTANTS
    Fixtures = {"f"}
    Pairs = {"z"}
    Foreign = {"other"}
    Names = {"a", "b", "-"}
    DefaultName = "-"
    Layouts <- MCLayouts
    Maps <- MCMaps
    MaxEnds = 1
    MaxResets = 1
    MaxBirths = 1
INVARIANTS
    DiscoveryInv
    ConfigsStand
    ResetIsExact
PROPERTY
    DevicesAppear
CHECK_DEADLOCK FALSE
