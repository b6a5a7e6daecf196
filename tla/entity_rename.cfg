SPECIFICATION FairSpec
CONSTANTS
    Own = {o1, o2, o3}
    Others = {x}
    Names <- MCNames
    MaxStops = 1
    MaxRemaps = 1
INVARIANTS
    TypeOK
    RunInv
    NoCollision
    ReportIsTrue
PROPERTIES
    EachToItsOwn
    Recovers
