SPECIFICATION Spec
CONSTANTS
    Lights = {f1}
    Colours = {f2}
    Channels = {r}
    MaxLevel = 1
    NoLevel = NoLevel
    Modes = {TRUE, FALSE}
    MaxReader = 1
    MaxEnds = 2
INVARIANTS
    TypeOK
    FreshInv
    TruthInv
    AvailableIsFresh
    SettledIsTrue
