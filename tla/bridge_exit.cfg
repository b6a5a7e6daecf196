SPECIFICATION Spec
CONSTANTS
    Lights = {f1}
    Colours = {}
    Channels = {r}
    MaxLevel = 1
    NoLevel = NoLevel
    Modes = {TRUE}
    MaxReader = 2
    MaxEnds = 2
INVARIANT
    DownIsUnavailable
