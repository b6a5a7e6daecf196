SPECIFICATION FairSpec
CONSTANTS
    Lights = {}
    Colours = {f2}
    Channels = {r}
    MaxLevel = 1
    NoLevel = NoLevel
    Modes = {TRUE}
    MaxReader = 2
    MaxEnds = 2
PROPERTY
    FramesAreShown
