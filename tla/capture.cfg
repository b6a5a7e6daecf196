SPECIFICATION Spec
CONSTANTS
    Lights = {1}
    Rgb <- MCRgb
    Layouts <- MCLayouts
    Dimmer = "dimmer"
    Allowlist = {"thermostat"}
    Requests <- MCRequests
    Raws <- MCRaws
    Brightness <- MCBrightness
    Colours <- MCColours
    Panels = {1, 2}
    Window = 1
    PerDgn = 2
    MaxFrames = 3
    MaxTime = 2
    Sources = {"s1", "s2"}
    Bilingual = {"s2"}
    MaxPackets = 2
    MaxTransfers = 2
INVARIANTS
    CaptureInv
    ToolsAgree
    MessagesAreTransfers
PROPERTIES
    LevelsReturn
    GenericIsSaid
CHECK_DEADLOCK FALSE
