SPECIFICATION Spec
CONSTANTS
    Own = {o1, o2, o3}
    Others = {}
    Names <- MCNames
    MaxStops = 1
    MaxRemaps = 0
INVARIANT
    NeverWalksIn
