SPECIFICATION Spec
CONSTANTS
    Actions = {g1, g2}
    NoAction = NoAction
    Ids = {i1}
    NoId = NoId
    Api = api
    Engines = {api, ask}
    Deciders = {d1}
    Durable = TRUE
    TTL = 1
    MaxTime = 1
    MaxCalls = 2
SYMMETRY Symmetry
INVARIANTS
    SingleUse
