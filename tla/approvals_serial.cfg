SPECIFICATION Spec
CONSTANTS
    Actions = {g1, g2}
    NoAction = NoAction
    Ids = {i1, i2}
    NoId = NoId
    Api = api
    Engines = {api}
    Deciders = {d1}
    Durable = TRUE
    TTL = 1
    MaxTime = 1
    MaxCalls = 3
INVARIANTS
    SerialInv
    SingleUse
    AnswerIsVerdict
PROPERTIES
    ImplementsOneUse
