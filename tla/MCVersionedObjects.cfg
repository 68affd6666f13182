SPECIFICATION Spec
CONSTANTS
    w1 = w1
    w2 = w2
    w3 = w3
    api = api
    worker = worker
    Versions = {v1}
    Contents = {c1, c2}
    Writers = {w1, w2, w3}
    Process <- MCProcess
    Nothing = Nothing
    MaxPasses = 2
INVARIANTS
    AvailableHasBytes
    PutIsKept
PROPERTIES
    AvailableIsFinal
CHECK_DEADLOCK FALSE
