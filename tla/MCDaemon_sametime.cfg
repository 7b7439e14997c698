SPECIFICATION Spec
CONSTANTS
    a = a
    b = b
    none = none
    x = x
    y = y
    p = p
    q = q
    Tasks <- MCTasks
    Comments <- MCComments
    MaxRows = 3
    Week = 2
    Faults = {}
    Horizon = 5
    InitTables <- MCSameTime
    Edits <- MCNone
    OtherPids <- MCNone
    PipeCap = 2
    ReadChunk = 1
    PollSpan = 8
    MaxStarts = 1
    Prompt = TRUE
    Calm = TRUE
INVARIANT PurgedWereNotified
