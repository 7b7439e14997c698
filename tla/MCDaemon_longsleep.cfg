SPECIFICATION Spec
CONSTANTS
    a = a
    b = b
    none = none
    x = x
    y = y
    p = p
    q = q
    Tasks <- MCTasks
    Comments <- MCComments
    MaxRows = 3
    Week = 7
    Faults = {}
    Horizon = 5
    InitTables <- MCOneAfterOther
    Edits <- MCNone
    OtherPids <- MCNone
    PipeCap = 2
    ReadChunk = 1
    PollSpan = 2
    MaxStarts = 1
    Prompt = TRUE
    Calm = TRUE
INVARIANT NeverOversleeps
