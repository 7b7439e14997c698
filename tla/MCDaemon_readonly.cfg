SPECIFICATION Spec
CONSTANTS
    a = a
    b = b
    none = none
    x = x
    y = y
    p = p
    q = q
    Tasks <- MCTasks
    Comments <- MCComments
    MaxRows = 3
    Week = 7
    Faults = {"readonly"}
    Horizon = 5
    InitTables <- MCOneAfterOther
    Edits <- MCNone
    OtherPids <- MCNone
    PipeCap = 2
    ReadChunk = 1
    PollSpan = 8
    MaxStarts = 3
    Prompt = TRUE
    Calm = TRUE
INVARIANT DueHaveFired
