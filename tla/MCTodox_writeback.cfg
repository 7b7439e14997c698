SPECIFICATION TodoxSpec
CONSTANTS
    a = a
    b = b
    none = none
    x = x
    y = y
    p = p
    q = q
    Tasks <- MCTasks
    Comments <- MCComments
    MaxRows = 4
    Week = 2
    Faults = {}
    Horizon = 3
    InitTables <- MCTwo
    Edits <- MCNone
    OtherPids <- MCNone
    PipeCap = 2
    ReadChunk = 1
    PollSpan = 8
    MaxStarts = 1
    Prompt = FALSE
    Calm = FALSE
    Clients = {p}
    Commands <- MCAddRemove
    MaxCommands = 1
    NoComment = none
INVARIANT CommandsLast
CHECK_DEADLOCK FALSE

