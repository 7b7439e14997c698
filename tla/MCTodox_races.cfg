SPECIFICATION TodoxSpec
CONSTANTS
    a = a
    b = b
    none = none
    x = x
    y = y
    p = p
    q = q
    Tasks <- MCTasks
    Comments <- MCComments
    MaxRows = 4
    Week = 2
    Faults = {"open", "write", "crash", "interrupt"}
    Horizon = 2
    InitTables <- MCWeekly
    Edits <- MCNone
    OtherPids <- MCNone
    PipeCap = 2
    ReadChunk = 1
    PollSpan = 8
    MaxStarts = 2
    Prompt = FALSE
    Calm = FALSE
    Clients = {p, q}
    Commands <- MCCommands
    MaxCommands = 1
    NoComment = none
INVARIANTS NoLostWakeup 
PROPERTY ImplementsDaemon
CHECK_DEADLOCK FALSE

