SPECIFICATION ServiceSpec
CONSTANTS
    a = a
    b = b
    none = none
    x = x
    y = y
    p = p
    q = q
    Tasks <- MCTasks
    Comments <- MCComments
    MaxRows = 4
    Week = 2
    Faults = {"crash", "interrupt"}
    Horizon = 1
    InitTables <- MCWeekly
    Edits <- MCNone
    OtherPids <- MCNone
    PipeCap = 2
    ReadChunk = 1
    PollSpan = 8
    MaxStarts = 2
    Prompt = FALSE
    Calm = FALSE
    Clients = {p}
    Commands <- MCCommands
    MaxCommands = 1
    NoComment = none
INVARIANTS OwnerIsWoken 
PROPERTY BothImplementDaemon
CHECK_DEADLOCK FALSE

