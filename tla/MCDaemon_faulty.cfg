SPECIFICATION Spec
CONSTANTS
    a = a
    b = b
    none = none
    x = x
    y = y
    p = p
    q = q
    Tasks <- MCTasks
    Comments <- MCComments
    MaxRows = 2
    Week = 2
    Faults = {"pipe", "pidfile", "open", "write", "notify", "crash"}
    Horizon = 3
    InitTables <- MCTables
    Edits <- MCEdits
    OtherPids <- MCOtherPids
    PipeCap = 2
    ReadChunk = 1
    PollSpan = 2
    MaxStarts = 2
    Prompt = FALSE
    Calm = FALSE
INVARIANTS TypeOK LogOrdered NeverEarly ArmedRow
PROPERTY ImplementsNotifier
