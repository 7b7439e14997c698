SPECIFICATION ReplaceSpec
CONSTANTS
    a = a
    b = b
    none = none
    x = x
    y = y
    p = p
    q = q
    Tasks <- MCTasks
    Comments <- MCComments
    MaxRows = 7
    Week = 14
    DayLen = 2
    Zone = 1
    NewTimes = {0, 1}
    Faults = {}
    Horizon = 2
    Clients = {p}
    Commands <- MCCommands
    MaxCommands = 3
    NoComment = none
    InitFiles <- MCFiles
INVARIANTS CliTypeOK WritesSorted 
PROPERTY ImplementsTaskBook
CHECK_DEADLOCK FALSE
