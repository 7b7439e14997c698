SPECIFICATION FairSpec
CONSTANTS
    a = a
    b = b
    none = none
    x = x
    y = y
    p = p
    q = q
    Tasks <- MCTasks
    Comments <- MCComments
    MaxRows = 4
    Week = 2
    Faults = {}
    Horizon = 5
    InitTables <- MCStart
    Edits <- MCNone
    OtherPids <- MCNone
    PipeCap = 2
    ReadChunk = 1
    PollSpan = 8
    MaxStarts = 1
    Prompt = TRUE
    Calm = TRUE
    Clients = {p}
    Commands <- MCSpaced
    MaxCommands = 2
    NoComment = none
INVARIANTS PurgedWereNotified NeverOversleeps
PROPERTIES NotifiedOnTime AddedIsNotified DueRowsLeave
CHECK_DEADLOCK FALSE

