SPECIFICATION AlgSpec
CONSTANTS
    a = a
    b = b
    none = none
    x = x
    y = y
    p = p
    q = q
    Tasks <- MCTasks
    Comments <- MCComments
    MaxRows = 3
    Week = 14
    DayLen = 2
    Blank <- MCBlank
    Batches <- MCBatches
    Moments <- MCMoments
    Faults = {}
    Horizon = 60
    Winter <- MCWinter
    SummerTime = 1
    SummerStart = 20
    SummerEnd = 45
    Dates <- MCDates
    FieldLen = 3
    FieldTexts <- MCTexts
    Heads <- MCHeads
    SessionAddress = FALSE
    RuntimeDir = TRUE
    MaxCalls = 2
INVARIANTS LoopsTypeOK TableSorted
PROPERTIES ImplementsAlarmTable LoopsAdvance EveryCallReturns
INVARIANTS NextIsFirst StaysInPhase RangeCoversWeek
INVARIANTS  StampsReadBack 
INVARIANTS PlainSurvives Settles FormsAgree
INVARIANT ReferencesBalanced
PROPERTY ConnectionIsUsed
CHECK_DEADLOCK FALSE
