CONSTANTS
    None = None
    c1 = c1
    c2 = c2
    k1 = k1
    k2 = k2
    k3 = k3
    l1 = l1
    l2 = l2
    x = x
    y = y
    FirstKey = k1
    Locators = {l1, l2}
    Connections = {c1, c2}
    Keys = {k1, k2}
    Contents = {x}
    Requests <- AllRequests
    Wrappers = {1}
    LISTEN_BACKLOG = 8
    ClockCanStepBack = TRUE
    MaxTime = 1
    MaxJournal = 1
    MaxOutside = 0
    MaxCrashes = 0
SPECIFICATION ClienteleSpec
INVARIANTS
    ConsentCoversEverySignature
    AnswersAreRecorded
    NoWriteForALeftClient
    
 
CHECK_DEADLOCK FALSE
