SPECIFICATION ProcessesSpec
CONSTANTS
    None = None
    MaxInput = 3
    PipeCap = 1
    MaxResponse = 2
    MaxOutput = 4
    Decisions = {"Approve", "Decline"}
    Prompts = {1, 2}
    Asked = 1
    MAX_MESSAGE_CHUNKS = 2
    MaxWritten = 3
    Daemons = {d1, d2, d3}
    Inodes = {1, 2, 3}
    MaxCrashes = 2
    MaxOutside = 2
INVARIANTS
    ReportIsWhole
    
    NothingOutlivesTheVerdict
    DecisionIsTheWholeAnswer
    ListenerOwnsThePath
PROPERTY EveryWaitEnds
