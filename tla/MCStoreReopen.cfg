SPECIFICATION SchemaSpec
CONSTANTS
    None = None
    Null = Null
    Coordinator = Coordinator
    p1 = p1
    p2 = p2
    MAX_CONTINUITY_TRANSITIONS = 4
    MAX_RECOVERY_POLICY_VERSIONS = 2
    MIN_RECOVERY_AUTHORITIES = 2
    MAX_RECOVERY_AUTHORITIES = 3
    MAX_RECOVERY_POLICY_VALIDITY_SECONDS = 9
    MAX_RECOVERY_CEREMONY_VALIDITY_SECONDS = 3
    MAX_RECOVERY_CEREMONY_SIGNATURE_VERIFICATIONS = 9
    Requests = {1, 2}
    RequestOf <- MCRequestOf
    Participants = {3, 11, 12}
    Randomized = {12}
    MaxTime = 2
    MaxResponses = 4
    MaxPending = 1
    Rows <- TerminalRows
    Databases <- StartDatabases
INVARIANT StoreStaysOpenable
CHECK_DEADLOCK FALSE
