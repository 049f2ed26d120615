CONSTANTS
    None = None
    k1 = k1
    k2 = k2
    k3 = k3
    a1 = a1
    a2 = a2
    s1 = s1
    s2 = s2
    w1 = w1
    w2 = w2
    MAX_CONTINUITY_TRANSITIONS = 2
    MAX_RECOVERY_POLICY_VERSIONS = 2
    MAX_STORED_PERSONA_KEYS = 3
    Keys <- MCKeys
    Sessions <- OneSession
    MaxTime = 2
    IssueTimes <- OneIssueTime
    PolicyTerms <- MCTerms
    CeremonyEnds <- MCCeremonyEnds
    Wrappers <- OneWrapper
    MaxProofs = 2
SPECIFICATION RootedSpec
INVARIANTS StoreAlwaysVerifies AdoptedInsideItsWindow
SYMMETRY FullSymmetry
CHECK_DEADLOCK FALSE
