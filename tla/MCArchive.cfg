CONSTANTS
    None = None
    k1 = k1
    k2 = k2
    k3 = k3
    k4 = k4
    a1 = a1
    a2 = a2
    s1 = s1
    s2 = s2
    w1 = w1
    w2 = w2
    MAX_CONTINUITY_TRANSITIONS = 2
    MAX_RECOVERY_POLICY_VERSIONS = 1
    MAX_STORED_PERSONA_KEYS = 3
    MAX_PERSONA_BACKUP_CONTINUITY_TRANSITIONS = 2
    MAX_PERSONA_BACKUP_RECOVERY_POLICIES = 1
    MAX_PERSONA_BACKUP_KEYS = 3
    Keys <- MCKeys
    Sessions <- OneSession
    MaxTime = 2
    IssueTimes <- OneIssueTime
    PolicyTerms <- NoTerms
    CeremonyEnds <- MCCeremonyEnds
    Wrappers <- OneWrapper
    MaxProofs = 1
    Backups <- MCBackups
SPECIFICATION ImportedSpec
INVARIANTS
    QuarantineGrantsNothing
    
PROPERTY QuarantineEndsByReceipt
CHECK_DEADLOCK FALSE
