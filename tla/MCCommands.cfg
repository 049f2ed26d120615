SPECIFICATION CommandSpec
CONSTANTS
    None = None
    r1 = r1
    k1 = k1
    k2 = k2
    q1 = q1
    ann = ann
    bob = bob
    Next1 = k2
    Keys <- MCKeys
    Backups <- MCBackups
    Supplied <- MCSupplied
    Processes = {p1, p2}
    Locators = {l1}
    MaxCommands = 2
    MaxOutside = 1
INVARIANT VerdictsAreSound
PROPERTIES
    WrittenIsAuthorized
    BackupAnswersAreTrue
CHECK_DEADLOCK FALSE
