CONSTANTS
    p1 = p1
    p2 = p2
    c1 = c1
    b1 = b1
    b2 = b2
    a1 = a1
    NotGiven = NotGiven
    Credentials = {c1}
    Mailboxes = {b1, b2}
    Accounts = {a1}
    Replicas = {p1, p2}
    Version <- MCVersion
    Files <- MCFiles
    Requests = {q1}
    TestIds = {t1}
    MaxChanges = 2
    Modes = {TRUE, FALSE}
    Seeds <- MCSeeds
    MaxFaults = 1
SPECIFICATION FairSpec
CHECK_DEADLOCK FALSE
INVARIANTS
    ReconcileHolds
    MigrationsRunOnce
    OneTestMail
PROPERTIES
    ApplyOnceOnlyAdds
    ComesUp
