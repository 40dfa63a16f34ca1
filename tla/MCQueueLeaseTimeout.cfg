CONSTANTS
    b1 = b1
    r1 = r1
    r2 = r2
    s3 = s3
    NoOwner = NoOwner
    NoMsg = NoMsg
    Messages = {m1}
    Mailboxes = {b1}
    MailboxOf <- MCMailboxOf
    Replicas = {r1, r2}
    Slots = {s1, s3}
    ReplicaOf <- MCReplicaOf
    Delays <- MCDelays
    JitterPercent = 0
    MaxAttempts = 2
    MaxAge = 3
    LeaseDuration = 2
    UpstreamTimeout = 1
    HoldBound = 0
    Overruns = TRUE
    RetryAfters = {0}
    RetainSent = 1
    RetainFailed = 0
    MaxFaults = 0
    AttemptsBound = 2
    MaxCopies = 2
SPECIFICATION Spec
INVARIANTS
    SendsDoNotOverlap
