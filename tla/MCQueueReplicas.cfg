CONSTANTS
    b1 = b1
    r1 = r1
    r2 = r2
    s3 = s3
    NoOwner = NoOwner
    NoMsg = NoMsg
    Messages = {m1}
    Mailboxes = {b1}
    MailboxOf <- MCMailboxOf
    Replicas = {r1, r2}
    Slots = {s1, s3}
    ReplicaOf <- MCReplicaOf
    Delays <- MCDelays
    JitterPercent = 50
    MaxAttempts = 3
    MaxAge = 4
    LeaseDuration = 2
    UpstreamTimeout = 1
    HoldBound = 2
    Overruns = FALSE
    RetryAfters = {0, 4}
    RetainSent = 1
    RetainFailed = 0
    MaxFaults = 2
    AttemptsBound = 3
    MaxCopies = 4
SPECIFICATION FairSpec
INVARIANTS
    DeliveriesExclusive
    DuplicatesNeedFaults
    DeferredHasAttemptsLeft
PROPERTIES
    RetryBeforeDeadline
    ImplementsLifecycle
    Settles
