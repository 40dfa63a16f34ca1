\* Two requests interleave, one user comes from the identity provider.
CONSTANTS
    Users = {"u1", "u2", "u3"}
    Founder = "u1"
    Roles = {"admin", "viewer"}
    Requests = {"r1", "r2"}
    OIDCUsers = {"u3"}
    AllowSignup = TRUE
    MaxChanges = 3
    MaxFaults = 1
SPECIFICATION Spec
INVARIANTS NoOrphanSessions OldSessionsEnd
PROPERTIES LastAdminKept DisableSticks
CHECK_DEADLOCK FALSE
