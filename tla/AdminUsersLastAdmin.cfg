\* Two administrators demote each other.
CONSTANTS
    Users = {"u1", "u2"}
    Founder = "u1"
    Roles = {"admin", "viewer"}
    Requests = {"r1", "r2"}
    OIDCUsers = {}
    AllowSignup = FALSE
    MaxChanges = 3
    MaxFaults = 0
SPECIFICATION Spec
INVARIANT AdminRemains
