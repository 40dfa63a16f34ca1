\* Two listeners, two renewals of the certificate; the process may end, so a final
\* state is no deadlock.
CONSTANTS
    N = 2
    MaxRenewals = 2
SPECIFICATION FrontSpec
INVARIANTS ReadyMeansBound
PROPERTIES ReadyEventually CancelEndsServing NoPartRunsAlone RenewalTakesEffect
CHECK_DEADLOCK FALSE
