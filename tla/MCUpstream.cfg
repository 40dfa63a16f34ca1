\* A message over SMTP and one over Graph, and a credential that
\* is edited among four states: working, expired, without permission, unreadable.
CONSTANTS
    Replicas = {"A"}
    Deliveries = {"d1", "d2"}
    Materials = {"good", "expired", "denied", "broken"}
    Unusable = {"broken"}
    Refused = {"expired"}
    Unpermitted = {"denied"}
    TransportsOf <- MCTransportsOf
    Large = {"d1"}
    Recipients <- MCRecipients
    InHeaders <- MCInHeaders
    MaxEdits = 2
    MaxFaults = 1
SPECIFICATION FairSpec
CHECK_DEADLOCK FALSE
INVARIANTS EditTakesEffect AllRecipientsOrNone
PROPERTIES CredentialTroubleIsRetried OnceFixedSettles
