\* Five worlds: the queue alone, with lost requests and answers and restarts;
\* changes sent past the queue while the office moves deliveries; lost answers
\* and refreshes, with deliveries moved back to where a change may be applied
\* again; and two in which screens read the storage while the queue is in use.
SPECIFICATION Spec
CONSTANTS
    Deliveries = {d1}
    Choices = {"OUT_FOR_DELIVERY", "DELIVERED", "FAILED", "RESCHEDULED"}
    OfficeChoices = {"RESCHEDULED", "OUT_FOR_DELIVERY"}
    ProofRequired = TRUE
    MaxProofAttempts = 2
    MaxChanges = 2
    Worlds <- SafetyWorlds
CHECK_DEADLOCK FALSE
INVARIANTS NothingSavedIsLost AppliedAsTold
PROPERTY RejectionIsReported
