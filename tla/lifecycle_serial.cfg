\* One request at a time, where the database may refuse a proof row; or the
\* queue of a phone whose connection comes and goes, requests and answers are
\* lost, and deliveries change or are taken away meanwhile.
SPECIFICATION HandlersOrPhone
CONSTANTS
    Requests = {r1}
    Postmen = {p1}
    Keys = {k1, k2, k3}
    ProofModes = {"PHOTO", "SIGNATURE"}
    Faults = {"database"}
    MaxChanges = 5
    Deliveries = {d1}
    Choices = {"OUT_FOR_DELIVERY", "DELIVERED"}
    OfficeChoices = {"CANCELLED", "FAILED"}
    ProofRequired = TRUE
    MaxProofAttempts = 2
    MaxQueued = 2
INVARIANTS NothingIsStranded
PROPERTIES ImplementsMachine TriggersArePublished SavedIsSettled
CHECK_DEADLOCK FALSE
