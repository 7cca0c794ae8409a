\* Two overlapping requests of any kind, cut off or failing anywhere.
SPECIFICATION Spec
CONSTANTS
    Requests = {r1, r2}
    Postmen = {p1}
    Keys = {k1, k2}
    ProofModes = {"PHOTO", "SIGNATURE"}
    Faults = {"abort", "database", "afterUpsert"}
    MaxChanges = 1
SYMMETRY Symmetry
CHECK_DEADLOCK FALSE
INVARIANTS DeliveredHasProof AttemptsAreRecorded ProofFileStored
