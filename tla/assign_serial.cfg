\* One request at a time, of every kind; any may be rolled back.
SPECIFICATION Spec
CONSTANTS
    Deliveries = {d1}
    Postmen = {p1, p2}
    Beats = {b1, b2}
    Slots = {s1}
    Overlap = FALSE
    Verdicts = {"NO_BEAT_MATCH", "WEAK_LOCATION"}
    Reported = {"OUT_FOR_DELIVERY", "FAILED", "RESCHEDULED", "DELIVERED"}
    Work = {"match", "cover", "clear", "status", "beat", "override", "resolve", "ignore", "rollback"}
INVARIANTS RosterIsFollowed VerdictIsTrue WaitingIsVisible
PROPERTIES LeftWithWhoeverHasIt
SYMMETRY Symmetry
