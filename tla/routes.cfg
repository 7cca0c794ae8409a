\* Two overlapping requests for the route of three deliveries, one of them
\* without a usable point; planning fails and the server stops anywhere.
SPECIFICATION FairSpec
CONSTANTS
    Deliveries = {d1, d2, d3}
    Requests = {r1, r2}
    Unlocated = {d3}
    Faults = {"database", "crash"}
    MaxMoves = 2
INVARIANTS NoNeedlessPlanning AnswerIsComplete
PROPERTIES RemainingStopsStay EveryRequestAnswered
CHECK_DEADLOCK FALSE
