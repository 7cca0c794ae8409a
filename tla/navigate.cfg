\* Guidance while requests fail, overtake each other and are repeated, and a
\* ride along a lane that the route passes twice.
SPECIFICATION Guidance
CONSTANTS
    Modes = {"BIKE", "FOOT"}
    Door <- TheDoor
    Streets <- Map
    LastKnown <- Crossing
    Worlds <- Situations
INVARIANTS DirectionsFit
PROPERTIES StaysOnItsStretch UnguidedIsTemporary
CHECK_DEADLOCK FALSE
