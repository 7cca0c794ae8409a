---------------------------- MODULE RouteProgress ----------------------------
(* Where along the directions a GPS fix is (utils/navigationProgress.ts).   *)
(* Points are <<east, north>> in whole metres, streets run along the axes,  *)
(* so a fix is snapped to a stretch coordinate by coordinate; distances are *)
(* rounded down. Times, formatting and arrows are left out.                 *)
EXTENDS Integers, Sequences, SequencesExt

Point == Int \X Int

ARRIVAL_RADIUS_M == 30
OFF_ROUTE_MIN_M == 35
OFF_ROUTE_MAX_M == 80
FREE_MOVE_M == 30
JUMP_METERS_PER_PENALTY == 4
AMBIGUOUS_WITHIN_M == 25

Larger(a, b) == IF a < b THEN b ELSE a
Smaller(a, b) == IF a < b THEN a ELSE b
Clamped(x, a, b) == Larger(Smaller(a, b), Smaller(Larger(a, b), x))
Apart(a, b) == IF a < b THEN b - a ELSE a - b

Root(n) == CHOOSE r \in 0..n : r * r <= n /\ n < (r + 1) * (r + 1)
dist(p, q) ==
    LET x == Apart(p[1], q[1])
        y == Apart(p[2], q[2])
    IN  IF x = 0 \/ y = 0 THEN x + y ELSE Root(x * x + y * y)

\* A line without the same vertex twice in a row.
Drawn(line, coords) ==
    LET upTo[k \in 0..Len(coords)] ==
            IF k = 0 THEN line
            ELSE IF upTo[k - 1] # <<>> /\ Last(upTo[k - 1]) = coords[k] THEN upTo[k - 1]
            ELSE Append(upTo[k - 1], coords[k])
    IN  upTo[Len(coords)]

\* The vertex a step starts at: the last one drawn when the step continues it.
StartsAt(line, coords) ==
    IF line # <<>> /\ Last(line) = coords[1] THEN Len(line) ELSE Len(line) + 1

\* The whole route as one line, built from the steps, and where each starts.
Joined(steps) ==
    LET upTo[k \in 0..Len(steps)] ==
            IF k = 0 THEN [line |-> <<>>, starts |-> <<>>]
            ELSE [line |-> Drawn(upTo[k - 1].line, steps[k].geometry),
                  starts |-> Append(upTo[k - 1].starts, StartsAt(upTo[k - 1].line, steps[k].geometry))]
    IN  upTo[Len(steps)]

\* The steps of a route: each has a point, and the line runs along the axes.
IsRoute(steps) ==
    /\ Len(steps) \in Nat /\ DOMAIN steps = 1..Len(steps)
    /\ \A i \in DOMAIN steps : steps[i].geometry \in Seq(Point) \ {<<>>}
    /\ LET line == Joined(steps).line
       IN  \A i \in 1..(Len(line) - 1) : line[i][1] = line[i + 1][1] \/ line[i][2] = line[i + 1][2]

Cumulative(line) ==
    LET upTo[i \in 1..Len(line)] == IF i = 1 THEN 0 ELSE upTo[i - 1] + dist(line[i - 1], line[i])
    IN  upTo

buildRouteModel(steps, to) ==
    LET built == Joined(steps)
        cumulative == Cumulative(built.line)
    IN  [line |-> built.line, cumulative |-> cumulative,
         stepStarts |-> [i \in DOMAIN steps |-> cumulative[Smaller(built.starts[i], Len(built.line))]],
         kinds |-> [i \in DOMAIN steps |-> steps[i].kind],
         total |-> cumulative[Len(built.line)], destination |-> to]

Stretches(m) == 1..(Len(m.line) - 1)

snapToSegment(m, p, i) ==
    LET a == m.line[i]
        b == m.line[i + 1]
        q == <<Clamped(p[1], a[1], b[1]), Clamped(p[2], a[2], b[2])>>
    IN  [stretch |-> i, along |-> m.cumulative[i] + dist(a, q), distance |-> dist(p, q)]

NoProgress == [known |-> FALSE, along |-> 0, off |-> 0, stretch |-> 0, step |-> 0, arrived |-> FALSE]

SlipNoMemory(snap, previous) == 4 * snap.distance
\* Distance from the line and, once the postman is known to be somewhere, the
\* jump along it, in quarters of a metre.
SnapCost(snap, previous) ==
    JUMP_METERS_PER_PENALTY * snap.distance
    + (IF previous.known THEN Larger(0, Apart(snap.along, previous.along) - FREE_MOVE_M) ELSE 0)

\* Of the stretches about as close as the closest, the first of least cost.
Snapped(m, p, previous) ==
    LET snaps == {snapToSegment(m, p, i) : i \in Stretches(m)}
        near == {s \in snaps : \A t \in snaps : s.distance <= t.distance + AMBIGUOUS_WITHIN_M}
        Cheapest(s) == \A t \in near :
            /\ SnapCost(s, previous) <= SnapCost(t, previous)
            /\ t.stretch < s.stretch => SnapCost(s, previous) < SnapCost(t, previous)
    IN  IF snaps = {} THEN [stretch |-> 1, along |-> 0, distance |-> dist(p, m.line[1])]
        ELSE CHOOSE s \in near : Cheapest(s)

\* The last manoeuvre that is behind, arriving excepted.
CurrentStep(m, along) ==
    LET behind == {i \in DOMAIN m.stepStarts : m.kinds[i] # "arrive" /\ m.stepStarts[i] <= along}
    IN  IF behind = {} THEN 1 ELSE CHOOSE i \in behind : \A k \in behind : k <= i

ProgressAt(m, p, snap) ==
    LET arrived == \/ dist(p, m.destination) <= ARRIVAL_RADIUS_M
                   \/ m.total - snap.along <= ARRIVAL_RADIUS_M /\ snap.distance <= ARRIVAL_RADIUS_M
        along == IF arrived THEN m.total ELSE snap.along
    IN  [known |-> TRUE, along |-> along, off |-> snap.distance, stretch |-> snap.stretch,
         step |-> CurrentStep(m, along), arrived |-> arrived]
computeProgress(m, p, previous) == ProgressAt(m, p, Snapped(m, p, previous))

offRouteThreshold(accuracy) ==
    Smaller(OFF_ROUTE_MAX_M, Larger(OFF_ROUTE_MIN_M, (accuracy * 3) \div 2))

isOffRoute(progress, accuracy) == ~progress.arrived /\ progress.off > offRouteThreshold(accuracy)
=============================================================================
