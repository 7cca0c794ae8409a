------------------------------ MODULE Navigation ------------------------------
(* Turn-by-turn guidance: the hook of the screen (hooks/useTurnByTurn.ts)   *)
(* with its effects in the order React runs them, the requests it has under *)
(* way, and the directions the server answers with (GET /me/navigation,     *)
(* services/navigation/directions.service.ts). Time passes in units of       *)
(* fifteen seconds: the wait for a first fix, of four, counts as one unit.  *)
EXTENDS RouteProgress

CONSTANTS
    Modes,
    Door,           \* where the delivery is
    Streets,        \* per mode and start: the steps of the routing engine
    LastKnown,      \* where the server thinks the postman is
    Worlds

VARIABLES
    trip,
    nav,        \* the state and the refs of the hook
    flights     \* requests under way: the latest, and one it superseded

navVars == <<trip, nav, flights>>

OFF_ROUTE_FIXES_BEFORE_REROUTE == 3
MIN_REROUTE_INTERVAL == 1
STRAIGHT_LINE_RETRY == 2
FIRST_FIX_WAIT == 1
NoTimer == 99
NoMode == "none"

Somewhere(at) == [known |-> TRUE, at |-> at]
Unknown == [known |-> FALSE, at |-> <<0, 0>>]
NoFix == [known |-> FALSE, at |-> <<0, 0>>, accuracy |-> 0, tick |-> FALSE]
NoModel == [line |-> <<>>, cumulative |-> <<>>, stepStarts |-> <<>>, kinds |-> <<>>, total |-> 0, destination |-> Door]
NoDirections == [source |-> "none", mode |-> NoMode, steps |-> <<>>, model |-> NoModel, fixed |-> FALSE]

(***************************************************************************)
(* The server.                                                             *)
(***************************************************************************)

\* A direct line with a compass heading.
straightLine(from) ==
    <<[kind |-> "depart", geometry |-> <<from, Door>>], [kind |-> "arrive", geometry |-> <<Door>>]>>

\* Where a request may start, and what the engines that work answer there.
StartsIn(w) == w.places \cup {LastKnown} \cup IF w.recent.known THEN {w.recent.at} ELSE {}
ASSUME NavigationAssumption ==
    /\ NoMode \notin Modes
    /\ \A w \in Worlds :
         /\ w.mode \in Modes /\ StartsIn(w) \subseteq Point
         /\ w.engine \in {"up", "shaky", "none"}
         /\ \A from \in StartsIn(w) :
              /\ w.engine # "none" => \A m \in Modes : IsRoute(Streets[m][from])
              /\ w.engine # "up" => IsRoute(straightLine(from))

\* The app's fix, else the last place reported, else the office.
StartOf(flight) == IF flight.from.known THEN flight.from.at ELSE LastKnown

\* What getDirections can answer: an engine for the mode or for all, when it
\* works, else the straight line.
getDirections(flight) ==
    LET from == StartOf(flight)
        Directions(source, steps) == 
            [source |-> source, mode |-> flight.mode, steps |-> steps, fixed |-> flight.fixed,
             model |-> buildRouteModel(steps, Door)]
        road == Directions("ROAD", Streets[flight.mode][from])
        line == Directions("STRAIGHT_LINE", straightLine(from))
    IN  CASE trip.engine = "up" -> {road} [] trip.engine = "shaky" -> {road, line} [] trip.engine = "none" -> {line}

(***************************************************************************)
(* load() and the effects, as functions of the hook's state. A state n      *)
(* carries the requests in n.flights until the step is over.               *)
(***************************************************************************)

Start(n) == IF n.fix.known THEN Somewhere(n.fix.at) ELSE n.recent
Latest(n) == {f \in n.flights : f.latest}

\* A request supersedes the one before; fixed tells whether it starts at a fix.
Load(n, quiet) ==
    [n EXCEPT !.flights = {[f EXCEPT !.latest = FALSE] : f \in Latest(n)}
                          \cup {[latest |-> TRUE, quiet |-> quiet, mode |-> n.mode, from |-> Start(n), fixed |-> n.fix.known]},
              !.since = 0,
              !.rerouting = quiet \/ @,
              !.failed = quiet /\ @,
              !.withoutFix = ~Start(n).known]

\* As soon as there is a fix or none is to be expected, else after a wait.
FirstLoad(n) ==
    IF n.requestedFor = n.mode THEN [n EXCEPT !.timer = NoTimer]
    ELSE IF n.fix.known \/ n.noGps \/ n.recent.known
         THEN Load([n EXCEPT !.requestedFor = n.mode, !.timer = NoTimer], FALSE)
         ELSE [n EXCEPT !.timer = FIRST_FIX_WAIT]

Guided(n) == computeProgress(n.directions.model, n.fix.at, n.progress)

\* The directions that this progress, and what it remembers, are along.
Guides(n) == (IF n.progress.known THEN n.guidedBy ELSE {}) \cup {n.directions.steps}

SlipStraightIsFine(n, next) == n
\* No street directions: ask again after a while.
OnStraightLine(n, next) ==
    IF n.since > STRAIGHT_LINE_RETRY /\ ~next.arrived THEN Load(n, TRUE) ELSE n

\* Off the route for some fixes in a row, and not asked just now.
OnStreets(n, next) ==
    LET off == IF isOffRoute(next, n.fix.accuracy)
               THEN Smaller(n.off + 1, OFF_ROUTE_FIXES_BEFORE_REROUTE) ELSE 0
    IN  IF off >= OFF_ROUTE_FIXES_BEFORE_REROUTE /\ n.since > MIN_REROUTE_INTERVAL
        THEN Load([n EXCEPT !.off = 0], TRUE)
        ELSE [n EXCEPT !.off = off]

Moved(n, next) ==
    LET moved == [n EXCEPT !.progress = next, !.guidedBy = Guides(n), !.arrived = @ \/ next.arrived]
    IN  IF n.directions.source = "STRAIGHT_LINE" THEN OnStraightLine(moved, next) ELSE OnStreets(moved, next)

\* Every fix, and every change of the directions.
FixEffect(n) ==
    IF ~n.fix.known THEN n
    ELSE IF n.withoutFix THEN Load([n EXCEPT !.withoutFix = FALSE], TRUE)
    ELSE IF n.directions = NoDirections THEN n
    ELSE Moved(n, Guided(n))

\* Another mode starts over. The effects of this commit still see the old
\* directions: the reset of the state shows in the next one.
Restarted(n, mode) ==
    LET reset == [n EXCEPT !.mode = mode, !.requestedFor = NoMode, !.progress = NoProgress, !.off = 0, !.arrived = FALSE]
    IN  [FixEffect(FirstLoad(reset)) EXCEPT !.directions = NoDirections]

\* New directions: progress on them is worked out from nothing.
Shown(n, d) ==
    FixEffect([n EXCEPT !.directions = d, !.progress = NoProgress, !.off = 0, !.failed = FALSE, !.rerouting = FALSE])

(***************************************************************************)
(* Steps.                                                                  *)
(***************************************************************************)

Becomes(next) ==
    \E n \in {next} :
        /\ flights' = n.flights
        /\ nav' = [n EXCEPT !.flights = {}]
        /\ UNCHANGED trip

Now == [nav EXCEPT !.flights = flights]

InitIn(w) ==
    /\ trip = w
    /\ LET n == FirstLoad([mode |-> trip.mode, fix |-> NoFix, recent |-> trip.recent, noGps |-> trip.noGps,
                           directions |-> NoDirections, progress |-> NoProgress, guidedBy |-> {},
                           failed |-> FALSE, rerouting |-> FALSE, arrived |-> FALSE, since |-> 0, off |-> 0,
                           withoutFix |-> FALSE, requestedFor |-> NoMode, timer |-> NoTimer, flights |-> {}])
       IN  flights = n.flights /\ nav = [n EXCEPT !.flights = {}]

NavInit == \E w \in Worlds : InitIn(w)

\* A fix: the screen commits, and the effects that depend on it run. Every fix
\* has its own time, of which only the last bit is kept.
NewFix(at, accuracy) ==
    LET n == [Now EXCEPT !.fix = [known |-> TRUE, at |-> at, accuracy |-> accuracy, tick |-> ~@.tick]]
    IN  Becomes(FixEffect(IF nav.fix.known THEN n ELSE FirstLoad(n)))

ChangeMode(mode) ==
    /\ mode \in trip.modes \ {nav.mode}
    /\ Becomes(Restarted(Now, mode))

\* Permission for GPS, or GPS itself, is given or taken away.
ToggleGps == trip.gpsChanges /\ Becomes(FirstLoad([Now EXCEPT !.noGps = ~@]))

\* The fix of another screen is more than a minute old.
RecentExpires ==
    /\ nav.recent.known /\ ~nav.fix.known
    /\ Becomes([Now EXCEPT !.recent = Unknown])

Without(f) == [Now EXCEPT !.flights = flights \ {f}]

SlipNeverSuperseded(f) == FALSE
Superseded(f) == ~f.latest

Answered(f) ==
    /\ f \in flights
    /\ IF Superseded(f) THEN Becomes(Without(f))
       ELSE \E d \in getDirections(f) : Becomes(Shown(Without(f), d))

\* No network, or no such delivery, or an address that is not on the map.
Refused(f) ==
    /\ f \in flights
    /\ Becomes(IF Superseded(f) THEN Without(f)
               ELSE [Without(f) EXCEPT !.rerouting = FALSE, !.failed = @ \/ ~f.quiet])

phase == CASE nav.directions # NoDirections -> "READY"
           [] nav.directions = NoDirections /\ nav.failed -> "ERROR"
           [] OTHER -> "LOADING"

\* "Try again" is on the screen with the error only.
Retry == phase = "ERROR" /\ Becomes(Load(Now, FALSE))

DismissArrival == nav.arrived /\ Becomes([Now EXCEPT !.arrived = FALSE])

\* Time passes; the wait for a first fix may be over.
Tick ==
    /\ nav.since <= STRAIGHT_LINE_RETRY \/ nav.timer # NoTimer
    /\ LET n == [Now EXCEPT !.since = Smaller(@ + 1, STRAIGHT_LINE_RETRY + 1)]
       IN  Becomes(IF n.timer = NoTimer THEN n
                   ELSE IF n.requestedFor = n.mode THEN [n EXCEPT !.timer = NoTimer]
                   ELSE Load([n EXCEPT !.requestedFor = n.mode, !.timer = NoTimer], FALSE))

NavNext ==
    \/ \E p \in trip.places, a \in trip.accuracies : NewFix(p, a)
    \/ \E mode \in Modes : ChangeMode(mode)
    \/ ToggleGps
    \/ RecentExpires
    \/ \E f \in flights : Answered(f)
    \/ \E f \in flights : Refused(f)
    \/ Retry
    \/ DismissArrival
    \/ Tick

\* Time passes, and a request is answered or times out after twenty seconds.
\* Nothing says that fixes come: GPS reports movement only.
Fairness ==
    /\ WF_navVars(Tick)
    /\ []<>(flights = {}) \/ []<><<flights' # flights /\ \E f \in flights : Refused(f) \/ Answered(f)>>_navVars

Guidance == NavInit /\ [][NavNext]_navVars /\ Fairness

(***************************************************************************)
(* Properties.                                                             *)
(***************************************************************************)

\* Directions that were asked for from a fix of this screen are directions for
\* the mode chosen now: answers for another mode come too late to be shown.
FixedDirectionsFitMode ==
    nav.directions # NoDirections /\ nav.directions.fixed => nav.directions.mode = nav.mode

\* Progress is progress along the directions on the screen, also right after
\* they changed, and remembers no progress along others.
ProgressFitsDirections ==
    nav.directions # NoDirections /\ nav.progress.known => nav.guidedBy = {nav.directions.steps}

\* Every step of the directions starts where its manoeuvre is, at a vertex of
\* the line, and none starts before the one before it.
StepsStartOnTheLine ==
    nav.directions # NoDirections =>
        LET steps == nav.directions.steps
            built == Joined(steps)
            m == nav.directions.model
        IN  \A i \in DOMAIN steps :
                /\ built.starts[i] \in DOMAIN built.line
                /\ built.line[built.starts[i]] = steps[i].geometry[1]
                /\ i > 1 => m.stepStarts[i - 1] <= m.stepStarts[i]

\* What is on the screen belongs together: directions, mode, progress, steps.
DirectionsFit == FixedDirectionsFitMode /\ ProgressFitsDirections /\ StepsStartOnTheLine

\* From a fix to one close by, progress on the same directions moves by no more
\* than is never questioned, while its stretch is as close as any other.
StaysPut ==
    LET before == nav.progress
        after == nav'.progress
        m == nav.directions.model
    IN  /\ nav.directions # NoDirections /\ nav'.directions = nav.directions /\ nav'.fix # nav.fix
        /\ before.known /\ ~before.arrived /\ after.known /\ ~after.arrived
        /\ nav.guidedBy = {nav.directions.steps}
        /\ dist(nav.fix.at, nav'.fix.at) <= FREE_MOVE_M
        /\ snapToSegment(m, nav'.fix.at, before.stretch).distance = after.off
        => Apart(before.along, after.along) <= FREE_MOVE_M

\* Where the route passes twice, the postman stays on his stretch.
StaysOnItsStretch == [][StaysPut]_navVars

\* Directions that do not fit - a straight line, or a route the postman has
\* left - and no request for others.
Unguided ==
    /\ nav.directions # NoDirections /\ nav.fix.known /\ nav.progress.known
    /\ {f \in flights : f.latest} = {}
    /\ ~nav.progress.arrived
    /\ nav.directions.source = "STRAIGHT_LINE" \/ isOffRoute(nav.progress, nav.fix.accuracy)

FixesKeepComing == []<>(nav.fix.tick) /\ []<>(~nav.fix.tick)

\* They are not kept while fixes keep coming: others are asked for, or the
\* postman is back or arrives. A postman who stands still, of whom GPS reports
\* nothing, does keep them.
UnguidedIsTemporary == FixesKeepComing => (Unguided ~> ~Unguided)
=============================================================================
