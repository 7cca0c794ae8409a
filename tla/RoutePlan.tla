------------------------------ MODULE RoutePlan ------------------------------
(***************************************************************************)
(* A route is planned (RoadRouteOptimizationService.ts): where it starts,  *)
(* the travel times, the order of the stops, the line on the map.  Each    *)
(* request waits for the routing engine; between two waits it runs alone,  *)
(* and requests share the cache of the engine's answers.                   *)
(***************************************************************************)
EXTENDS RouteSearch, RoadMatrix

CONSTANTS Requests, Settings, MaxClock

VARIABLE req        \* [Requests -> the request in that slot]

planVars == <<setting, clock, pairs, routes, req, search>>

(* A round is a list of stops with whole numbers; of any two of its places *)
(* the distance is known.                                                  *)
PlacesOf(ask) ==
    Range(ask.fixes) \cup {ask.office} \cup {stop.place : stop \in Range(ask.stops)}
IsRound(ask, estimate) ==
    /\ ask.fixes \in Seq(Range(ask.fixes)) /\ ask.stops \in Seq(Range(ask.stops))
    /\ \A stop \in Range(ask.stops) :
         stop.weight \in Nat /\ stop.factor \in Nat /\ stop.service \in Nat
    /\ PlacesOf(ask) \X PlacesOf(ask) \subseteq DOMAIN estimate

(* Times and limits are numbers; caches hold pairs of places with a road.  *)
ASSUME RoutePlanAssumption ==
    /\ TTL \in Nat
    /\ \A s \in Settings :
         /\ \A key \in DOMAIN s.road : s.road[key] \in Nat
         /\ \A key \in DOMAIN s.estimate : s.estimate[key] \in Nat
         /\ s.cached \in Seq(DOMAIN s.road)
         /\ s.maxPairs \in Nat /\ s.tableLimit \in Nat \ {0}
         /\ s.eps \in Nat
         /\ \A r \in DOMAIN s.asks : IsRound(s.asks[r], s.estimate)

Idle == [pc |-> "idle", quiet |-> TRUE]
Ask(r) == setting.asks[r]
OnTurn == {r \in Requests : req[r].pc \in {"search", "order"}}    \* runs, waits for nothing

PlanInit ==
    /\ setting \in Settings
    /\ clock = 1
    /\ pairs = [i \in DOMAIN setting.cached |-> [key |-> setting.cached[i], at |-> 0]]
    /\ routes = <<>>
    /\ req = [r \in Requests |-> Idle]
    /\ search = NotSearching

-----------------------------------------------------------------------------
(* The input *)

(* The first of the phone's fix and the last ping, those that are usable,  *)
(* that is near enough; else the post office.                              *)
resolveRouteStart(ask) ==
    Head(Those(ask.fixes, Range(ask.fixes) \ setting.far) \o <<ask.office>>)
Points(ask) == <<resolveRouteStart(ask)>> \o [s \in DOMAIN ask.stops |-> ask.stops[s].place]

(* Stops of unknown weight get the median of the known ones.               *)
stopWeights(stops) ==
    LET weight == [s \in DOMAIN stops |-> stops[s].weight]
        known == {s \in DOMAIN stops : weight[s] > 0}
        n == Cardinality(known)
        mid(k) == KthSmallest(weight, known, k)
        median == IF n % 2 = 1 THEN mid((n + 1) \div 2)
                  ELSE (mid(n \div 2) + mid(n \div 2 + 1)) \div 2
    IN [s \in DOMAIN stops |-> IF known = {} THEN 0
                               ELSE IF s \in known THEN weight[s] ELSE median]

Problem(ask, estimated) ==
    [t |-> Durations(Points(ask), estimated),
     load |-> stopWeights(ask.stops), total |-> totalLoadOf(stopWeights(ask.stops)),
     factor |-> [s \in DOMAIN ask.stops |-> ask.stops[s].factor],
     service |-> [s \in DOMAIN ask.stops |-> ask.stops[s].service],
     eps |-> setting.eps, passes |-> setting.passes, preserve |-> setting.preserve,
     iterations |-> setting.iterations, patience |-> setting.patience]

(* fixedOrder: the stops of the old order that are left, then the others.  *)
KeptOrder(ask) ==
    LET Left(s) == s \in DOMAIN ask.stops
        kept == SelectSeq(ask.keep, Left)
        Other(s) == s \notin Range(kept)
    IN kept \o SelectSeq(Upto(1, Len(ask.stops)), Other)

-----------------------------------------------------------------------------
(* planRouteFromInputs: the matrix, and the order at once *)

Planned(q, ask, mode, estimated, warned, slipped) ==
    LET kept == ask.keep # <<>> IN
    [pc |-> IF kept THEN "order" ELSE "search", mode |-> mode, estimated |-> estimated,
     warned |-> warned, slipped |-> slipped, quiet |-> q.quiet,
     order |-> IF kept THEN KeptOrder(ask) ELSE <<>>, line |-> "NONE", chunks |-> 0]
WithMatrix(r, all, mode, estimated, warned, slipped) ==
    /\ req' = [all EXCEPT ![r] = Planned(@, Ask(r), mode, estimated, warned, slipped)]
    /\ IF Ask(r).keep # <<>> THEN UNCHANGED search ELSE Begin(Problem(Ask(r), estimated))

AskMatrix(r) == r \in DOMAIN setting.asks /\ req[r] = Idle /\ OnTurn = {}

NothingToPlan(r) ==
    /\ AskMatrix(r) /\ Ask(r).stops = <<>>
    /\ req' = [req EXCEPT ![r] = [Planned(@, Ask(r), IF setting.configured THEN "ROAD" ELSE "ESTIMATED",
                                         {}, FALSE, FALSE) EXCEPT !.pc = "done"]]
    /\ UNCHANGED <<setting, clock, cache, search>>

NotConfigured(r) ==
    /\ AskMatrix(r) /\ Ask(r).stops # <<>> /\ ~setting.configured
    /\ WithMatrix(r, req, "ESTIMATED", Legs(Points(Ask(r))), TRUE, FALSE)
    /\ UNCHANGED <<setting, clock, cache>>

(* Entries may be gone that a waiting request counts on.                   *)
Disturbed(all) == [q \in Requests |-> IF all[q].pc = "fetch" THEN [all[q] EXCEPT !.quiet = FALSE]
                                      ELSE all[q]]

(* Everything is known.  The clock may move on between the look at every   *)
(* pair and the reading of them.                                           *)
assembleFromCache(r) ==
    /\ AskMatrix(r) /\ Ask(r).stops # <<>> /\ setting.configured
    /\ Missing(pairs, Points(Ask(r)), clock) = {}
    /\ \E later \in {clock, clock + 1} \cap 0..MaxClock :
         /\ clock' = later
         /\ WithMatrix(r, IF later > clock THEN Disturbed(req) ELSE req, "ROAD",
                       Missing(pairs, Points(Ask(r)), later), FALSE, later > clock)
    /\ pairs' = AfterRead(pairs, KeysOf(Points(Ask(r))), clock')
    /\ UNCHANGED <<setting, routes>>

AskEngine(r) ==
    /\ AskMatrix(r) /\ Ask(r).stops # <<>> /\ setting.configured
    /\ LET points == Points(Ask(r))
           missing == Missing(pairs, points, clock)
       IN /\ missing # {}
          /\ req' = [req EXCEPT ![r] = [pc |-> "fetch", quiet |-> TRUE,
                       todo |-> Fetches(Len(points), missing)]]
          /\ pairs' = AfterRead(pairs, KeysOf(points), clock)
    /\ UNCHANGED <<setting, clock, routes, search>>

(* An answer: its pairs are stored, and after the last one the matrix is   *)
(* put together from the cache.                                            *)
EngineAnswers(r) ==
    /\ req[r].pc = "fetch" /\ OnTurn = {}
    /\ LET points == Points(Ask(r))
           stored == StorePairs(pairs, points, Head(req[r].todo))
           full == Len(pairs) + Len(Head(req[r].todo)) > setting.maxPairs
           all == IF full THEN Disturbed(req) ELSE req
           estimated == Missing(stored, points, clock)
       IN IF Len(req[r].todo) > 1
            THEN /\ req' = [all EXCEPT ![r].todo = Tail(@)]
                 /\ pairs' = stored /\ UNCHANGED search
            ELSE /\ WithMatrix(r, all, "ROAD", estimated, estimated # {}, FALSE)
                 /\ pairs' = AfterRead(stored, KeysOf(points), clock)
    /\ UNCHANGED <<setting, clock, routes>>

EngineFails(r) ==
    /\ req[r].pc = "fetch" /\ OnTurn = {} /\ setting.fails
    /\ WithMatrix(r, req, "ESTIMATED", Legs(Points(Ask(r))), TRUE, FALSE)
    /\ UNCHANGED <<setting, clock, cache>>

-----------------------------------------------------------------------------
(* The search, and the line on the map *)

Search == OnTurn # {} /\ Searching /\ SearchStep /\ UNCHANGED <<setting, clock, cache, req>>

SearchDone(r) ==
    /\ req[r].pc = "search" /\ search.pc = "done"
    /\ req' = [req EXCEPT ![r].pc = "order", ![r].order = search.best]
    /\ search' = NotSearching
    /\ UNCHANGED <<setting, clock, cache>>

Line(r) == <<Points(Ask(r))[1]>> \o [i \in DOMAIN req[r].order |-> Ask(r).stops[req[r].order[i]].place]
SlipDrawnQuietly(r, line) == req' = [req EXCEPT ![r].pc = "done", ![r].line = line]
Drawn(r, line) ==
    req' = [req EXCEPT ![r].pc = "done", ![r].line = line,
              ![r].warned = @ \/ (line = "STRAIGHT_LINE" /\ req[r].mode = "ROAD")]

DrawLine(r) ==
    /\ req[r].pc = "order"
    /\ routes' = IF req[r].mode = "ROAD" THEN AfterRead(routes, {Line(r)}, clock) ELSE routes
    /\ IF req[r].mode # "ROAD" THEN Drawn(r, "STRAIGHT_LINE")
       ELSE IF Has(routes, Line(r), clock) THEN Drawn(r, "ROAD")
       ELSE req' = [req EXCEPT ![r].pc = "line", ![r].chunks = Chunks(Line(r))]
    /\ UNCHANGED <<setting, clock, pairs, search>>

LineAnswered(r) ==
    /\ req[r].pc = "line" /\ OnTurn = {}
    /\ IF req[r].chunks > 1
         THEN req' = [req EXCEPT ![r].chunks = @ - 1] /\ UNCHANGED routes
         ELSE Drawn(r, "ROAD") /\ routes' = setRoute(routes, Line(r))
    /\ UNCHANGED <<setting, clock, pairs, search>>

LineFails(r) ==
    /\ req[r].pc = "line" /\ OnTurn = {} /\ setting.fails
    /\ Drawn(r, "STRAIGHT_LINE")
    /\ UNCHANGED <<setting, clock, cache, search>>

ClockMoves ==
    /\ clock < MaxClock /\ setting.ticks /\ OnTurn = {}
    /\ clock' = clock + 1
    /\ req' = Disturbed(req)
    /\ UNCHANGED <<setting, cache, search>>

PlanNext ==
    \/ \E r \in Requests :
        \/ NothingToPlan(r) \/ NotConfigured(r) \/ assembleFromCache(r)
        \/ AskEngine(r) \/ EngineAnswers(r) \/ EngineFails(r)
        \/ SearchDone(r) \/ DrawLine(r) \/ LineAnswered(r) \/ LineFails(r)
    \/ Search \/ ClockMoves

Planning == PlanInit /\ [][PlanNext]_planVars

-----------------------------------------------------------------------------
(* Properties *)

Complete(order) == Range(order) = StopsOf(problem) /\ IsInjective(order)
Unbroken(order, S) ==
    LET at == {i \in DOMAIN order : order[i] \in S}
    IN Cardinality(at) = Max(at) - Min(at) + 1

(* "it never scatters a cluster": every route of the search visits every   *)
(* stop once and, with preserveClusters, each cluster of DBSCAN in one     *)
(* run, whatever was removed, reinserted, polished and accepted before.    *)
ClustersStayTogether ==
    Searching /\ search.pc \notin {"construct", "idle"} =>
        \A order \in {FlattenSeq(search.blocks)} \cup ({search.current, search.best} \ {<<>>}) :
            /\ Complete(order)
            /\ problem.preserve \/ order = FlattenSeq(search.blocks) =>
                 \A S \in search.clusters : Unbroken(order, S)

(* "True only if the guard had to discard 2-opt's result (it never         *)
(* should)", and the same for ALNS: the route that is answered is the best *)
(* one found and costs no more than that of 2-opt, nor than the first.     *)
NeverDearer ==
    Searching /\ search.pc = "done" =>
        /\ ~search.reverted
        /\ evaluateRoute(problem, search.best) <= Cost(search.blocks)
        /\ Cost(search.blocks) <= Cost(search.start)

(* twoOptStoppedBy = CONVERGED, "Repeat passes until no reversal helps":   *)
(* no reversal inside a cluster and no reversal of a run of clusters would *)
(* lower the cost, unless the rounds ran out.                              *)
ConvergedIsLocalOptimum ==
    Searching /\ search.pc = "alns" /\ search.stoppedBy = "CONVERGED"
    /\ ~(search.gained /\ search.round = Rounds) =>
        /\ \A m \in Range(StopMoves(search.blocks)) :
             Cost(StopMove(search.blocks, m)) >= Cost(search.blocks)
        /\ \A m \in Range(BlockMoves(search.blocks)) :
             Cost(BlockMove(search.blocks, m)) >= Cost(search.blocks)

(* "the EXACT change in cost when one more stop is inserted at any         *)
(* position": the closed form by which repair chooses agrees with the full *)
(* cost of the route with and without the stop.                            *)
InsertionIsExact ==
    Searching /\ search.pc = "alns" =>
        \A x \in Range(search.current) :
            LET without == Those(search.current, Range(search.current) \ {x}) IN
               \A i \in 1..(Len(without) + 1) :
                 delta(problem, without, x, i) =
                   evaluateRoute(problem, InsertAt(without, i, x)) - evaluateRoute(problem, without)

(* What the search answers is what it says it is, and is found by exact    *)
(* differences.                                                            *)
SearchIsSound ==
    ClustersStayTogether /\ NeverDearer /\ ConvergedIsLocalOptimum /\ InsertionIsExact

(* "it is never presented as a road route": a route with an estimated leg  *)
(* or a straight line is flagged ESTIMATED or carries a warning, unless a  *)
(* pair expired within the reading of the cache.                           *)
Driven(r) ==
    LET node(i) == IF i = 0 THEN 1 ELSE req[r].order[i] + 1
    IN {<<node(i - 1), node(i)>> : i \in DOMAIN req[r].order}
EstimatesAreSaid ==
    \A r \in Requests :
        req[r].pc = "done" /\ ~req[r].slipped
        /\ (Driven(r) \cap req[r].estimated # {} \/ req[r].line = "STRAIGHT_LINE") =>
            req[r].mode = "ESTIMATED" \/ req[r].warned

(* "Everything the engine could answer is now cached; a pair it could not  *)
(* connect is estimated for that pair only": with road times, only legs    *)
(* the engine has no road for are estimated, whichever rows, columns or    *)
(* blocks were asked for and whatever others stored meanwhile, unless a    *)
(* pair expired or was evicted on the way.                                 *)
OnlyUnlinkedEstimated ==
    \A r \in Requests :
        req[r].pc \in {"search", "order", "line", "done"}
        /\ req[r].mode = "ROAD" /\ req[r].quiet /\ ~req[r].slipped =>
            \A leg \in req[r].estimated : KeyOf(Points(Ask(r)), leg) \notin DOMAIN setting.road

(* Estimates stand in for missing roads only, and are said.                *)
EstimatesAreHonest == EstimatesAreSaid /\ OnlyUnlinkedEstimated
=============================================================================
