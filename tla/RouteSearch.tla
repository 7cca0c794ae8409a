---------------------------- MODULE RouteSearch ----------------------------
(***************************************************************************)
(* The search for a cheaper route (twoOpt in routeAlgorithms.ts,           *)
(* clustering.ts, alns.ts): DBSCAN and Nearest Neighbor, 2-opt inside the  *)
(* clusters and over their order, then ALNS.  One action is a pass of      *)
(* 2-opt or an iteration of ALNS.  The clock may stop a pass after any     *)
(* move and the search after any iteration.  The wheel of operator weights *)
(* only changes how likely a choice is, and the annealing temperature how  *)
(* likely a dearer route is accepted: both are choices here.  Operators    *)
(* that remove stops are one: random removal can take any stops in any     *)
(* order, the others take some of those.                                   *)
(***************************************************************************)
EXTENDS RouteCost

CONSTANTS Rounds, BlockPasses, PolishPasses

ASSUME RouteSearchAssumption ==
    Rounds \in Nat \ {0} /\ BlockPasses \in Nat /\ PolishPasses \in Nat

VARIABLE search

NotSearching == [pc |-> "idle"]
Searching == search # NotSearching
problem == search.problem   \* with maxPasses, and preserve, iterations and patience of ALNS

-----------------------------------------------------------------------------
(* Moves of 2-opt.  A route is a sequence of blocks.                       *)

Reversed(s, i, j) == SubSeq(s, 1, i - 1) \o Reverse(SubSeq(s, i, j)) \o SubSeq(s, j + 1, Len(s))
StopMove(blocks, m) == [blocks EXCEPT ![m[1]] = Reversed(@, m[2], m[3])]
BlockMove(blocks, m) ==
    Reversed([k \in DOMAIN blocks |-> IF k \in m[1]..m[2] THEN Reversed(blocks[k], 1, Len(blocks[k]))
                                      ELSE blocks[k]], m[1], m[2])

Pairs(n) == FlattenSeq([i \in 1..(n - 1) |-> [d \in 1..(n - i) |-> <<i, i + d>>]])
StopMoves(blocks) ==
    FlattenSeq([k \in DOMAIN blocks |-> LET pairs == Pairs(Len(blocks[k]))
                                        IN [m \in DOMAIN pairs |-> <<k>> \o pairs[m]]])
BlockMoves(blocks) == Pairs(Len(blocks))

Cost(blocks) == evaluateRoute(problem, FlattenSeq(blocks))
Cheaper(b, c) == IF Cost(c) < Cost(b) THEN c ELSE b
Tried(was, moved) == Append(was, Cheaper(Last(was), moved))
(* What a pass goes through: a move is kept only if it lowers the cost.    *)
Trail(blocks, moves, Move(_, _)) ==
    LET to[k \in 0..Len(moves)] ==
          IF k = 0 THEN <<blocks>>
          ELSE Tried(to[k - 1], Move(Last(to[k - 1]), moves[k]))
    IN to[Len(moves)]
StopTrail(blocks) == Trail(blocks, StopMoves(blocks), StopMove)
BlockTrail(blocks) == Trail(blocks, BlockMoves(blocks), BlockMove)

-----------------------------------------------------------------------------
(* optimizeClusteredOrder *)

Begin(new) ==
    search' = [pc |-> "construct", problem |-> new, clusters |-> {}, start |-> <<>>,
               blocks |-> <<>>, round |-> 1, pass |-> 0, gained |-> FALSE,
               stoppedBy |-> "NOT_RUN", reverted |-> FALSE,
               current |-> <<>>, best |-> <<>>, iteration |-> 0, sinceBest |-> 0]

Construct ==
    /\ search.pc = "construct"
    /\ LET several == Cardinality(StopsOf(problem)) >= 2 IN
       \E clusters \in {dbscan(problem)} : \E blocks \in {Chained(problem, clusters)} :
         search' = [search EXCEPT
            !.clusters = {c.stops : c \in clusters}, !.start = blocks, !.blocks = blocks,
            !.stoppedBy = IF several THEN "CONVERGED" ELSE "NOT_RUN",
            !.pc = IF several THEN "stops" ELSE "guard"]

(* twoOpt stops after a pass without improvement or after maxPasses.            *)
PassOverStops ==
    /\ search.pc = "stops"
    /\ \E blocks \in {Last(StopTrail(search.blocks))} :
       LET improved == blocks # search.blocks
           more == improved /\ search.pass + 1 < problem.passes
       IN search' = [search EXCEPT
            !.blocks = blocks,
            !.pass = IF more THEN @ + 1 ELSE 0,
            !.stoppedBy = IF improved /\ ~more THEN "MAX_PASSES" ELSE @,
            !.pc = IF more THEN "stops" ELSE "blocks"]

(* twoOptBlocks, and another round if it found anything.                   *)
SlipOneRound(gained) == FALSE
AnotherRound(gained) == gained /\ search.round < Rounds
PassOverBlocks ==
    /\ search.pc = "blocks"
    /\ \E blocks \in {Last(BlockTrail(search.blocks))} :
       LET improved == blocks # search.blocks
           gained == search.gained \/ improved
       IN search' =
            IF improved /\ search.pass + 1 < BlockPasses
              THEN [search EXCEPT !.blocks = blocks, !.pass = @ + 1, !.gained = TRUE]
            ELSE IF AnotherRound(gained)
              THEN [search EXCEPT !.blocks = blocks, !.pass = 0, !.gained = FALSE,
                                  !.round = @ + 1, !.pc = "stops"]
            ELSE [search EXCEPT !.blocks = blocks, !.gained = gained, !.pc = "guard"]

(* The deadline passes before a move: what was found so far is kept, and   *)
(* the other level finds the deadline passed too.                          *)
TimeOver ==
    /\ search.pc \in {"stops", "blocks"}
    /\ \E blocks \in Range(Front(IF search.pc = "stops" THEN StopTrail(search.blocks)
                                                       ELSE BlockTrail(search.blocks))) :
         search' = [search EXCEPT !.pc = "guard", !.stoppedBy = "TIME_LIMIT", !.blocks = blocks]

(* The guard of 2-opt, then ALNS unless there is nothing to search.        *)
Guard ==
    /\ search.pc = "guard"
    /\ LET reverted == Cost(search.blocks) > Cost(search.start)
           blocks == IF reverted THEN search.start ELSE search.blocks
           order == FlattenSeq(blocks)
       IN search' = [search EXCEPT
            !.reverted = reverted, !.blocks = blocks, !.current = order, !.best = order,
            !.pc = IF Cardinality(StopsOf(problem)) < 3 \/ problem.iterations = 0 THEN "done" ELSE "alns"]

-----------------------------------------------------------------------------
(* alns *)

(* clusterOfStop: the block of the stop in the route of 2-opt.             *)
LabelOf(x) == CHOOSE k \in DOMAIN search.blocks : x \in Range(search.blocks[k])
runsOf(order) ==
    LET to[i \in 0..Len(order)] ==
          IF i = 0 THEN <<>>
          ELSE LET runs == to[i - 1]
               IN IF i > 1 /\ LabelOf(order[i - 1]) = LabelOf(order[i])
                    THEN Append(Front(runs), Append(Last(runs), order[i]))
                    ELSE Append(runs, <<order[i]>>)
    IN to[Len(order)]

minRemove(n) == Min({n, Max({2, (n + 9) \div 10})})
maxRemove(n) == Min({n, Max({minRemove(n), Min({(2 * n + 4) \div 5, 25})})})
Removals(order) ==
    UNION {Injection(1..q, Range(order)) : q \in minRemove(Len(order))..maxRemove(Len(order))}

positions(route, x) ==
    LET own == {i \in DOMAIN route : LabelOf(route[i]) = LabelOf(x)}
        ends == {1, Len(route) + 1}
    IN IF ~problem.preserve THEN 1..(Len(route) + 1)
       ELSE IF own # {} THEN Min(own)..(Max(own) + 1)
       ELSE ends \cup {i \in 2..Len(route) : LabelOf(route[i - 1]) # LabelOf(route[i])}

(* How urgent it is to insert x now: for greedy how cheap it is, for a     *)
(* regret how much dearer its next best places are.  A place it does not   *)
(* have (NO_OPTION) outweighs every cost.                                  *)
Kinds == {1, 2, 3}          \* greedy, regret2, regret3
CostsOf(route, x) == [i \in positions(route, x) |-> delta(problem, route, x, i)]
Insertion(x, k, costs) ==
    LET at == DOMAIN costs
        cheapest == KthSmallest(costs, at, 1)
        options == Min({k, Cardinality(at)})
    IN [stop |-> x, cost |-> cheapest,
        index |-> Min({i \in at : costs[i] = cheapest}),
        missing |-> k - options,
        score |-> IF k = 1 THEN -cheapest
                  ELSE Sum([j \in 1..options |-> KthSmallest(costs, at, j) - cheapest], 2, options)]
MoreUrgent(x, y) ==
    \/ x.missing > y.missing
    \/ x.missing = y.missing /\ x.score > y.score
    \/ x.missing = y.missing /\ x.score = y.score /\ x.cost < y.cost

(* The most urgent of them, the first among equals, comes next.            *)
Inserted(was, insertions) ==
    LET c == CHOOSE j \in DOMAIN insertions : \A o \in DOMAIN insertions :
               \/ MoreUrgent(insertions[j], insertions[o])
               \/ ~MoreUrgent(insertions[o], insertions[j]) /\ j <= o
    IN [route |-> InsertAt(was.route, insertions[c].index, insertions[c].stop),
        pending |-> RemoveAt(was.pending, c)]
repair(k, partial, removed) ==
    LET at[i \in 0..Len(removed)] ==
          IF i = 0 THEN [route |-> partial, pending |-> removed]
          ELSE LET was == at[i - 1]
               IN Inserted(was, [j \in DOMAIN was.pending |->
                    Insertion(was.pending[j], k, CostsOf(was.route, was.pending[j]))])
    IN at[Len(removed)].route

(* 2-opt of at most PolishPasses passes, cut off by its own time limit     *)
(* after any move; used only if cheaper.                                   *)
Polished(order) ==
    LET trail[k \in 1..PolishPasses] ==
          StopTrail(IF k > 1 THEN Last(trail[k - 1])
                    ELSE IF problem.preserve THEN runsOf(order) ELSE <<order>>)
    IN {FlattenSeq(blocks) : blocks \in UNION {Range(trail[k]) : k \in 1..PolishPasses}}
DearerThan(a, b) == evaluateRoute(problem, b) < evaluateRoute(problem, a)
CheaperOrder(a, b) == IF DearerThan(a, b) THEN b ELSE a

BestAfter(best, candidate) == CheaperOrder(best, candidate)

Repaired(k, removed) ==
    repair(k, Those(search.current, Range(search.current) \ Range(removed)), removed)

Iterate(k, removed) ==
    /\ search.pc = "alns"
    /\ search.iteration < problem.iterations /\ search.sinceBest < problem.patience
    /\ \E repaired \in {Repaired(k, removed)} :
       \E beats \in {DearerThan(search.best, repaired)} :
          \E candidate \in IF beats THEN {CheaperOrder(repaired, o) : o \in Polished(repaired)}
                           ELSE {repaired} :
          \E moveTo \in IF ~beats /\ DearerThan(candidate, search.current)
                          THEN BOOLEAN ELSE {TRUE} :
            search' = [search EXCEPT
              !.current = IF moveTo THEN candidate ELSE @,
              !.best = BestAfter(@, candidate),
              !.sinceBest = IF beats THEN 0 ELSE @ + 1,
              !.iteration = @ + 1]

(* A limit is reached or the time is over: the last polish, and the guard. *)
StopSearching ==
    /\ search.pc = "alns"
    /\ \E o \in Polished(search.best) :
       \E found \in {CheaperOrder(search.best, o)} :
         LET reverted == evaluateRoute(problem, found) > Cost(search.blocks)
         IN search' = [search EXCEPT
              !.best = IF reverted THEN FlattenSeq(search.blocks) ELSE found,
              !.reverted = @ \/ reverted, !.pc = "done"]

SearchStep ==
    \/ Construct \/ PassOverStops \/ PassOverBlocks \/ TimeOver \/ Guard
    \/ \E removed \in Removals(search.current), k \in Kinds : Iterate(k, removed)
    \/ StopSearching
=============================================================================
