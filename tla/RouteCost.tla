------------------------------ MODULE RouteCost ------------------------------
(***************************************************************************)
(* What a route costs, and the first route (routeAlgorithms.ts and         *)
(* clustering.ts; InsertionContext of alns.ts).  A problem p gives the     *)
(* seconds p.t[i][s] from node i to stop s (node 0 is the start, nodes and *)
(* stops share their numbers), for every stop its load, priority factor    *)
(* and seconds of service, and the total load.  Costs are exact integers:  *)
(* a cost of the code times Unit times the total load (or times Unit,      *)
(* without any load).                                                      *)
(***************************************************************************)
EXTENDS Integers, Sequences, SequencesExt, FiniteSetsExt, Functions

CONSTANTS
    Unit, LoadWeight, PriorityWeight,   \* the weights, in units of 1/Unit
    MinPoints,                          \* minPts of DBSCAN
    MinEps, MaxEps, DefaultEps          \* seconds

ASSUME RouteCostAssumption ==
    /\ Unit \in Nat \ {0} /\ LoadWeight \in Nat /\ PriorityWeight \in Nat
    /\ MinPoints \in Nat
    /\ MinEps \in Nat /\ MaxEps \in Nat /\ DefaultEps \in Nat

(* What of a sequence is in a set, in the order it has: SelectSeq as a     *)
(* function, which proofs can follow from one element to the next.         *)
Those(s, S) ==
    LET to[i \in 0..Len(s)] ==
          IF i = 0 THEN <<>>
          ELSE LET was == to[i - 1] IN IF s[i] \in S THEN Append(was, s[i]) ELSE was
    IN to[Len(s)]

Sum(f, first, last) ==
    LET to[i \in (first - 1)..last] == IF i < first THEN 0 ELSE to[i - 1] + f[i]
    IN IF last < first THEN 0 ELSE to[last]

StopsOf(p) == DOMAIN p.load
totalLoadOf(load) == Sum(load, 1, Len(load))
Scale(p) == IF p.total > 0 THEN p.total ELSE 1
NodeBefore(order, i) == IF i = 1 THEN 0 ELSE order[i - 1]
Leg(p, order, i) == p.t[NodeBefore(order, i)][order[i]]

(* The clock, the load on board and the cost after i stops of the order.   *)
After(p, order) ==
    LET scale == Scale(p)
        at[i \in 0..Len(order)] ==
          IF i = 0 THEN [clock |-> 0, remaining |-> p.total, cost |-> 0]
          ELSE LET t == Leg(p, order, i)
                   s == order[i]
                   was == at[i - 1]
               IN [clock |-> was.clock + t + p.service[s],
                   remaining |-> was.remaining - p.load[s],
                   cost |-> was.cost + Unit * scale * t + LoadWeight * t * was.remaining
                              + PriorityWeight * scale * p.factor[s] * (was.clock + t)]
    IN at
evaluateRoute(p, order) == After(p, order)[Len(order)].cost

(* InsertionContext.delta: what it costs to put stop x at index i, from    *)
(* sums over the stops before and after alone.                             *)
LegTimes(p, order) == [i \in DOMAIN order |-> Leg(p, order, i)]
LegsAfter(p, order, i) == Sum(LegTimes(p, order), i + 1, Len(order))
delta(p, order, x, i) ==
    LET prev == NodeBefore(order, i)
        last == i > Len(order)
        a == p.t[prev][x]
        b == IF last THEN 0 ELSE p.t[x][order[i]]
        c == IF last THEN 0 ELSE p.t[prev][order[i]]
        on == After(p, order)[i - 1]
        urgency == Sum([j \in DOMAIN order |-> p.factor[order[j]]], i, Len(order))
    IN Unit * Scale(p) * (a + b - c)
       + LoadWeight * (a * on.remaining + b * (on.remaining - p.load[x]) - c * on.remaining
                         - p.load[x] * LegsAfter(p, order, i))
       + PriorityWeight * Scale(p) *
           (p.factor[x] * (on.clock + a) + (a + p.service[x] + b - c) * urgency)

-----------------------------------------------------------------------------
(* Nearest Neighbor: the load-adjusted leg, made shorter for an urgent     *)
(* stop.  The adjustment for the load is the same for every candidate and  *)
(* is left out of the comparison; ties go to the shorter leg, then to the  *)
(* lower stop.                                                             *)
Key(p, from, s, o) == p.t[from][s] * (Unit + PriorityWeight * p.factor[o])
Closer(p, from, s, o) == Key(p, from, s, o) < Key(p, from, o, s)    \* nnKey of s is lower
Nearest(p, from, stops) ==
    CHOOSE s \in stops : \A o \in stops \ {s} :
        \/ Closer(p, from, s, o)
        \/ /\ ~Closer(p, from, o, s)
           /\ \/ p.t[from][s] < p.t[from][o]
              \/ p.t[from][s] = p.t[from][o] /\ s < o

nearestNeighborFrom(p, from, stops) ==
    LET run[k \in 0..Cardinality(stops)] ==
          IF k = 0 THEN <<>>
          ELSE LET was == run[k - 1]
               IN Append(was, Nearest(p, IF k = 1 THEN from ELSE Last(was), stops \ Range(was)))
    IN run[Cardinality(stops)]

-----------------------------------------------------------------------------
(* DBSCAN.  Times between stops are added over both directions, so they    *)
(* are twice those of the code; so is eps, and once more for its 1.5.      *)
Both(p, i, j) == IF i = j THEN 0 ELSE p.t[i][j] + p.t[j][i]

KthSmallest(f, S, k) ==
    CHOOSE v \in {f[i] : i \in S} : /\ Cardinality({i \in S : f[i] < v}) < k
                                   /\ Cardinality({i \in S : f[i] <= v}) >= k
autoEps4(p) ==      \* 4 * autoEpsSeconds
    LET S == StopsOf(p)
        n == Cardinality(S)
        k == Max({1, Min({MinPoints - 1, n - 1})})
        kth == [i \in S |-> KthSmallest([j \in S |-> Both(p, i, j)], S \ {i}, k)]
        p75 == KthSmallest(kth, S, ((3 * (n - 1)) \div 4) + 1)
    IN IF n < 3 THEN 4 * DefaultEps
       ELSE Min({4 * MaxEps, Max({4 * MinEps, 3 * p75})})
eps4(p) == IF p.eps > 0 THEN 4 * p.eps ELSE autoEps4(p)

(* Cores that reach each other are one cluster; a stop that is no core     *)
(* belongs to the first cluster with a core beside it, or is noise and on  *)
(* its own.  Clusters come in the order of their first core, noise last.   *)
Beside(p, eps) == [i \in StopsOf(p) |-> {j \in StopsOf(p) : 2 * Both(p, i, j) <= eps}]
ClustersOf(beside) ==
    LET S == DOMAIN beside
        cores == {i \in S : Cardinality(beside[i]) >= MinPoints}
        reach[k \in 0..Cardinality(S)] ==
            IF k = 0 THEN [i \in cores |-> {i}]
            ELSE LET was == reach[k - 1]
                 IN [i \in cores |-> UNION {beside[j] \cap cores : j \in was[i]}]
        root == [i \in cores |-> Min(reach[Cardinality(S)][i])]
        rank == [i \in S |-> IF beside[i] \cap cores = {} THEN Cardinality(S) + i
                             ELSE IF i \in cores THEN root[i]
                             ELSE Min({root[j] : j \in beside[i] \cap cores})]
    IN {[rank |-> r, stops |-> {j \in S : rank[j] = r}] : r \in Range(rank)}
dbscan(p) == ClustersOf(Beside(p, eps4(p)))

(* The clusters one after the other, Nearest Neighbor inside each: next    *)
(* comes the cluster whose best key is lowest.                             *)
NextCluster(p, from, clusters) ==
    LET best == [c \in clusters |-> Nearest(p, from, c.stops)] IN
    CHOOSE c \in clusters : \A d \in clusters :
        \/ Closer(p, from, best[c], best[d])
        \/ ~Closer(p, from, best[d], best[c]) /\ c.rank <= d.rank
Chained(p, clusters) ==
    LET at[k \in 0..Cardinality(clusters)] ==
          IF k = 0 THEN [blocks |-> <<>>, left |-> clusters]
          ELSE LET was == at[k - 1]
                   from == IF k = 1 THEN 0 ELSE Last(Last(was.blocks))
                   c == NextCluster(p, from, was.left)
               IN [blocks |-> Append(was.blocks, nearestNeighborFrom(p, from, c.stops)),
                   left |-> was.left \ {c}]
    IN at[Cardinality(clusters)].blocks
=============================================================================
