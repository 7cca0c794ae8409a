----------------------------- MODULE RoadMatrix -----------------------------
(***************************************************************************)
(* Travel times between the points of a route (routing.ts).  Every answer  *)
(* of the routing engine is cached for each pair of places, in the order   *)
(* of insertion; a matrix is put together from the cache, after asking the *)
(* engine for what is missing.  The engine answers the same while the      *)
(* model runs, so a cached pair is its places and when it was stored.      *)
(***************************************************************************)
EXTENDS RouteCost

CONSTANTS
    TTL,            \* ticks of the clock a pair or a line stays fresh
    CoverFrom,      \* from how many points on rows and columns are asked for
    MaxRoutes

VARIABLES
    setting,      \* the instance: the engine, its limits, the requests
    clock,
    pairs,      \* TravelPairCache.pairs, oldest insertion first
    routes      \* TravelPairCache.routes

cache == <<pairs, routes>>

-----------------------------------------------------------------------------
(* TravelPairCache.  A read deletes the entry it finds expired.            *)

Expired(e, now) == now - e.at > TTL
Has(c, key, now) == \E e \in Range(c) : e.key = key /\ ~Expired(e, now)
AfterRead(c, keys, now) ==
    Those(c, {e \in Range(c) : e.key \notin keys \/ ~Expired(e, now)})

Put(c, key) ==      \* Map.set keeps the place of a key it has
    IF \E e \in Range(c) : e.key = key
      THEN [i \in DOMAIN c |-> IF c[i].key = key THEN [c[i] EXCEPT !.at = clock] ELSE c[i]]
      ELSE Append(c, [key |-> key, at |-> clock])
Full == (setting.maxPairs + 9) \div 10        \* how many entries go when it is full
setPair(c, key) ==
    Put(IF Len(c) >= setting.maxPairs THEN SubSeq(c, Full + 1, Len(c)) ELSE c, key)
setRoute(c, key) == Put(IF Len(c) >= MaxRoutes THEN Tail(c) ELSE c, key)

-----------------------------------------------------------------------------
(* getMatrix.  A leg is a pair of indices of the points.                   *)

Cross(R, C) == FlattenSeq([i \in DOMAIN R |-> [j \in DOMAIN C |-> <<R[i], C[j]>>]])
Upto(first, last) == [i \in 1..(last - first + 1) |-> first + i - 1]
Legs(points) == {leg \in (DOMAIN points) \X (DOMAIN points) : leg[1] # leg[2]}
KeyOf(points, leg) == <<points[leg[1]], points[leg[2]]>>
KeysOf(points) == {KeyOf(points, leg) : leg \in Legs(points)}
Missing(c, points, now) == {leg \in Legs(points) : ~Has(c, KeyOf(points, leg), now)}

(* The greedy cover: points that are in every missing leg; none if it      *)
(* takes more than three.                                                  *)
coverMissing(missing) ==
    LET of(i, legs) == {leg \in legs : i \in {leg[1], leg[2]}}
        busiest(legs) ==
          LET count == [i \in UNION {{leg[1], leg[2]} : leg \in legs} |-> Cardinality(of(i, legs))]
          IN Min({i \in DOMAIN count : \A j \in DOMAIN count : count[i] >= count[j]})
        at[k \in 0..3] ==
          IF k = 0 THEN [left |-> missing, cover |-> <<>>]
          ELSE LET was == at[k - 1]
                   i == busiest(was.left)
               IN IF was.left = {} THEN was
                  ELSE [left |-> was.left \ of(i, was.left), cover |-> Append(was.cover, i)]
    IN IF at[3].left = {} THEN at[3].cover ELSE <<>>

(* What to ask for, one request after the other: the legs stored when its  *)
(* answer is there.  A row is stored together with its column.             *)
RowThenColumn(n, k) == << <<>>, Cross(<<k>>, Upto(1, n)) \o Cross(Upto(1, n), <<k>>) >>
Worthwhile(rows, cols) == rows # cols \/ Len(rows) > 1      \* not one point alone
fetchEveryPair(n) ==
    LET size == Max({1, setting.tableLimit \div 2})
        parts == [b \in 1..((n + size - 1) \div size) |->
                    Upto((b - 1) * size + 1, Min({n, b * size}))]
        all == Cross(parts, parts)
        blocks == Those(all, {block \in Range(all) : Worthwhile(block[1], block[2])})
    IN IF n <= setting.tableLimit THEN << Cross(Upto(1, n), Upto(1, n)) >>
       ELSE [b \in DOMAIN blocks |-> Cross(blocks[b][1], blocks[b][2])]

Fetches(n, missing) ==
    LET cover == coverMissing(missing) IN
    IF n \in CoverFrom..setting.tableLimit /\ Len(cover) \in 1..2
      THEN FlattenSeq([c \in DOMAIN cover |-> RowThenColumn(n, cover[c])])
      ELSE fetchEveryPair(n)

(* storePair of an answer: the legs the engine could connect.              *)
StorePairs(c, points, legs) ==
    LET Answered(leg) == leg[1] # leg[2] /\ KeyOf(points, leg) \in DOMAIN setting.road
        to[i \in 0..Len(legs)] ==
          IF i = 0 THEN c
          ELSE LET was == to[i - 1]
               IN IF Answered(legs[i]) THEN setPair(was, KeyOf(points, legs[i])) ELSE was
    IN to[Len(legs)]

(* The seconds from node to stop, with the estimated legs; node 0 is the   *)
(* first point.                                                            *)
Durations(points, estimated) ==
    LET n == Len(points) - 1 IN
    [i \in 0..n |-> [s \in 1..n |->
        LET leg == <<i + 1, s + 1>> IN
        IF i = s THEN 0
        ELSE IF leg \in estimated THEN setting.estimate[KeyOf(points, leg)]
        ELSE setting.road[KeyOf(points, leg)]]]

(* getRoadRoute asks in chunks that share their boundary points.           *)
Chunks(points) == (Len(points) - 1 + setting.tableLimit - 2) \div (setting.tableLimit - 1)
=============================================================================
