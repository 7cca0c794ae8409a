----------------------------- MODULE MCRoutePlan -----------------------------
(* Worlds for TLC: searches over small rounds with clusters, urgent stops  *)
(* and heavy ones, and overlapping requests that share a small cache.      *)
EXTENDS RoutePlan

CONSTANTS r1, r2

Stop(place, weight, factor) == [place |-> place, weight |-> weight, factor |-> factor, service |-> 1]

(* Places are numbers on a line; going down is slower than going up.       *)
Seconds(a, b) == IF a < b THEN b - a ELSE 2 * (a - b)
Roads(places) == [key \in places \X places |-> Seconds(key[1], key[2])]
Estimates == [key \in (0..40) \X (0..40) |-> Seconds(key[1], key[2]) + 1]

Request(start, stops) ==
    [fixes |-> <<start>>, office |-> 0, stops |-> stops, keep |-> <<>>]

Base == [asks |-> r1 :> Request(0, <<>>), road |-> Roads({}), estimate |-> Estimates,
         configured |-> TRUE, fails |-> FALSE, ticks |-> FALSE, far |-> {},
         cached |-> <<>>, maxPairs |-> 1000, tableLimit |-> 100,
         eps |-> 0, passes |-> 3, preserve |-> TRUE, iterations |-> 0, patience |-> 2]

(* Neighbourhoods and lone stops; with Round5 the route of 2-opt can still *)
(* be improved, and further if clusters may be broken.                     *)
Round4 == <<Stop(15, 8, 3), Stop(25, 2, 0), Stop(16, 0, 3), Stop(25, 2, 3)>>
Round5 == <<Stop(2, 4, 1), Stop(8, 8, 3), Stop(19, 4, 1), Stop(10, 8, 0), Stop(7, 8, 3)>>
RoundDear == <<Stop(10, 2, 0), Stop(30, 4, 3), Stop(12, 0, 0), Stop(33, 2, 1)>>
Search5 == [Base EXCEPT !.asks = r1 :> Request(5, Round5), !.configured = FALSE,
                        !.eps = 4, !.iterations = 2]
Searches ==
    {Search5, [Search5 EXCEPT !.preserve = FALSE, !.iterations = 1],
     [Search5 EXCEPT !.asks = r1 :> Request(20, Round4), !.passes = 1, !.eps = 0, !.iterations = 3],
     [Search5 EXCEPT !.asks = r1 :> Request(20, RoundDear), !.passes = 1, !.eps = 0, !.iterations = 2],
     [Search5 EXCEPT !.asks = r1 :> Request(20, <<Stop(10, 0, 3)>>)]}

(* Two rounds of one office that share their neighbourhood.  No road leads *)
(* down from 14 to 10.                                                     *)
Shared == <<Stop(10, 0, 0), Stop(12, 2, 0), Stop(14, 0, 0)>>
Other  == <<Stop(12, 0, 0), Stop(14, 0, 3), Stop(20, 0, 0)>>
Town   == {0, 5, 10, 12, 14, 20}
Cached(places) == LET Apart(key) == key[1] # key[2] IN SelectSeq(Cross(places, places), Apart)
Overlapping ==
    [Base EXCEPT !.asks = r1 :> Request(0, Shared) @@ r2 :> Request(0, Other), !.fails = TRUE,
                 !.road = [key \in (Town \X Town) \ {<<14, 10>>} |-> Seconds(key[1], key[2])]]
Caches ==
    {[Overlapping EXCEPT !.ticks = TRUE, !.cached = <<<<10, 12>>, <<12, 10>>, <<10, 14>>>>],
     [Overlapping EXCEPT !.ticks = TRUE, !.cached = Cached(<<0, 12, 14, 20>>)],
     [Overlapping EXCEPT !.maxPairs = 15],
     [Overlapping EXCEPT !.tableLimit = 4,
                         !.asks = r1 :> Request(0, Shared \o <<Stop(20, 0, 0)>>)],
     [Overlapping EXCEPT !.asks = r1 :> [Request(40, Shared) EXCEPT !.keep = <<3, 5, 1>>]
                                  @@ r2 :> Request(5, <<>>), !.far = {40}]}
PlanWorlds == Searches \cup Caches
=============================================================================
