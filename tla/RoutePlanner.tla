---------------------------- MODULE RoutePlanner ----------------------------
(***************************************************************************)
(* The current route of one postman (routePlanner.service.ts): when the    *)
(* stored route is served, when stops are only taken out of it, and when   *)
(* the full pipeline runs.  Requests queue up on a chain of promises, one  *)
(* chain per postman, kept in a Map that forgets the postman when the last *)
(* request of the chain is done.  The pipeline itself is a choice of any   *)
(* order of the stops that can be driven to.  Rows of routes that were not *)
(* COMPLETED are never read again and are left out.                        *)
(***************************************************************************)
EXTENDS Naturals, Sequences, FiniteSets

CONSTANTS
    Deliveries,
    Requests,       \* slots: requests for this postman's route in flight
    Unlocated,      \* deliveries whose address has no usable point yet
    Faults,         \* what may go wrong: a subset of FaultKinds
    MaxMoves        \* bound: changes of the deliveries

NoOne == "NoOne"            \* nobody holds the lock, or is waited for
Nothing == <<>>             \* no route, or no order to keep
FaultKinds == {"database", "crash"}

(* GET /me/route, the same with refresh, and recalculateRoute; a           *)
(* recalculation after DELIVERY_COMPLETED is a GET.                        *)
Kinds == {"get", "refresh", "recalculate"}

ASSUME RoutePlannerAssumption ==
    /\ NoOne \notin Requests
    /\ IsFiniteSet(Deliveries) /\ Unlocated \subseteq Deliveries
    /\ Faults \subseteq FaultKinds /\ MaxMoves \in Nat

VARIABLES
    mine,       \* deliveries assigned to the postman
    routable,   \* deliveries whose status is one of ROUTABLE_STATUSES
    located,    \* deliveries whose address has a usable point
    moves,      \* how many changes the deliveries went through
    stored,     \* the newest COMPLETED route
    lock,       \* locks.get(postmanId): the last request of the chain
    req         \* [Requests -> the request in that slot]

world == <<mine, routable, located, moves>>
vars  == <<world, stored, lock, req>>

(* The sequences that list every element of S once.                        *)
Orders(S) ==
    {o \in [1..Cardinality(S) -> S] : \A i, j \in DOMAIN o : o[i] = o[j] => i = j}
Stops(order) == {order[i] : i \in DOMAIN order}
Before(order, d, e) == \E i, j \in DOMAIN order : i < j /\ order[i] = d /\ order[j] = e

Route == [order : UNION {Orders(S) : S \in SUBSET Deliveries},
          left : SUBSET Deliveries,         \* solution.unroutable
          current : BOOLEAN]                \* isCurrentPipeline
Covered(route) == Stops(route.order) \cup route.left

Idle == [pc |-> "idle"]
IsRequest(q) ==
    \/ q = Idle
    \/ /\ DOMAIN q = {"pc", "kind", "after", "ids", "latest", "route", "stale"}
       /\ q.pc \in {"ids", "latest", "solve", "prune", "store", "answer"}
       /\ q.kind \in Kinds
       /\ q.after \in Requests \cup {NoOne}
       /\ q.ids \subseteq Deliveries
       /\ q.latest \in Route \cup {Nothing} /\ q.route \in Route \cup {Nothing}
       /\ q.stale \in BOOLEAN

TypeOK ==
    /\ mine \subseteq Deliveries /\ routable \subseteq Deliveries
    /\ located \subseteq Deliveries /\ moves \in 0..MaxMoves
    /\ stored \in Route \cup {Nothing}
    /\ lock \in Requests \cup {NoOne}
    /\ DOMAIN req = Requests /\ \A r \in Requests : IsRequest(req[r])

(* Nothing is planned yet, or only by one of the earlier strategies.       *)
Init ==
    /\ mine \in SUBSET Deliveries /\ routable = Deliveries
    /\ located = Deliveries \ Unlocated /\ moves = 0
    /\ stored \in {Nothing} \cup
         {[order |-> o, left |-> {}, current |-> FALSE] : o \in Orders(mine)}
    /\ lock = NoOne
    /\ req = [r \in Requests |-> Idle]

-----------------------------------------------------------------------------
(* withPostmanLock *)

Busy == {r \in Requests : req[r] # Idle}
At(r, step) == req[r] # Idle /\ req[r].pc = step /\ req[r].after = NoOne

(* Arriving and joining the chain is one synchronous step.                 *)
Arrive(r, kind) ==
    /\ req[r] = Idle
    /\ req' = [req EXCEPT ![r] =
         [pc |-> "ids", kind |-> kind, after |-> lock, ids |-> {},
          latest |-> Nothing, route |-> Nothing, stale |-> FALSE]]
    /\ lock' = r
    /\ UNCHANGED <<world, stored>>

SlipAlwaysDelete(r) == NoOne
LockAfter(r) == IF lock = r THEN NoOne ELSE lock

SlipFailureBlocks(q, r) ==
    IF q # Idle /\ q.after = r /\ ~req[r].stale THEN [q EXCEPT !.after = NoOne] ELSE q
Woken(q, r) ==
    IF q # Idle /\ q.after = r THEN [q EXCEPT !.after = NoOne] ELSE q

(* fn has settled: the response is sent, the next in the chain runs,       *)
(* whether fn succeeded or not.                                            *)
Release(r) ==
    /\ At(r, "answer")
    /\ req' = [q \in Requests |-> IF q = r THEN Idle ELSE Woken(req[q], r)]
    /\ lock' = LockAfter(r)
    /\ UNCHANGED <<world, stored>>

-----------------------------------------------------------------------------
(* getOrPlanRoute and recalculateRoute *)

Answer(r, route, stale) ==
    req' = [req EXCEPT ![r].pc = "answer", ![r].route = route, ![r].stale = stale]

(* activeDeliveryIds; nothing left to deliver is answered at once.         *)
ReadIds(r) ==
    /\ At(r, "ids")
    /\ req' = [req EXCEPT
         ![r].ids = mine \cap routable,
         ![r].pc  = IF mine \cap routable = {} THEN "answer"
                    ELSE IF req[r].kind = "recalculate" THEN "solve" ELSE "latest"]
    /\ UNCHANGED <<world, stored, lock>>

SlipOnlyStopsCompared(route, ids) ==
    route # Nothing /\ route.current /\ Stops(route.order) \subseteq ids
Unchanged(route, ids) == route # Nothing /\ route.current /\ Covered(route) = ids

OnlyRemovals(route, ids) ==
    route # Nothing /\ route.current /\ ids \subseteq Covered(route)

LoadLatest(r) ==
    /\ At(r, "latest")
    /\ IF req[r].kind = "get" /\ Unchanged(stored, req[r].ids)
         THEN req' = [req EXCEPT ![r].pc = "answer", ![r].latest = stored,
                                 ![r].route = stored]
         ELSE req' = [req EXCEPT
                ![r].latest = stored,
                ![r].pc = IF req[r].kind = "get" /\ OnlyRemovals(stored, req[r].ids)
                            THEN "prune" ELSE "solve"]
    /\ UNCHANGED <<world, stored, lock>>

(* The optimizer reads the rows again: a stop that is no longer routable   *)
(* or has no usable point is left out and reported.                        *)
Drivable(ids) == ids \cap routable \cap located
Planned(r, order) ==
    req' = [req EXCEPT ![r].pc = "store",
              ![r].route = [order |-> order, current |-> TRUE,
                            left |-> req[r].ids \ Drivable(req[r].ids)]]

PlanRoute(r) ==
    /\ At(r, "solve")
    /\ \E order \in Orders(Drivable(req[r].ids)) : Planned(r, order)
    /\ UNCHANGED <<world, stored, lock>>

(* order.filter: the stops that are in S, in the order they had.           *)
SlipOrderForgotten(order, S) == {Nothing}
Kept(order, S) ==
    {kept \in Orders(Stops(order) \cap S) :
        \A i, j \in DOMAIN kept : i < j => Before(order, kept[i], kept[j])}

InOrder(kept, added) == kept \o added

(* The fixed order: stops of the stored route that remain, then stops that *)
(* were left out of it and can be driven to now.                           *)
Prune(r) ==
    /\ At(r, "prune")
    /\ LET drivable == Drivable(req[r].ids)
       IN \E kept \in Kept(req[r].latest.order, drivable) :
            \E added \in Orders(drivable \ Stops(kept)) :
                Planned(r, InOrder(kept, added))
    /\ UNCHANGED <<world, stored, lock>>

StoreRoute(r) ==
    /\ At(r, "store")
    /\ stored' = req[r].route
    /\ Answer(r, req[r].route, FALSE)
    /\ UNCHANGED <<world, lock>>

(* A read fails, or the request row becomes FAILED.  Once the stored route *)
(* was read getOrPlanRoute falls back to it, if there is one; otherwise    *)
(* the error is the answer.  The last thing that may fail is counting the  *)
(* versions, after COMPLETED; if FAILED cannot be written either the new   *)
(* route stays.                                                            *)
RequestFails(r) ==
    /\ "database" \in Faults
    /\ \E step \in {"ids", "latest", "solve", "prune", "store"} : At(r, step)
    /\ Answer(r, req[r].latest, TRUE)
    /\ \/ UNCHANGED stored
       \/ At(r, "store") /\ stored' = req[r].route
    /\ UNCHANGED <<world, lock>>

-----------------------------------------------------------------------------
(* The deliveries change, and the server stops. *)

Move == moves < MaxMoves /\ moves' = moves + 1 /\ UNCHANGED <<stored, lock, req>>

(* A delivery is finished or fails, or comes back as RESCHEDULED.          *)
ChangeStatus(d) ==
    /\ Move
    /\ routable' = IF d \in routable THEN routable \ {d} ELSE routable \cup {d}
    /\ UNCHANGED <<mine, located>>

ChangePostman(d) ==
    /\ Move
    /\ mine' = IF d \in mine THEN mine \ {d} ELSE mine \cup {d}
    /\ UNCHANGED <<routable, located>>

CorrectAddress(d) ==
    /\ Move /\ d \notin located
    /\ located' = located \cup {d}
    /\ UNCHANGED <<mine, routable>>

Crash ==
    /\ "crash" \in Faults /\ Busy # {}
    /\ lock' = NoOne
    /\ req' = [r \in Requests |-> Idle]
    /\ UNCHANGED <<world, stored>>

Step(r) ==
    \/ ReadIds(r) \/ LoadLatest(r) \/ PlanRoute(r) \/ Prune(r)
    \/ StoreRoute(r) \/ RequestFails(r) \/ Release(r)

Next ==
    \/ \E r \in Requests : Step(r) \/ \E kind \in Kinds : Arrive(r, kind)
    \/ \E d \in Deliveries : ChangeStatus(d) \/ ChangePostman(d) \/ CorrectAddress(d)
    \/ Crash

Spec == Init /\ [][Next]_vars

(* Node runs on what it has started.                                       *)
FairSpec == Spec /\ \A r \in Requests : WF_vars(Step(r))

-----------------------------------------------------------------------------
(* Properties *)

(* "Serialises route work per postman so a burst of GETs and a             *)
(* status-event recompute never race": one request works, the others wait. *)
OneAtATime ==
    \A q, r \in Busy : req[q].after = NoOne /\ req[r].after = NoOne => q = r

(* "and the second caller simply reuses the first result": a GET computes  *)
(* only while the newest route is not exactly what it would serve.         *)
NoNeedlessPlanning ==
    \A r \in Busy :
        req[r].kind = "get" /\ req[r].pc \in {"solve", "prune", "store"} =>
            ~Unchanged(stored, req[r].ids)

(* A route that is served as fresh accounts for every delivery the postman *)
(* had when it was asked for, and for no other: each is a stop, once, or   *)
(* is reported as left out.                                                *)
AnswerIsComplete ==
    \A r \in Busy :
        LET route == req[r].route IN
        req[r].pc = "answer" /\ route # Nothing /\ ~req[r].stale =>
            /\ route.current
            /\ Covered(route) = req[r].ids
            /\ Stops(route.order) \cap route.left = {}
            /\ Cardinality(Stops(route.order)) = Len(route.order)

(* "The remaining stops never reshuffle just because one was completed":   *)
(* a GET that adds no delivery stores the stops of the newest route in     *)
(* their order, whatever stops it lost or gained.                          *)
RemainingStopsStay ==
    [][\A r \in Busy :
         /\ req[r].kind = "get" /\ stored' # stored /\ req'[r] # req[r]
         /\ OnlyRemovals(stored, req[r].ids)
         => \A d, e \in Stops(stored.order) \cap Stops(stored'.order) :
              Before(stored.order, d, e) => Before(stored'.order, d, e)]_vars

(* Every request for the route is answered, whichever of those before it   *)
(* in the chain failed.                                                    *)
EveryRequestAnswered == \A r \in Requests : (r \in Busy) ~> (r \notin Busy)
=============================================================================
