------------------------ MODULE RoutePlanner_proofs ------------------------
(***************************************************************************)
(* The chain of promises lets one request of a postman work at a time, for *)
(* any number of requests, deliveries and changes, and no request plans a  *)
(* route that the one before it has just stored (Chain). What is answered  *)
(* has every stop once, and what remains of a route keeps its order        *)
(* (Planning).  The directions of a postman on the way fit the mode, the   *)
(* progress and the steps shown with them, and progress does not jump to   *)
(* another stretch of the route (NavInv).                                  *)
(* Before that, the places of its stops stay sound and looking them up     *)
(* again does no harm (GInv): what may be in a cache (Served), how long    *)
(* ago a request went out that a call waits behind (Paced), that a lone    *)
(* call is the only one between its steps (Alone), and what a learned      *)
(* place is taken from (Taught).                                           *)
(***************************************************************************)
EXTENDS RoutePlanner, Navigation, Geocoding, TLAPS, FiniteSetTheorems, FunctionTheorems, WellFoundedInduction

(* What the proofs need to know of a request's state: which step it is at, *)
(* what it was asked for and whom it waits for.  Only a request that waits *)
(* for nobody has taken a step.                                            *)
Fields == {"pc", "kind", "after", "ids", "latest", "route", "stale"}
Steps  == {"ids", "latest", "solve", "prune", "store", "answer"}
RequestOK(q) ==
    \/ q = Idle
    \/ /\ DOMAIN q = Fields
       /\ q.pc \in Steps /\ q.kind \in Kinds
       /\ q.after \in Requests \cup {NoOne}
       /\ q.pc # "ids" => q.after = NoOne

(* The chain: nobody waits for what two requests wait for, or for a        *)
(* request that has gone, or for the end of the chain.  With lock = NoOne  *)
(* the last conjunct says that nobody works.                               *)
Chain ==
    /\ DOMAIN req = Requests
    /\ \A r \in Requests : RequestOK(req[r])
    /\ lock \in Busy \cup {NoOne}
    /\ \A r \in Busy : req[r].after \in Busy \cup {NoOne}
    /\ \A q, r \in Busy : req[q].after = req[r].after => q = r
    /\ \A r \in Busy : req[r].after # lock

(* A request that goes on with the same place in the chain.                *)
GoesOn(r) ==
    /\ req' = [req EXCEPT ![r] = req'[r]]
    /\ DOMAIN req'[r] = Fields
    /\ req'[r].pc \in Steps /\ req'[r].pc # "ids"
    /\ req'[r].kind = req[r].kind /\ req'[r].after = req[r].after
    /\ UNCHANGED lock

LEMMA NoOneIsNoRequest == NoOne \notin Requests
BY RoutePlannerAssumption

LEMMA GoesOnKeepsChain ==
    ASSUME Chain, NEW r \in Busy, req[r].after = NoOne, GoesOn(r)
    PROVE  Chain' /\ Busy' = Busy
<1>1. \A q \in Requests \ {r} : req'[q] = req[q]
  BY DEF GoesOn, Chain
<1>2. DOMAIN req' = Requests
  BY DEF GoesOn, Chain
<1>3. req'[r] # Idle
  <2>1. req'[r].pc # Idle.pc
    BY DEF GoesOn, Steps, Idle
  <2>. QED
    BY <2>1
<1>4. Busy' = Busy
  BY <1>1, <1>3 DEF Busy
<1>5. RequestOK(req[r]) /\ req[r] # Idle /\ r \in Requests
  BY DEF Chain, Busy
<1>6. RequestOK(req'[r])
  BY <1>5 DEF RequestOK, GoesOn
<1>7. \A q \in Requests : RequestOK(req'[q])
  BY <1>1, <1>6 DEF Chain
<1>8. \A q \in Busy : req'[q].after = req[q].after
  BY <1>1 DEF GoesOn, Busy
<1>9. Chain'
  <2>1. (\A q \in Requests : RequestOK(req[q]))'
    BY <1>7 DEF RequestOK
  <2>2. lock' = lock
    BY DEF GoesOn
  <2>. QED
    BY <1>2, <1>4, <1>8, <2>1, <2>2 DEF Chain
<1>. QED
  BY <1>4, <1>9

(* What the steps of a working request do to its record.                   *)
LEMMA AtFacts ==
    ASSUME Chain, NEW r \in Requests, NEW step, At(r, step)
    PROVE  /\ r \in Busy /\ req[r].after = NoOne /\ req[r].pc = step
           /\ DOMAIN req[r] = Fields /\ r \in DOMAIN req
BY DEF At, Busy, Chain, RequestOK

LEMMA AnswerGoesOn ==
    ASSUME Chain, NEW r \in Requests, NEW step, At(r, step),
           NEW route, NEW stale, Answer(r, route, stale), UNCHANGED lock
    PROVE  GoesOn(r) /\ req'[r].pc = "answer"
<1>1. req'[r] = [req[r] EXCEPT !.pc = "answer", !.route = route, !.stale = stale]
  BY AtFacts DEF Answer
<1>2. req' = [req EXCEPT ![r] = req'[r]]
  BY AtFacts, <1>1 DEF Answer
<1>. QED
  BY AtFacts, <1>1, <1>2 DEF GoesOn, Fields, Steps

LEMMA PlannedGoesOn ==
    ASSUME Chain, NEW r \in Requests, NEW step, At(r, step),
           NEW order, Planned(r, order), UNCHANGED lock
    PROVE  GoesOn(r) /\ req'[r].pc = "store"
<1> DEFINE new == [order |-> order, current |-> TRUE,
                   left |-> req[r].ids \ Drivable(req[r].ids)]
<1>1. req'[r] = [req[r] EXCEPT !.pc = "store", !.route = new]
  BY AtFacts DEF Planned
<1>2. req' = [req EXCEPT ![r] = req'[r]]
  BY AtFacts, <1>1 DEF Planned
<1>. HIDE DEF new
<1>. QED
  BY AtFacts, <1>1, <1>2 DEF GoesOn, Fields, Steps

LEMMA ReadGoesOn ==
    ASSUME Chain, NEW r \in Requests, ReadIds(r)
    PROVE  GoesOn(r)
<1> DEFINE mineNow == mine \cap routable
           next == IF mineNow = {} THEN "answer"
                   ELSE IF req[r].kind = "recalculate" THEN "solve" ELSE "latest"
<1>1. At(r, "ids")
  BY DEF ReadIds
<1>2. req' = [req EXCEPT ![r] = [req[r] EXCEPT !.ids = mineNow, !.pc = next]]
  BY DEF ReadIds
<1>3. next \in Steps /\ next # "ids"
  BY DEF Steps
<1>. HIDE DEF mineNow, next
<1>. QED
  BY <1>1, <1>2, <1>3, AtFacts DEF GoesOn, Fields, ReadIds

LEMMA LoadGoesOn ==
    ASSUME Chain, NEW r \in Requests, LoadLatest(r)
    PROVE  GoesOn(r)
<1>1. At(r, "latest") /\ UNCHANGED lock
  BY DEF LoadLatest
<1>2. CASE req[r].kind = "get" /\ Unchanged(stored, req[r].ids)
  <2>1. req' = [req EXCEPT ![r] = [req[r] EXCEPT !.pc = "answer", !.latest = stored,
                                                 !.route = stored]]
    BY <1>2 DEF LoadLatest
  <2>. QED
    BY <1>1, <2>1, AtFacts DEF GoesOn, Fields, Steps
<1>3. CASE ~(req[r].kind = "get" /\ Unchanged(stored, req[r].ids))
  <2> DEFINE next == IF req[r].kind = "get" /\ OnlyRemovals(stored, req[r].ids)
                       THEN "prune" ELSE "solve"
  <2>1. req' = [req EXCEPT ![r] = [req[r] EXCEPT !.latest = stored, !.pc = next]]
    BY <1>3 DEF LoadLatest
  <2>2. next \in Steps /\ next # "ids"
    BY DEF Steps
  <2>. HIDE DEF next
  <2>. QED
    BY <1>1, <2>1, <2>2, AtFacts DEF GoesOn, Fields
<1>. QED
  BY <1>2, <1>3

(* One working request takes a step.                                       *)
Works(r) ==
    \/ ReadIds(r) \/ LoadLatest(r) \/ PlanRoute(r) \/ Prune(r)
    \/ StoreRoute(r) \/ RequestFails(r)

LEMMA WorksGoesOn ==
    ASSUME Chain, NEW r \in Requests, Works(r)
    PROVE  r \in Busy /\ req[r].after = NoOne /\ GoesOn(r)
<1>1. CASE ReadIds(r)
  BY <1>1, ReadGoesOn, AtFacts DEF ReadIds
<1>2. CASE LoadLatest(r)
  BY <1>2, LoadGoesOn, AtFacts DEF LoadLatest
<1>3. CASE PlanRoute(r)
  BY <1>3, PlannedGoesOn, AtFacts DEF PlanRoute
<1>4. CASE Prune(r)
  BY <1>4, PlannedGoesOn, AtFacts DEF Prune
<1>5. CASE StoreRoute(r)
  BY <1>5, AnswerGoesOn, AtFacts DEF StoreRoute
<1>6. CASE RequestFails(r)
  BY <1>6, AnswerGoesOn, AtFacts DEF RequestFails
<1>. QED
  BY <1>1, <1>2, <1>3, <1>4, <1>5, <1>6 DEF Works

LEMMA ArriveKeepsChain ==
    ASSUME Chain, NEW r \in Requests, NEW kind \in Kinds, Arrive(r, kind)
    PROVE  Chain'
<1> DEFINE new == [pc |-> "ids", kind |-> kind, after |-> lock, ids |-> {},
                   latest |-> Nothing, route |-> Nothing, stale |-> FALSE]
<1>1. /\ req' = [req EXCEPT ![r] = new] /\ lock' = r /\ r \notin Busy
      /\ DOMAIN req = Requests /\ lock \in Requests \cup {NoOne}
  BY DEF Arrive, Chain, Busy
<1>2. DOMAIN new = Fields /\ new.pc = "ids" /\ new.kind = kind /\ new.after = lock
  BY DEF Fields
<1>3. new # Idle
  <2>1. new.pc # Idle.pc
    BY DEF Idle
  <2>. QED
    BY <2>1
<1>. HIDE DEF new
<1>4. RequestOK(new)
  BY <1>1, <1>2 DEF RequestOK, Steps
<1>5. /\ DOMAIN req' = Requests /\ req'[r] = new
      /\ \A q \in Requests \ {r} : req'[q] = req[q]
  BY <1>1
<1>6. Busy' = Busy \cup {r}
  BY <1>3, <1>5 DEF Busy
<1>7. (\A q \in Requests : RequestOK(req[q]))'
  <2>1. \A q \in Requests : RequestOK(req'[q])
    BY <1>4, <1>5 DEF Chain
  <2>. QED
    BY <2>1 DEF RequestOK
<1>8. \A q \in Busy : req'[q].after = req[q].after
  BY <1>1, <1>5 DEF Busy
<1>9. req'[r].after = lock
  BY <1>2, <1>5
<1>. QED
  BY <1>1, <1>5, <1>6, <1>7, <1>8, <1>9, NoOneIsNoRequest DEF Chain

LEMMA ReleaseKeepsChain ==
    ASSUME Chain, NEW r \in Requests, Release(r)
    PROVE  Chain'
<1>1. r \in Busy /\ req[r].after = NoOne
  BY AtFacts DEF Release
<1>2. /\ DOMAIN req' = Requests /\ req'[r] = Idle
      /\ \A q \in Requests \ {r} : req'[q] = Woken(req[q], r)
  BY DEF Release
<1>3. \A q \in Requests \ {r} :
        /\ q \notin Busy => req'[q] = Idle
        /\ q \in Busy /\ req[q].after # r => req'[q] = req[q]
        /\ q \in Busy /\ req[q].after = r =>
             req'[q] = [req[q] EXCEPT !.after = NoOne]
  BY <1>2 DEF Woken, Busy
<1>4. \A q \in Busy : RequestOK(req[q]) /\ req[q] # Idle /\ q \in Requests
  BY DEF Busy, Chain
<1>5. ASSUME NEW q \in Busy \ {r}
      PROVE  /\ RequestOK(req'[q]) /\ req'[q] # Idle
             /\ req'[q].after = IF req[q].after = r THEN NoOne ELSE req[q].after
  <2>1. CASE req[q].after # r
    BY <1>3, <1>4, <2>1
  <2>2. CASE req[q].after = r
    <3>1. req'[q] = [req[q] EXCEPT !.after = NoOne]
      BY <1>3, <1>4, <2>2
    <3>2. RequestOK(req'[q]) /\ req'[q].pc \in Steps /\ req'[q].after = NoOne
      BY <1>4, <3>1 DEF RequestOK, Fields
    <3>3. req'[q].pc # Idle.pc
      BY <3>2 DEF Steps, Idle
    <3>. QED
      BY <2>2, <3>2, <3>3
  <2>. QED
    BY <2>1, <2>2
<1>6. Busy' = Busy \ {r}
  BY <1>2, <1>3, <1>4, <1>5 DEF Busy
<1>7. (\A q \in Requests : RequestOK(req[q]))'
  <2>1. \A q \in Requests : RequestOK(req'[q])
    BY <1>2, <1>3, <1>5 DEF RequestOK
  <2>. QED
    BY <2>1 DEF RequestOK
<1>8. lock' = IF lock = r THEN NoOne ELSE lock
  BY DEF Release, LockAfter
<1>. QED
  BY <1>1, <1>2, <1>4, <1>5, <1>6, <1>7, <1>8, NoOneIsNoRequest DEF Chain

LEMMA ChainInit == Init => Chain
BY DEF Init, Chain, Busy, RequestOK

LEMMA ChainNext == Chain /\ [Next]_vars => Chain'
<1> SUFFICES ASSUME Chain, [Next]_vars PROVE Chain'
  OBVIOUS
<1>1. ASSUME NEW r \in Requests, Works(r) PROVE Chain'
  BY <1>1, WorksGoesOn, GoesOnKeepsChain
<1>2. ASSUME NEW r \in Requests, Release(r) PROVE Chain'
  BY <1>2, ReleaseKeepsChain
<1>3. ASSUME NEW r \in Requests, NEW kind \in Kinds, Arrive(r, kind) PROVE Chain'
  BY <1>3, ArriveKeepsChain
<1>4. CASE Crash
  BY <1>4 DEF Crash, Chain, Busy, RequestOK
<1>5. CASE UNCHANGED <<lock, req>>
  BY <1>5 DEF Chain, Busy, RequestOK
<1>6. ASSUME NEW d \in Deliveries,
             ChangeStatus(d) \/ ChangePostman(d) \/ CorrectAddress(d)
      PROVE  Chain'
  BY <1>5, <1>6 DEF ChangeStatus, ChangePostman, CorrectAddress, Move
<1>7. CASE UNCHANGED vars
  BY <1>5, <1>7 DEF vars
<1>. QED
  BY <1>1, <1>2, <1>3, <1>4, <1>6, <1>7 DEF Next, Step, Works

(* "Serialises route work per postman so a burst of GETs and a             *)
(* status-event recompute never race": OneAtATime holds for any number of  *)
(* requests, with failures and stops of the server anywhere.               *)
THEOREM LockSerialises == Spec => []OneAtATime
<1>1. Chain => OneAtATime
  BY DEF Chain, OneAtATime
<1>. QED
  BY ChainInit, ChainNext, <1>1, PTL DEF Spec

-----------------------------------------------------------------------------
(* A GET computes only what is not stored.  What it read of the stored     *)
(* route stays true while it computes, because nobody else works.          *)

Computing == {"solve", "prune", "store"}

LEMMA OthersWait ==
    ASSUME Chain, NEW q \in Busy, NEW r \in Busy, req[q].after = NoOne, r # q
    PROVE  req[r].pc = "ids" /\ req[r].after # NoOne
BY DEF Chain, RequestOK, Busy

(* A request comes to compute, or goes on computing, only with a stored    *)
(* route that is not what it would serve.                                  *)
LEMMA ComputesWhatIsNotStored ==
    ASSUME Chain, NoNeedlessPlanning, NEW r \in Requests, Works(r),
           req'[r].kind = "get", req'[r].pc \in Computing
    PROVE  ~Unchanged(stored', req'[r].ids)
<1>1. r \in Busy /\ req[r].kind = "get"
  BY WorksGoesOn DEF GoesOn
<1>2. CASE ReadIds(r)
  <2>1. req'[r].pc \in {"answer", "latest"}
    BY <1>1, <1>2, AtFacts DEF ReadIds, Fields
  <2>. QED
    BY <2>1 DEF Computing
<1>3. CASE LoadLatest(r)
  <2>1. At(r, "latest") /\ UNCHANGED stored
    BY <1>3 DEF LoadLatest
  <2>2. CASE Unchanged(stored, req[r].ids)
    <3>1. req' = [req EXCEPT ![r] = [req[r] EXCEPT !.pc = "answer",
                                        !.latest = stored, !.route = stored]]
      BY <1>1, <1>3, <2>2 DEF LoadLatest
    <3>2. req'[r].pc = "answer"
      BY <2>1, <3>1, AtFacts DEF Fields
    <3>. QED
      BY <3>2 DEF Computing
  <2>3. CASE ~Unchanged(stored, req[r].ids)
    <3> DEFINE next == IF req[r].kind = "get" /\ OnlyRemovals(stored, req[r].ids)
                         THEN "prune" ELSE "solve"
    <3>1. req' = [req EXCEPT ![r] = [req[r] EXCEPT !.latest = stored, !.pc = next]]
      BY <1>3, <2>3 DEF LoadLatest
    <3>. HIDE DEF next
    <3>2. req'[r].ids = req[r].ids
      BY <2>1, <3>1, AtFacts DEF Fields
    <3>. QED
      BY <2>1, <2>3, <3>2
  <2>. QED
    BY <2>2, <2>3
<1>4. CASE PlanRoute(r) \/ Prune(r)
  <2>1. PICK order : Planned(r, order)
    BY <1>4 DEF PlanRoute, Prune
  <2>2. (At(r, "solve") \/ At(r, "prune")) /\ UNCHANGED <<stored, lock>>
    BY <1>4 DEF PlanRoute, Prune
  <2> DEFINE new == [order |-> order, current |-> TRUE,
                     left |-> req[r].ids \ Drivable(req[r].ids)]
  <2>3. req' = [req EXCEPT ![r] = [req[r] EXCEPT !.pc = "store", !.route = new]]
    BY <2>1 DEF Planned
  <2>. HIDE DEF new
  <2>4. req'[r].ids = req[r].ids
    BY <2>2, <2>3, AtFacts DEF Fields
  <2>5. req[r].pc \in Computing
    BY <2>2 DEF At, Computing
  <2>. QED
    BY <1>1, <2>2, <2>4, <2>5 DEF NoNeedlessPlanning, Computing
<1>5. CASE StoreRoute(r) \/ RequestFails(r)
  <2>1. req'[r].pc = "answer"
    BY <1>5, AnswerGoesOn DEF StoreRoute, RequestFails
  <2>. QED
    BY <2>1 DEF Computing
<1>. QED
  BY <1>2, <1>3, <1>4, <1>5 DEF Works

LEMMA NoNeedlessNext ==
    ASSUME Chain, NoNeedlessPlanning, [Next]_vars
    PROVE  NoNeedlessPlanning'
<1> SUFFICES ASSUME NEW r \in Requests, req'[r] # Idle,
                    req'[r].kind = "get", req'[r].pc \in Computing
             PROVE  ~Unchanged(stored', req'[r].ids)
  BY DEF NoNeedlessPlanning, Busy, Computing
<1>1. CASE Works(r)
  BY <1>1, ComputesWhatIsNotStored
<1>2. CASE \E q \in Requests : q # r /\ (Works(q) \/ Release(q))
  <2>1. PICK q \in Requests : q # r /\ (Works(q) \/ Release(q))
    BY <1>2
  <2>2. q \in Busy /\ req[q].after = NoOne
    BY <2>1, WorksGoesOn, AtFacts DEF Release
  <2>3. req'[r] \in {req[r], [req[r] EXCEPT !.after = NoOne]} /\ r \in Busy
    <3>1. CASE Works(q)
      BY <2>1, <3>1, WorksGoesOn DEF GoesOn, Chain, Busy
    <3>2. CASE Release(q)
      <4>1. req'[r] = Woken(req[r], q)
        BY <2>1, <3>2 DEF Release
      <4>. QED
        BY <4>1 DEF Woken, Busy
    <3>. QED
      BY <2>1, <3>1, <3>2
  <2>4. req[r].pc = "ids" /\ DOMAIN req[r] = Fields
    BY <2>1, <2>2, <2>3, OthersWait DEF Chain, Busy, RequestOK
  <2>5. req'[r].pc = "ids"
    BY <2>3, <2>4 DEF Fields
  <2>. QED
    BY <2>5 DEF Computing
<1>3. CASE Release(r)
  BY <1>3 DEF Release
<1>4. CASE \E q \in Requests, kind \in Kinds : Arrive(q, kind)
  <2>1. UNCHANGED stored /\ (req'[r] = req[r] \/ req'[r].pc = "ids")
    BY <1>4 DEF Arrive, Chain
  <2>. QED
    BY <2>1 DEF NoNeedlessPlanning, Busy, Computing
<1>5. CASE Crash
  BY <1>5 DEF Crash
<1>6. CASE UNCHANGED <<stored, req>>
  BY <1>6 DEF NoNeedlessPlanning, Busy, Computing
<1>7. CASE \E d \in Deliveries :
             ChangeStatus(d) \/ ChangePostman(d) \/ CorrectAddress(d)
  BY <1>6, <1>7 DEF ChangeStatus, ChangePostman, CorrectAddress, Move
<1>8. CASE UNCHANGED vars
  BY <1>6, <1>8 DEF vars
<1>. QED
  BY <1>1, <1>2, <1>3, <1>4, <1>5, <1>7, <1>8 DEF Next, Step, Works

(* "And the second caller simply reuses the first result":                 *)
(* NoNeedlessPlanning holds for any number of requests and deliveries.     *)
THEOREM StoredRouteIsReused == Spec => []NoNeedlessPlanning
<1>1. Init => NoNeedlessPlanning
  BY DEF Init, NoNeedlessPlanning, Busy
<1>. QED
  BY ChainInit, ChainNext, NoNeedlessNext, <1>1, PTL DEF Spec
-----------------------------------------------------------------------------
(* Orders of stops.  An order of S lists every element of S once.          *)

Injective(o) == \A i, j \in DOMAIN o : o[i] = o[j] => i = j

LEMMA FunctionIsSequence ==
    ASSUME NEW S, NEW n \in Nat, NEW f \in [1 .. n -> S]
    PROVE  f \in Seq(S) /\ Len(f) = n
<1>1. f \in Seq(S)
  OBVIOUS
<1>2. DOMAIN f = 1 .. n
  OBVIOUS
<1>. QED
  BY <1>1, <1>2

LEMMA SequenceIsFunction ==
    ASSUME NEW S, NEW s \in Seq(S)
    PROVE  s = [i \in DOMAIN s |-> s[i]]
<1>1. s \in [1 .. Len(s) -> S]
  OBVIOUS
<1>. QED
  BY <1>1

LEMMA OrderListsAll ==
    ASSUME NEW S, IsFiniteSet(S), NEW o \in Orders(S)
    PROVE  /\ o \in [1 .. Cardinality(S) -> S] /\ Injective(o)
           /\ Stops(o) = S /\ Len(o) = Cardinality(S) /\ Cardinality(S) \in Nat
<1>. DEFINE n == Cardinality(S)
<1>1. n \in Nat
  BY FS_CardinalityType
<1>2. o \in [1 .. n -> S] /\ Injective(o)
  BY DEF Orders, Injective
<1>3. o \in Injection(1 .. n, S)
  BY <1>2 DEF Injective, Injection, IsInjective
<1>4. Cardinality(1 .. n) = n
  <2>. HIDE DEF n
  <2>1. IF 1 > n THEN n = 0 ELSE n - 1 + 1 = n
    BY <1>1
  <2>2. Cardinality(1 .. n) = IF 1 > n THEN 0 ELSE n - 1 + 1
    BY <1>1, FS_Interval
  <2>. QED
    BY <2>1, <2>2
<1>5. o \in Surjection(1 .. n, S)
  BY <1>3, <1>4, FS_Injection
<1>6. Stops(o) = S
  BY <1>2, <1>5 DEF Surjection, Stops
<1>7. Len(o) = n
  BY <1>1, <1>2, FunctionIsSequence
<1>. QED
  BY <1>1, <1>2, <1>6, <1>7

(* The stops that stay, then those that were left out: every stop once.    *)
LEMMA InOrderListsAll ==
    ASSUME NEW D, IsFiniteSet(D), NEW A \in SUBSET D,
           NEW kept \in Orders(A), NEW added \in Orders(D \ A)
    PROVE  /\ InOrder(kept, added) \in Orders(D)
           /\ DOMAIN kept \subseteq DOMAIN InOrder(kept, added)
           /\ \A i \in DOMAIN kept : InOrder(kept, added)[i] = kept[i]
<1>. DEFINE k == Cardinality(A)
            m == Cardinality(D \ A)
            o == InOrder(kept, added)
<1>1. IsFiniteSet(A) /\ IsFiniteSet(D \ A)
  BY FS_Subset, FS_Difference
<1>2. /\ k \in Nat /\ m \in Nat
      /\ kept \in [1 .. k -> A] /\ Injective(kept)
      /\ added \in [1 .. m -> D \ A] /\ Injective(added)
  BY <1>1, OrderListsAll
<1>3. Cardinality(D) = k + m
  <2>1. Cardinality(D \ A) = Cardinality(D) - Cardinality(D \cap A)
    BY FS_Difference
  <2>2. D \cap A = A
    OBVIOUS
  <2>3. Cardinality(D) \in Nat
    BY FS_CardinalityType
  <2>4. m = Cardinality(D) - k
    BY <2>1, <2>2
  <2>. HIDE DEF k, m
  <2>. QED
    BY <1>2, <2>3, <2>4
<1>. HIDE DEF k, m
<1>4. /\ kept \in Seq(A) /\ added \in Seq(D \ A)
      /\ Len(kept) = k /\ Len(added) = m
  BY <1>2, FunctionIsSequence
<1>5. o = [i \in 1 .. k + m |-> IF i <= k THEN kept[i] ELSE added[i - k]]
  <2>1. kept \in Seq(D) /\ added \in Seq(D)
    <3>1. A \subseteq D /\ D \ A \subseteq D
      OBVIOUS
    <3>2. kept \in [1 .. k -> D] /\ added \in [1 .. m -> D]
      BY <1>2, <3>1
    <3>. QED
      BY <1>2, <3>2, FunctionIsSequence
  <2>2. /\ DOMAIN (kept \o added) = 1 .. k + m
        /\ \A i \in 1 .. k + m :
             (kept \o added)[i] = IF i <= k THEN kept[i] ELSE added[i - k]
    BY <1>2, <1>4, <2>1
  <2>3. kept \o added \in Seq(D) /\ Len(kept \o added) = k + m
    BY <1>2, <1>4, <2>1
  <2>. DEFINE both == kept \o added
              f == [i \in 1 .. k + m |-> IF i <= k THEN kept[i] ELSE added[i - k]]
  <2>4. DOMAIN f = 1 .. k + m /\ f = [i \in DOMAIN f |-> f[i]]
    OBVIOUS
  <2>5. \A i \in 1 .. k + m : f[i] = IF i <= k THEN kept[i] ELSE added[i - k]
    OBVIOUS
  <2>6. both = [i \in DOMAIN both |-> both[i]]
    BY <2>3, SequenceIsFunction
  <2>7. DOMAIN both = 1 .. k + m /\ \A i \in 1 .. k + m : both[i] = f[i]
    BY <2>2, <2>5
  <2>. HIDE DEF both, f
  <2>8. both = f
    BY <2>4, <2>6, <2>7
  <2>. QED
    BY <2>8 DEF InOrder, both, f
<1>. HIDE DEF o
<1>6. o \in [1 .. k + m -> D]
  <2>1. ASSUME NEW i \in 1 .. k + m
        PROVE  (IF i <= k THEN kept[i] ELSE added[i - k]) \in D
    <3>1. CASE i <= k
      BY <1>2, <3>1
    <3>2. CASE ~(i <= k)
      <4>1. i - k \in 1 .. m
        BY <1>2, <3>2
      <4>. QED
        BY <1>2, <3>2, <4>1
    <3>. QED
      BY <3>1, <3>2
  <2>. QED
    BY <1>5, <2>1
<1>7. ASSUME NEW i \in 1 .. k + m, NEW j \in 1 .. k + m, o[i] = o[j]
      PROVE  i = j
  <2>1. i \in 1 .. k \/ (i - k \in 1 .. m /\ ~(i <= k))
    BY <1>2
  <2>2. j \in 1 .. k \/ (j - k \in 1 .. m /\ ~(j <= k))
    BY <1>2
  <2>3. /\ i \in 1 .. k => o[i] = kept[i] /\ o[i] \in A
        /\ j \in 1 .. k => o[j] = kept[j] /\ o[j] \in A
    BY <1>2, <1>5
  <2>4. /\ i - k \in 1 .. m /\ ~(i <= k) => o[i] = added[i - k] /\ o[i] \notin A
        /\ j - k \in 1 .. m /\ ~(j <= k) => o[j] = added[j - k] /\ o[j] \notin A
    BY <1>2, <1>5
  <2>5. CASE i \in 1 .. k /\ j \in 1 .. k
    BY <1>2, <1>7, <2>3, <2>5 DEF Injective
  <2>6. CASE i - k \in 1 .. m /\ ~(i <= k) /\ j - k \in 1 .. m /\ ~(j <= k)
    <3>1. i - k = j - k
      BY <1>2, <1>7, <2>4, <2>6 DEF Injective
    <3>. QED
      BY <1>2, <3>1
  <2>. QED
    BY <1>7, <2>1, <2>2, <2>3, <2>4, <2>5, <2>6
<1>8. o \in Orders(D)
  BY <1>3, <1>6, <1>7 DEF Orders
<1>9. DOMAIN kept \subseteq DOMAIN o /\ \A i \in DOMAIN kept : o[i] = kept[i]
  BY <1>2, <1>5
<1>. QED
  BY <1>8, <1>9 DEF o

-----------------------------------------------------------------------------
(* What a request has computed, and what it has read of the stored route.  *)

Whole(route) ==
    /\ DOMAIN route.order \subseteq Nat /\ Injective(route.order)
    /\ Cardinality(Stops(route.order)) = Len(route.order)
    /\ Stops(route.order) \cap route.left = {}
Fresh(route, ids) == route.current /\ Covered(route) = ids /\ Whole(route)
Keeps(old, new) ==
    \A d, e \in Stops(old.order) \cap Stops(new.order) :
        Before(old.order, d, e) => Before(new.order, d, e)

(* q is a request and s the stored route.  Only one request works, so what *)
(* a GET has read of the stored route is still stored when it stores its   *)
(* own.                                                                    *)
Work(q, s) ==
    /\ q.ids \subseteq Deliveries
    /\ q.pc = "ids" => q.route = Nothing
    /\ q.pc = "store" => Fresh(q.route, q.ids)
    /\ q.pc = "answer" /\ q.route # Nothing /\ ~q.stale => Fresh(q.route, q.ids)
    /\ q.pc = "prune" => q.kind = "get" /\ q.latest = s /\ OnlyRemovals(s, q.ids)
    /\ q.kind = "get" /\ q.pc = "solve" => ~OnlyRemovals(s, q.ids)
    /\ q.kind = "get" /\ q.pc = "store" /\ OnlyRemovals(s, q.ids) => Keeps(s, q.route)

StoredWhole == stored # Nothing /\ stored.current => Whole(stored)
Working     == \A r \in Busy : Work(req[r], stored)
MineOK      == mine \subseteq Deliveries
Planning    == MineOK /\ StoredWhole /\ Working

LEMMA OrderIsWhole ==
    ASSUME NEW ids \in SUBSET Deliveries, NEW S \in SUBSET ids, NEW order \in Orders(S)
    PROVE  Fresh([order |-> order, current |-> TRUE, left |-> ids \ S], ids)
<1>. DEFINE route == [order |-> order, current |-> TRUE, left |-> ids \ S]
<1>1. IsFiniteSet(S)
  BY RoutePlannerAssumption, FS_Subset
<1>2. /\ Injective(order) /\ Stops(order) = S /\ Len(order) = Cardinality(S)
      /\ DOMAIN order \subseteq Nat
  BY <1>1, OrderListsAll
<1>3. route.order = order /\ route.current /\ route.left = ids \ S
  OBVIOUS
<1>. HIDE DEF route
<1>4. Fresh(route, ids)
  BY <1>2, <1>3 DEF Fresh, Whole, Covered
<1>. QED
  BY <1>4 DEF route

(* What planning does to the request's record.                             *)
LEMMA PlannedEffect ==
    ASSUME Chain, NEW r \in Requests, NEW step, At(r, step),
           req[r].ids \subseteq Deliveries,
           NEW order \in Orders(Drivable(req[r].ids)), Planned(r, order)
    PROVE  /\ req'[r].pc = "store" /\ req'[r].kind = req[r].kind /\ req'[r].ids = req[r].ids
           /\ req'[r].route.order = order /\ Fresh(req'[r].route, req[r].ids)
<1>. DEFINE new == [order |-> order, current |-> TRUE,
                    left |-> req[r].ids \ Drivable(req[r].ids)]
<1>1. req' = [req EXCEPT ![r] = [req[r] EXCEPT !.pc = "store", !.route = new]]
  BY DEF Planned
<1>2. Fresh(new, req[r].ids)
  BY OrderIsWhole DEF Drivable
<1>3. new.order = order
  OBVIOUS
<1>. HIDE DEF new
<1>4. req'[r] = [req[r] EXCEPT !.pc = "store", !.route = new]
  BY <1>1, AtFacts
<1>. QED
  BY <1>2, <1>3, <1>4, AtFacts DEF Fields

LEMMA AnswerEffect ==
    ASSUME Chain, NEW r \in Requests, NEW step, At(r, step),
           NEW route, NEW stale, Answer(r, route, stale)
    PROVE  /\ req'[r].pc = "answer" /\ req'[r].ids = req[r].ids
           /\ req'[r].route = route /\ req'[r].stale = stale
<1>1. req'[r] = [req[r] EXCEPT !.pc = "answer", !.route = route, !.stale = stale]
  BY AtFacts DEF Answer
<1>. QED
  BY <1>1, AtFacts DEF Fields

(* The stops a route keeps of the stored one come first, in their order.   *)
LEMMA PruneKeepsOrder ==
    ASSUME NEW old, Injective(old), DOMAIN old \subseteq Nat, NEW D, IsFiniteSet(D),
           NEW kept \in Kept(old, D), NEW added \in Orders(D \ Stops(kept)),
           NEW d \in Stops(old) \cap D, NEW e \in Stops(old) \cap D, Before(old, d, e)
    PROVE  Before(InOrder(kept, added), d, e)
<1>. DEFINE A == Stops(old) \cap D
<1>1. IsFiniteSet(A) /\ A \in SUBSET D
  BY FS_Subset
<1>2. /\ kept \in Orders(A)
      /\ \A i, j \in DOMAIN kept : i < j => Before(old, kept[i], kept[j])
  BY DEF Kept
<1>3. /\ Stops(kept) = A /\ DOMAIN kept = 1 .. Cardinality(A) /\ Cardinality(A) \in Nat
  BY <1>1, <1>2, OrderListsAll
<1>4. /\ DOMAIN kept \subseteq DOMAIN InOrder(kept, added)
      /\ \A i \in DOMAIN kept : InOrder(kept, added)[i] = kept[i]
  <2>1. added \in Orders(D \ A)
    BY <1>3
  <2>. HIDE DEF A
  <2>. QED
    BY <1>1, <1>2, <2>1, InOrderListsAll
<1>5. PICK i, j \in DOMAIN kept : kept[i] = d /\ kept[j] = e
  BY <1>3 DEF Stops
<1>6. PICK m, n \in DOMAIN old : m < n /\ old[m] = d /\ old[n] = e
  BY DEF Before
<1>7. i \in Nat /\ j \in Nat /\ m \in Nat /\ n \in Nat
  BY <1>3
<1>8. i # j
  <2>1. m # n
    BY <1>6, <1>7
  <2>. QED
    BY <1>5, <1>6, <2>1 DEF Injective
<1>9. ~(j < i)
  <2>. SUFFICES ASSUME j < i PROVE FALSE
    OBVIOUS
  <2>1. PICK p, q \in DOMAIN old : p < q /\ old[p] = e /\ old[q] = d
    BY <1>2, <1>5 DEF Before
  <2>2. p = n /\ q = m
    BY <1>6, <2>1 DEF Injective
  <2>. QED
    BY <1>6, <1>7, <2>1, <2>2
<1>10. i < j
  BY <1>7, <1>8, <1>9
<1>. QED
  BY <1>4, <1>5, <1>10 DEF Before

(* Every step of the request that works keeps what is known of it.         *)
LEMMA WorkGoesOn ==
    ASSUME Chain, Planning, NEW r \in Requests, Works(r)
    PROVE  Work(req'[r], stored') /\ StoredWhole'
<1>1. r \in Busy /\ Work(req[r], stored) /\ StoredWhole
  BY WorksGoesOn DEF Planning, Working
<1>2. CASE ReadIds(r)
  <2>. DEFINE mineNow == mine \cap routable
              next == IF mineNow = {} THEN "answer"
                      ELSE IF req[r].kind = "recalculate" THEN "solve" ELSE "latest"
  <2>1. At(r, "ids") /\ UNCHANGED stored
    BY <1>2 DEF ReadIds
  <2>2. req' = [req EXCEPT ![r] = [req[r] EXCEPT !.ids = mineNow, !.pc = next]]
    BY <1>2 DEF ReadIds
  <2>3. /\ next \in {"answer", "solve", "latest"}
        /\ req[r].kind = "get" => next # "solve"
    OBVIOUS
  <2>4. mineNow \subseteq Deliveries
    BY DEF Planning, MineOK
  <2>. HIDE DEF mineNow, next
  <2>5. req'[r] = [req[r] EXCEPT !.ids = mineNow, !.pc = next]
    BY <2>1, <2>2, AtFacts
  <2>6. /\ req'[r].ids = mineNow /\ req'[r].pc = next /\ req'[r].route = Nothing
        /\ req'[r].kind = req[r].kind
    BY <1>1, <2>1, <2>5, AtFacts DEF Fields, Work
  <2>. QED
    BY <1>1, <2>1, <2>3, <2>4, <2>6 DEF Work, StoredWhole
<1>3. CASE LoadLatest(r)
  <2>1. At(r, "latest") /\ UNCHANGED stored
    BY <1>3 DEF LoadLatest
  <2>2. CASE req[r].kind = "get" /\ Unchanged(stored, req[r].ids)
    <3>1. req' = [req EXCEPT ![r] = [req[r] EXCEPT !.pc = "answer", !.latest = stored,
                                                   !.route = stored]]
      BY <1>3, <2>2 DEF LoadLatest
    <3>2. /\ req'[r].pc = "answer" /\ req'[r].ids = req[r].ids /\ req'[r].route = stored
      BY <2>1, <3>1, AtFacts DEF Fields
    <3>3. Fresh(stored, req[r].ids)
      BY <1>1, <2>2 DEF StoredWhole, Unchanged, Fresh
    <3>. QED
      BY <1>1, <2>1, <3>2, <3>3 DEF Work, StoredWhole
  <2>3. CASE ~(req[r].kind = "get" /\ Unchanged(stored, req[r].ids))
    <3>. DEFINE next == IF req[r].kind = "get" /\ OnlyRemovals(stored, req[r].ids)
                          THEN "prune" ELSE "solve"
    <3>1. req' = [req EXCEPT ![r] = [req[r] EXCEPT !.latest = stored, !.pc = next]]
      BY <1>3, <2>3 DEF LoadLatest
    <3>2. \/ next = "prune" /\ req[r].kind = "get" /\ OnlyRemovals(stored, req[r].ids)
          \/ next = "solve" /\ ~(req[r].kind = "get" /\ OnlyRemovals(stored, req[r].ids))
      OBVIOUS
    <3>. HIDE DEF next
    <3>3. /\ req'[r].pc = next /\ req'[r].ids = req[r].ids /\ req'[r].latest = stored
          /\ req'[r].kind = req[r].kind
      BY <2>1, <3>1, AtFacts DEF Fields
    <3>. QED
      BY <1>1, <2>1, <3>2, <3>3 DEF Work, StoredWhole
  <2>. QED
    BY <2>2, <2>3
<1>4. CASE PlanRoute(r)
  <2>1. At(r, "solve") /\ UNCHANGED stored
    BY <1>4 DEF PlanRoute
  <2>2. PICK order \in Orders(Drivable(req[r].ids)) : Planned(r, order)
    BY <1>4 DEF PlanRoute
  <2>3. /\ req'[r].pc = "store" /\ req'[r].kind = req[r].kind /\ req'[r].ids = req[r].ids
        /\ Fresh(req'[r].route, req[r].ids)
    BY <1>1, <2>1, <2>2, PlannedEffect DEF Work
  <2>4. req[r].pc = "solve"
    BY <2>1 DEF At
  <2>. QED
    BY <1>1, <2>1, <2>3, <2>4 DEF Work, StoredWhole
<1>5. CASE Prune(r)
  <2>. DEFINE D   == Drivable(req[r].ids)
              old == req[r].latest.order
  <2>1. At(r, "prune") /\ UNCHANGED stored /\ req[r].pc = "prune"
    BY <1>5 DEF Prune, At
  <2>2. PICK kept \in Kept(old, D) :
          \E added \in Orders(D \ Stops(kept)) : Planned(r, InOrder(kept, added))
    BY <1>5 DEF Prune
  <2>10. PICK added \in Orders(D \ Stops(kept)) : Planned(r, InOrder(kept, added))
    BY <2>2
  <2>3. /\ req[r].kind = "get" /\ old = stored.order /\ OnlyRemovals(stored, req[r].ids)
        /\ req[r].ids \subseteq Deliveries
    BY <1>1, <2>1 DEF Work
  <2>4. IsFiniteSet(D) /\ D \subseteq req[r].ids
    BY <2>3, RoutePlannerAssumption, FS_Subset DEF Drivable
  <2>5. Injective(old) /\ DOMAIN old \subseteq Nat
    BY <1>1, <2>3 DEF StoredWhole, OnlyRemovals, Whole
  <2>. HIDE DEF D, old
  <2>6. InOrder(kept, added) \in Orders(D)
    <3>1. kept \in Orders(Stops(old) \cap D)
      BY DEF Kept
    <3>2. IsFiniteSet(Stops(old) \cap D) /\ Stops(old) \cap D \in SUBSET D
      BY <2>4, FS_Subset
    <3>3. Stops(kept) = Stops(old) \cap D
      BY <3>1, <3>2, OrderListsAll
    <3>. QED
      BY <2>4, <3>1, <3>2, <3>3, InOrderListsAll
  <2>7. /\ req'[r].pc = "store" /\ req'[r].kind = req[r].kind /\ req'[r].ids = req[r].ids
        /\ Fresh(req'[r].route, req[r].ids) /\ req'[r].route.order = InOrder(kept, added)
    BY <2>1, <2>3, <2>6, <2>10, PlannedEffect DEF D
  <2>8. Stops(InOrder(kept, added)) = D
    BY <2>4, <2>6, OrderListsAll
  <2>9. Keeps(stored, req'[r].route)
    <3>. SUFFICES ASSUME NEW d \in Stops(old) \cap D, NEW e \in Stops(old) \cap D,
                         Before(old, d, e)
                  PROVE  Before(InOrder(kept, added), d, e)
      BY <2>3, <2>7, <2>8 DEF Keeps
    <3>. QED
      BY <2>4, <2>5, PruneKeepsOrder
  <2>. QED
    BY <1>1, <2>1, <2>3, <2>7, <2>9 DEF Work, StoredWhole
<1>6. CASE StoreRoute(r)
  <2>1. At(r, "store") /\ req[r].pc = "store" /\ stored' = req[r].route
    BY <1>6 DEF StoreRoute, At
  <2>2. /\ req'[r].pc = "answer" /\ req'[r].ids = req[r].ids /\ req'[r].route = req[r].route
    BY <1>6, <2>1, AnswerEffect DEF StoreRoute
  <2>. QED
    BY <1>1, <2>1, <2>2 DEF Work, StoredWhole, Fresh
<1>7. CASE RequestFails(r)
  <2>1. PICK step : At(r, step)
    BY <1>7 DEF RequestFails
  <2>2. req'[r].pc = "answer" /\ req'[r].ids = req[r].ids /\ req'[r].stale = TRUE
    BY <1>7, <2>1, AnswerEffect DEF RequestFails
  <2>3. stored' = stored \/ (stored' = req[r].route /\ req[r].pc = "store")
    BY <1>7 DEF RequestFails, At
  <2>. QED
    BY <1>1, <2>2, <2>3 DEF Work, StoredWhole, Fresh
<1>. QED
  BY <1>2, <1>3, <1>4, <1>5, <1>6, <1>7 DEF Works

(* A request that waits has neither read nor computed anything, so no      *)
(* change of the stored route matters to it.                               *)
LEMMA WaitingWork ==
    ASSUME NEW q, NEW s, NEW z, Work(q, s), q.pc = "ids"
    PROVE  Work(q, z)
BY DEF Work

LEMMA PlanningNext ==
    ASSUME Chain, Planning, [Next]_vars
    PROVE  Planning'
<1>. USE DEF Planning
<1>0. MineOK'
  <2>1. CASE \E d \in Deliveries : ChangePostman(d)
    BY <2>1 DEF ChangePostman, MineOK
  <2>2. CASE UNCHANGED mine
    BY <2>2 DEF MineOK
  <2>. QED
    BY <2>1, <2>2
       DEF Next, Step, Arrive, Release, ReadIds, LoadLatest, PlanRoute, Prune, StoreRoute,
           RequestFails, ChangeStatus, CorrectAddress, Crash, vars, world
<1>1. ASSUME NEW q \in Requests, Works(q) PROVE Planning'
  <2>1. q \in Busy /\ req[q].after = NoOne /\ Busy' = Busy
        /\ \A r \in Busy \ {q} : req'[r] = req[r]
    BY <1>1, WorksGoesOn, GoesOnKeepsChain DEF GoesOn, Chain, Busy
  <2>2. Work(req'[q], stored') /\ StoredWhole'
    BY <1>1, WorkGoesOn
  <2>3. \A r \in Busy \ {q} : Work(req'[r], stored')
    <3>. SUFFICES ASSUME NEW r \in Busy \ {q} PROVE Work(req[r], stored')
      BY <2>1
    <3>1. req[r].pc = "ids" /\ Work(req[r], stored)
      BY <2>1, OthersWait DEF Working
    <3>. QED
      BY <3>1, WaitingWork
  <2>4. Working'
    BY <2>1, <2>2, <2>3 DEF Working
  <2>. QED
    BY <1>0, <2>2, <2>4
<1>2. ASSUME NEW q \in Requests, Release(q) PROVE Planning'
  <2>1. UNCHANGED stored /\ req'[q] = Idle /\ DOMAIN req' = Requests
    BY <1>2 DEF Release
  <2>2. ASSUME NEW r \in Requests, r # q, req'[r] # Idle
        PROVE  Work(req'[r], stored)
    <3>1. req'[r] = Woken(req[r], q)
      BY <1>2, <2>2 DEF Release
    <3>2. req[r] # Idle
      BY <2>2, <3>1 DEF Woken
    <3>3. Work(req[r], stored) /\ DOMAIN req[r] = Fields
      BY <3>2 DEF Working, Busy, Chain, RequestOK
    <3>4. req'[r] = req[r] \/ req'[r] = [req[r] EXCEPT !.after = NoOne]
      BY <3>1 DEF Woken
    <3>. QED
      BY <3>3, <3>4 DEF Work, Fields
  <2>3. Working'
    BY <2>1, <2>2 DEF Working, Busy
  <2>. QED
    BY <1>0, <2>1, <2>3 DEF StoredWhole
<1>3. ASSUME NEW q \in Requests, NEW kind \in Kinds, Arrive(q, kind) PROVE Planning'
  <2>. DEFINE new == [pc |-> "ids", kind |-> kind, after |-> lock, ids |-> {},
                      latest |-> Nothing, route |-> Nothing, stale |-> FALSE]
  <2>1. req' = [req EXCEPT ![q] = new] /\ UNCHANGED stored /\ DOMAIN req = Requests
    BY <1>3 DEF Arrive, Chain
  <2>2. Work(new, stored)
    BY DEF Work
  <2>. HIDE DEF new
  <2>3. Working'
    BY <2>1, <2>2 DEF Working, Busy
  <2>. QED
    BY <1>0, <2>1, <2>3 DEF StoredWhole
<1>4. CASE Crash
  BY <1>0, <1>4 DEF Crash, Working, StoredWhole, Busy
<1>5. CASE UNCHANGED <<stored, req>>
  BY <1>0, <1>5 DEF Working, StoredWhole, Busy
<1>6. ASSUME NEW d \in Deliveries,
             ChangeStatus(d) \/ ChangePostman(d) \/ CorrectAddress(d)
      PROVE  Planning'
  BY <1>5, <1>6 DEF ChangeStatus, ChangePostman, CorrectAddress, Move
<1>7. CASE UNCHANGED vars
  BY <1>5, <1>7 DEF vars
<1>. QED
  BY <1>1, <1>2, <1>3, <1>4, <1>6, <1>7 DEF Next, Step, Works

LEMMA PlanningInit == Init => Planning
BY DEF Init, Planning, MineOK, StoredWhole, Working, Busy, Nothing

(* A route that is served as fresh accounts for every delivery the postman *)
(* had when it was asked for, and for no other, each once: whether it was  *)
(* stored, planned from the start or had stops taken out of it, for any    *)
(* number of requests and deliveries, failures and stops of the server.    *)
THEOREM AnswersAreComplete == Spec => []AnswerIsComplete
<1>1. Planning => AnswerIsComplete
  BY DEF Planning, Working, Work, Fresh, Whole, AnswerIsComplete
<1>. QED
  BY ChainInit, ChainNext, PlanningInit, PlanningNext, <1>1, PTL DEF Spec

LEMMA StopsStayStep ==
    ASSUME Chain, Planning, [Next]_vars, NEW r \in Busy,
           req[r].kind = "get", stored' # stored, req'[r] # req[r],
           OnlyRemovals(stored, req[r].ids)
    PROVE  Keeps(stored, stored')
<1>1. ASSUME NEW q \in Requests, StoreRoute(q) \/ RequestFails(q)
      PROVE  q = r /\ req[r].pc = "store" /\ stored' = req[r].route
  <2>1. q \in Busy /\ req' = [req EXCEPT ![q] = req'[q]]
    BY <1>1, WorksGoesOn DEF Works, GoesOn
  <2>2. q = r
    BY <2>1 DEF Chain, Busy
  <2>3. At(q, "store") /\ stored' = req[q].route
    BY <1>1 DEF StoreRoute, RequestFails
  <2>. QED
    BY <2>2, <2>3 DEF At
<1>2. \E q \in Requests : StoreRoute(q) \/ RequestFails(q)
  BY DEF Next, Step, Arrive, Release, ReadIds, LoadLatest, PlanRoute, Prune,
         ChangeStatus, ChangePostman, CorrectAddress, Move, Crash, vars
<1>3. req[r].pc = "store" /\ stored' = req[r].route
  BY <1>1, <1>2
<1>. QED
  BY <1>3 DEF Planning, Working, Work

(* "The remaining stops never reshuffle just because one was completed": a *)
(* GET that adds no delivery stores the stops of the newest route in their *)
(* order.  The route it took them from is still the newest, because only   *)
(* one request of the postman works at a time.                             *)
THEOREM StopsKeepTheirOrder == Spec => RemainingStopsStay
<1>. DEFINE A == \A r \in Busy :
                   /\ req[r].kind = "get" /\ stored' # stored /\ req'[r] # req[r]
                   /\ OnlyRemovals(stored, req[r].ids)
                   => \A d, e \in Stops(stored.order) \cap Stops(stored'.order) :
                        Before(stored.order, d, e) => Before(stored'.order, d, e)
<1>1. Chain /\ Planning /\ [Next]_vars => A
  BY StopsStayStep DEF Keeps
<1>2. Chain /\ Planning /\ [Next]_vars => [A]_vars
  BY <1>1
<1>3. RemainingStopsStay <=> [][A]_vars
  BY PTL DEF RemainingStopsStay
<1>. HIDE DEF A
<1>. QED
  BY ChainInit, ChainNext, PlanningInit, PlanningNext, <1>2, <1>3, PTL DEF Spec

(***************************************************************************)
(* Guidance.  First the route as numbers: a distance, the length of a line,*)
(* the place of a fix on it, and that of all the steps of a route each     *)
(* starts on its line.  Sets of numbers have a least one, which is all the *)
(* induction there is: what is defined vertex by vertex, step by step is   *)
(* found as a function on an interval, and shown from one to the next.     *)
(***************************************************************************)

(* A set of numbers has a least one: the sets 1 .. n are ordered as the    *)
(* numbers are, and being a strict subset is well-founded.                 *)
LEMMA HasLeast ==
    ASSUME NEW T \in SUBSET Nat, T # {}
    PROVE  \E n \in T : \A m \in T : n <= m
<1> DEFINE U == {1 .. n : n \in T}
<1>1. U \subseteq FiniteSubsetsOf(Nat) /\ U # {}
  <2>1. \A n \in T : IsFiniteSet(1 .. n)
    BY FS_Interval
  <2>2. \A n \in T : 1 .. n \in SUBSET Nat
    OBVIOUS
  <2>. QED
    BY <2>1, <2>2 DEF FiniteSubsetsOf
<1>2. PICK v \in U : \A w \in U : <<w, v>> \notin StrictSubsetOrdering(Nat)
  <2>. HIDE DEF U
  <2>. QED
    BY <1>1, FS_StrictSubsetOrderingWellFounded, WFMin
<1>3. PICK n \in T : v = 1 .. n
  OBVIOUS
<1>4. ASSUME NEW m \in T, m < n
      PROVE  FALSE
  <2>1. 1 .. m \in U /\ 1 .. m \subseteq 1 .. n /\ n \in 1 .. n /\ n \notin 1 .. m
    BY <1>4
  <2>2. <<1 .. m, v>> \in StrictSubsetOrdering(Nat)
    BY <1>3, <2>1 DEF StrictSubsetOrdering
  <2>. QED
    BY <1>2, <2>1, <2>2
<1>. QED
  BY <1>3, <1>4

(* Induction, with a set for what is to be shown.                          *)
LEMMA ByInduction ==
    ASSUME NEW T, NEW m \in Nat, NEW n \in Nat, m \in T,
           \A k \in (m + 1) .. n : k - 1 \in T => k \in T
    PROVE  m .. n \subseteq T
<1> DEFINE bad == {k \in m .. n : k \notin T}
<1> SUFFICES ASSUME bad # {} PROVE FALSE
  OBVIOUS
<1>1. bad \in SUBSET Nat
  OBVIOUS
<1>2. PICK k \in bad : \A j \in bad : k <= j
  <2>. HIDE DEF bad
  <2>. QED
    BY <1>1, HasLeast
<1>3. k # m
  BY <1>2
<1>4. k \in (m + 1) .. n /\ k - 1 \in m .. n /\ k - 1 \notin bad
  BY <1>2, <1>3
<1>. QED
  BY <1>2, <1>4

(* A function that is defined along m .. n from one value to the next.     *)
IsRun(f, m, n, base, step) == f = [k \in m .. n |-> IF k = m THEN base ELSE step[k][f[k - 1]]]

(* Such a function exists, and its values stay in the set.                 *)
LEMMA RunExists ==
    ASSUME NEW S, NEW base \in S, NEW m \in Nat, NEW n \in Nat,
           NEW step \in [(m + 1) .. n -> [S -> S]]
    PROVE  \E f \in [m .. n -> S] : IsRun(f, m, n, base, step)
<1> DEFINE Has(k) == \E f \in [m .. k -> S] : IsRun(f, m, k, base, step)
           T == {k \in m .. n : Has(k)}
<1>1. CASE n < m
  <2>1. m .. n = {}
    BY <1>1
  <2> DEFINE f == [k \in m .. n |-> base]
  <2>2. f \in [m .. n -> S] /\ IsRun(f, m, n, base, step)
    BY <2>1 DEF IsRun
  <2>. QED
    BY <2>2
<1>2. CASE m <= n
  <2>1. Has(m)
    <3> DEFINE f == [k \in m .. m |-> base]
    <3>1. f \in [m .. m -> S] /\ IsRun(f, m, m, base, step)
      BY DEF IsRun
    <3>. QED
      BY <3>1
  <2>2. ASSUME NEW k \in (m + 1) .. n, Has(k - 1) PROVE Has(k)
    <3>1. PICK f \in [m .. (k - 1) -> S] : IsRun(f, m, k - 1, base, step)
      BY <2>2
    <3> DEFINE g == [r \in m .. k |-> IF r = k THEN step[k][f[k - 1]] ELSE f[r]]
    <3>2. k - 1 \in m .. (k - 1) /\ step[k] \in [S -> S] /\ k # m
      OBVIOUS
    <3>3. g \in [m .. k -> S]
      <4>1. \A r \in m .. k : r # k => r \in m .. (k - 1)
        OBVIOUS
      <4>. QED
        BY <3>2, <4>1
    <3>4. ASSUME NEW r \in m .. k
          PROVE  g[r] = IF r = m THEN base ELSE step[r][g[r - 1]]
      <4>1. CASE r = k
        <5>1. k - 1 \in m .. k /\ k - 1 # k
          BY <3>2
        <5>. QED
          BY <3>2, <4>1, <5>1
      <4>2. CASE r # k
        <5>1. r \in m .. (k - 1) /\ g[r] = f[r]
          BY <4>2
        <5>2. f[r] = IF r = m THEN base ELSE step[r][f[r - 1]]
          BY <3>1, <5>1 DEF IsRun
        <5>3. r # m => r - 1 \in m .. k /\ r - 1 # k
          BY <5>1
        <5>. QED
          BY <5>1, <5>2, <5>3
      <4>. QED
        BY <4>1, <4>2
    <3>5. g = [r \in m .. k |-> g[r]]
      OBVIOUS
    <3> HIDE DEF g
    <3>. QED
      BY <3>3, <3>4, <3>5 DEF IsRun
  <2> HIDE DEF Has
  <2>3. m \in T /\ \A k \in (m + 1) .. n : k - 1 \in T => k \in T
    BY <1>2, <2>1, <2>2
  <2>4. n \in T
    <3> HIDE DEF T
    <3>1. m .. n \subseteq T
      BY <2>3, ByInduction
    <3>. QED
      BY <1>2, <3>1
  <2>. QED
    BY <2>4 DEF Has
<1>. QED
  BY <1>1, <1>2

Lines == Seq(Point)

(* A line with one more vertex, unless it ends there.                       *)
Through(line, p) == IF line # <<>> /\ Last(line) = p THEN line ELSE Append(line, p)

(* One vertex more changes none of those before.                           *)
LEMMA ThroughFacts ==
    ASSUME NEW line \in Lines, NEW p \in Point
    PROVE  /\ Through(line, p) \in Lines
           /\ Len(line) <= Len(Through(line, p))
           /\ \A i \in 1 .. Len(line) : Through(line, p)[i] = line[i]
<1>1. CASE line # <<>> /\ Last(line) = p
  BY <1>1 DEF Through
<1>2. CASE ~(line # <<>> /\ Last(line) = p)
  <2>1. Through(line, p) = Append(line, p)
    BY <1>2 DEF Through
  <2>. QED
    BY <2>1 DEF Lines
<1>. QED
  BY <1>1, <1>2

(* Drawn, one vertex after the other.                                       *)
LEMMA DrawnStepByStep ==
    ASSUME NEW line \in Lines, NEW coords \in Lines
    PROVE  \E up \in [0 .. Len(coords) -> Lines] :
              /\ up[0] = line
              /\ \A k \in 1 .. Len(coords) : up[k] = Through(up[k - 1], coords[k])
              /\ Drawn(line, coords) = up[Len(coords)]
<1> DEFINE n == Len(coords)
           IsUp(g) == g = [k \in 0 .. n |->
                             IF k = 0 THEN line
                             ELSE IF g[k - 1] # <<>> /\ Last(g[k - 1]) = coords[k] THEN g[k - 1]
                             ELSE Append(g[k - 1], coords[k])]
           up == CHOOSE g : IsUp(g)
           step == [k \in 1 .. n |-> [u \in Lines |-> Through(u, coords[k])]]
<1>1. n \in Nat /\ \A k \in 1 .. n : coords[k] \in Point
  BY DEF Lines
<1>2. step \in [(0 + 1) .. n -> [Lines -> Lines]]
  BY <1>1, ThroughFacts
<1>3. \E f \in [0 .. n -> Lines] : IsRun(f, 0, n, line, step)
  <2>. HIDE DEF step, n
  <2>. QED
    BY <1>1, <1>2, RunExists
<1>4. PICK f \in [0 .. n -> Lines] : IsRun(f, 0, n, line, step)
  BY <1>3
<1>5. \A k \in 1 .. n : step[k][f[k - 1]] = Through(f[k - 1], coords[k])
  <2>1. \A k \in 1 .. n : f[k - 1] \in Lines
    BY <1>1, <1>4
  <2>. QED
    BY <2>1
<1>6. f = [k \in 0 .. n |-> IF k = 0 THEN line ELSE Through(f[k - 1], coords[k])]
  <2>1. \A k \in 0 .. n : f[k] = IF k = 0 THEN line ELSE step[k][f[k - 1]]
    BY <1>4 DEF IsRun
  <2>2. \A k \in 0 .. n : f[k] = IF k = 0 THEN line ELSE Through(f[k - 1], coords[k])
    <3>. HIDE DEF step
    <3>. QED
      BY <1>1, <1>5, <2>1
  <2>. QED
    BY <1>4, <2>2
<1>7. IsUp(f)
  BY <1>6 DEF Through
<1>8. IsUp(up)
  BY <1>7, Zenon
<1>9. up = [k \in 0 .. n |-> IF k = 0 THEN line ELSE Through(up[k - 1], coords[k])]
  BY <1>8 DEF Through
<1>10. up[0] = line /\ \A k \in 1 .. n : up[k] = Through(up[k - 1], coords[k])
  <2>. HIDE DEF up
  <2>1. \A k \in 0 .. n : up[k] = IF k = 0 THEN line ELSE Through(up[k - 1], coords[k])
    BY <1>9
  <2>. QED
    BY <1>1, <2>1
<1>11. \A k \in 0 .. n : up[k] \in Lines
  <2> DEFINE T == {k \in 0 .. n : up[k] \in Lines}
  <2>. HIDE DEF up
  <2>1. 0 \in T
    BY <1>1, <1>10
  <2>2. ASSUME NEW k \in (0 + 1) .. n, k - 1 \in T PROVE k \in T
    <3>1. k \in 1 .. n /\ k \in 0 .. n /\ up[k - 1] \in Lines /\ coords[k] \in Point
      BY <1>1, <2>2
    <3>2. up[k] = Through(up[k - 1], coords[k])
      BY <3>1, <1>10
    <3>. QED
      BY <3>1, <3>2, ThroughFacts
  <2>3. 0 .. n \subseteq T
    <3>. HIDE DEF T, n
    <3>. QED
      BY <1>1, <2>1, <2>2, ByInduction
  <2>. QED
    BY <2>3
<1>12. up \in [0 .. n -> Lines]
  <2>. HIDE DEF up
  <2>. QED
    BY <1>9, <1>11
<1>13. Drawn(line, coords) = up[n]
  BY DEF Drawn
<1>. QED
  BY <1>10, <1>12, <1>13

(* A step is drawn on: what was there stays, and its first point is at the *)
(* vertex that StartsAt names.                                             *)
LEMMA DrawnFacts ==
    ASSUME NEW line \in Lines, NEW coords \in Lines \ {<<>>}
    PROVE  /\ Drawn(line, coords) \in Lines
           /\ \A i \in 1 .. Len(line) : i \in DOMAIN Drawn(line, coords) /\ Drawn(line, coords)[i] = line[i]
           /\ StartsAt(line, coords) \in DOMAIN Drawn(line, coords)
           /\ Drawn(line, coords)[StartsAt(line, coords)] = coords[1]
           /\ Len(line) <= StartsAt(line, coords)
<1> DEFINE n == Len(coords)
           s == StartsAt(line, coords)
<1>1. PICK up \in [0 .. n -> Lines] :
         /\ up[0] = line
         /\ \A k \in 1 .. n : up[k] = Through(up[k - 1], coords[k])
         /\ Drawn(line, coords) = up[n]
  BY DrawnStepByStep
<1>2. n \in Nat /\ n >= 1 /\ \A k \in 1 .. n : coords[k] \in Point
  BY DEF Lines
<1>3. \A k \in 0 .. n : up[k] \in Lines /\ Len(up[k]) \in Nat
  BY <1>1 DEF Lines
<1>4. /\ s \in Nat /\ Len(line) <= s /\ s >= 1
      /\ s <= Len(up[1]) /\ up[1][s] = coords[1]
      /\ Len(line) <= Len(up[1]) /\ \A i \in 1 .. Len(line) : up[1][i] = line[i]
  <2>1. up[1] = Through(line, coords[1]) /\ coords[1] \in Point
    BY <1>1, <1>2
  <2>2. CASE line # <<>> /\ Last(line) = coords[1]
    <3>1. up[1] = line /\ s = Len(line)
      BY <2>1, <2>2 DEF Through, StartsAt
    <3>2. Len(line) \in Nat \ {0} /\ line[Len(line)] = coords[1]
      BY <2>2 DEF Last, Lines
    <3>. QED
      BY <3>1, <3>2
  <2>3. CASE ~(line # <<>> /\ Last(line) = coords[1])
    <3>1. up[1] = Append(line, coords[1]) /\ s = Len(line) + 1
      BY <2>1, <2>3 DEF Through, StartsAt
    <3> DEFINE p == coords[1]
    <3>. HIDE DEF p
    <3>2. Len(Append(line, p)) = Len(line) + 1 /\ Append(line, p)[Len(line) + 1] = p /\ Len(line) \in Nat
      BY <2>1 DEF Lines
    <3>3. \A i \in 1 .. Len(line) : Append(line, p)[i] = line[i]
      BY <2>1 DEF Lines
    <3>. QED
      BY <3>1, <3>2, <3>3
  <2>. QED
    BY <2>2, <2>3
<1> DEFINE T == {k \in 1 .. n : Len(up[1]) <= Len(up[k]) /\ \A i \in 1 .. Len(up[1]) : up[k][i] = up[1][i]}
<1>5. 1 \in T
  BY <1>2, <1>3
<1>6. ASSUME NEW k \in (1 + 1) .. n, k - 1 \in T PROVE k \in T
  <2>1. k - 1 \in 0 .. n /\ k \in 1 .. n /\ k \in 0 .. n
    BY <1>2
  <2> DEFINE before == up[k - 1]
  <2>2. /\ Len(before) <= Len(up[k])
        /\ \A i \in 1 .. Len(before) : up[k][i] = before[i]
    <3>1. up[k] = Through(before, coords[k]) /\ before \in Lines /\ coords[k] \in Point
      BY <2>1, <1>1, <1>2, <1>3
    <3>. HIDE DEF before
    <3>2. /\ Len(before) <= Len(Through(before, coords[k]))
          /\ \A i \in 1 .. Len(before) : Through(before, coords[k])[i] = before[i]
      BY <3>1, ThroughFacts
    <3>. QED
      BY <3>1, <3>2
  <2>3. Len(up[1]) <= Len(before) /\ \A i \in 1 .. Len(up[1]) : before[i] = up[1][i]
    BY <1>6
  <2>4. Len(before) \in Nat /\ Len(up[k]) \in Nat /\ Len(up[1]) \in Nat
    BY <2>1, <1>2, <1>3
  <2>. HIDE DEF before
  <2>. QED
    BY <2>1, <2>2, <2>3, <2>4
<1>7. n \in T
  <2>1. 1 .. n \subseteq T
    <3>. HIDE DEF T, n
    <3>. QED
      BY <1>2, <1>5, <1>6, ByInduction
  <2>. QED
    BY <2>1, <1>2
<1>8. /\ Len(up[1]) <= Len(up[n]) /\ \A i \in 1 .. Len(up[1]) : up[n][i] = up[1][i]
      /\ up[n] \in Lines /\ Len(up[n]) \in Nat /\ Len(up[1]) \in Nat /\ Len(line) \in Nat
      /\ DOMAIN up[n] = 1 .. Len(up[n])
  BY <1>7, <1>2, <1>3 DEF Lines
<1>. HIDE DEF s, n
<1>9. s \in DOMAIN up[n] /\ up[n][s] = coords[1]
  BY <1>4, <1>8
<1>10. \A i \in 1 .. Len(line) : i \in DOMAIN up[n] /\ up[n][i] = line[i]
  BY <1>4, <1>8
<1>. QED
  BY <1>1, <1>4, <1>8, <1>9, <1>10 DEF s

(* The steps of a route, whatever line they make.                           *)
AreSteps(steps) ==
    /\ Len(steps) \in Nat /\ DOMAIN steps = 1 .. Len(steps)
    /\ \A i \in DOMAIN steps : steps[i].geometry \in Lines \ {<<>>}

Builds == [line : Lines, starts : Seq(Nat)]
WithStep(built, coords) ==
    [line |-> Drawn(built.line, coords), starts |-> Append(built.starts, StartsAt(built.line, coords))]

(* A built line with one step more is a built line.                        *)
LEMMA WithStepFacts ==
    ASSUME NEW built \in Builds, NEW coords \in Lines \ {<<>>}
    PROVE  WithStep(built, coords) \in Builds
<1>1. built.line \in Lines /\ built.starts \in Seq(Nat)
  BY DEF Builds
<1>2. Drawn(built.line, coords) \in Lines /\ StartsAt(built.line, coords) \in DOMAIN Drawn(built.line, coords)
  BY <1>1, DrawnFacts
<1>3. StartsAt(built.line, coords) \in Nat
  BY <1>2 DEF Lines
<1>. QED
  BY <1>1, <1>2, <1>3 DEF WithStep, Builds

(* Joined, one step after the other.                                       *)
LEMMA JoinedStepByStep ==
    ASSUME NEW steps, AreSteps(steps)
    PROVE  \E up \in [0 .. Len(steps) -> Builds] :
              /\ up[0] = [line |-> <<>>, starts |-> <<>>]
              /\ \A k \in 1 .. Len(steps) : up[k] = WithStep(up[k - 1], steps[k].geometry)
              /\ Joined(steps) = up[Len(steps)]
<1> DEFINE n == Len(steps)
           base == [line |-> <<>>, starts |-> <<>>]
           IsUp(g) == g = [k \in 0 .. n |->
                             IF k = 0 THEN [line |-> <<>>, starts |-> <<>>]
                             ELSE [line |-> Drawn(g[k - 1].line, steps[k].geometry),
                                   starts |-> Append(g[k - 1].starts, StartsAt(g[k - 1].line, steps[k].geometry))]]
           up == CHOOSE g : IsUp(g)
           step == [k \in 1 .. n |-> [u \in Builds |-> WithStep(u, steps[k].geometry)]]
<1>1. n \in Nat /\ \A k \in 1 .. n : steps[k].geometry \in Lines \ {<<>>}
  BY DEF AreSteps
<1>2. step \in [(0 + 1) .. n -> [Builds -> Builds]]
  BY <1>1, WithStepFacts
<1>b. base \in Builds
  BY DEF Builds, Lines
<1>3. \E f \in [0 .. n -> Builds] : IsRun(f, 0, n, base, step)
  <2>. HIDE DEF step, n, base
  <2>. QED
    BY <1>1, <1>2, <1>b, RunExists
<1>4. PICK f \in [0 .. n -> Builds] : IsRun(f, 0, n, base, step)
  BY <1>3
<1>5. \A k \in 1 .. n : step[k][f[k - 1]] = WithStep(f[k - 1], steps[k].geometry)
  <2>1. \A k \in 1 .. n : f[k - 1] \in Builds
    BY <1>1, <1>4
  <2>. QED
    BY <2>1
<1>6. f = [k \in 0 .. n |-> IF k = 0 THEN base ELSE WithStep(f[k - 1], steps[k].geometry)]
  <2>1. \A k \in 0 .. n : f[k] = IF k = 0 THEN base ELSE step[k][f[k - 1]]
    BY <1>4 DEF IsRun
  <2>2. \A k \in 0 .. n : f[k] = IF k = 0 THEN base ELSE WithStep(f[k - 1], steps[k].geometry)
    <3> TAKE k \in 0 .. n
    <3>1. f[k] = IF k = 0 THEN base ELSE step[k][f[k - 1]]
      BY <2>1
    <3>2. k # 0 => k \in 1 .. n
      BY <1>1
    <3>. HIDE DEF step, base, n
    <3>. QED
      BY <1>5, <3>1, <3>2
  <2>. QED
    BY <1>4, <2>2
<1>7. IsUp(f)
  BY <1>6 DEF WithStep
<1>8. IsUp(up)
  BY <1>7, Zenon
<1>9. up = [k \in 0 .. n |-> IF k = 0 THEN base ELSE WithStep(up[k - 1], steps[k].geometry)]
  BY <1>8 DEF WithStep
<1>10. up[0] = base /\ \A k \in 1 .. n : up[k] = WithStep(up[k - 1], steps[k].geometry)
  <2>. HIDE DEF up, base
  <2>1. \A k \in 0 .. n : up[k] = IF k = 0 THEN base ELSE WithStep(up[k - 1], steps[k].geometry)
    BY <1>9
  <2>. QED
    BY <1>1, <2>1
<1>11. \A k \in 0 .. n : up[k] \in Builds
  <2> DEFINE T == {k \in 0 .. n : up[k] \in Builds}
  <2>. HIDE DEF up, base
  <2>1. 0 \in T
    BY <1>1, <1>10, <1>b
  <2>2. ASSUME NEW k \in (0 + 1) .. n, k - 1 \in T PROVE k \in T
    <3>1. k \in 1 .. n /\ k \in 0 .. n /\ up[k - 1] \in Builds /\ steps[k].geometry \in Lines \ {<<>>}
      BY <1>1, <2>2
    <3>2. up[k] = WithStep(up[k - 1], steps[k].geometry)
      BY <3>1, <1>10
    <3>. QED
      BY <3>1, <3>2, WithStepFacts
  <2>3. 0 .. n \subseteq T
    <3>. HIDE DEF T, n
    <3>. QED
      BY <1>1, <2>1, <2>2, ByInduction
  <2>. QED
    BY <2>3
<1>12. up \in [0 .. n -> Builds]
  <2>. HIDE DEF up, base
  <2>. QED
    BY <1>9, <1>11
<1>13. Joined(steps) = up[n]
  BY DEF Joined
<1>. QED
  BY <1>10, <1>12, <1>13

(* The first k steps are on the line, in order.                             *)
OnLine(built, steps, k) ==
    /\ Len(built.starts) = k
    /\ \A i \in 1 .. k :
         /\ built.starts[i] \in DOMAIN built.line
         /\ built.line[built.starts[i]] = steps[i].geometry[1]
         /\ i > 1 => built.starts[i - 1] <= built.starts[i]

(* Adding a step leaves those before where they are, and the new one       *)
(* starts at or after the last of them.                                    *)
LEMMA WithStepOnLine ==
    ASSUME NEW steps, NEW k \in Nat, NEW built \in Builds, OnLine(built, steps, k),
           steps[k + 1].geometry \in Lines \ {<<>>}
    PROVE  OnLine(WithStep(built, steps[k + 1].geometry), steps, k + 1)
<1> DEFINE coords == steps[k + 1].geometry
           s == StartsAt(built.line, coords)
           line == Drawn(built.line, coords)
           starts == Append(built.starts, s)
<1>1. built.line \in Lines /\ built.starts \in Seq(Nat) /\ Len(built.starts) = k
  BY DEF Builds, OnLine
<1>2. /\ line \in Lines /\ s \in DOMAIN line /\ line[s] = coords[1] /\ Len(built.line) <= s
      /\ \A i \in 1 .. Len(built.line) : i \in DOMAIN line /\ line[i] = built.line[i]
  BY <1>1, DrawnFacts
<1>3. s \in Nat /\ Len(built.line) \in Nat /\ DOMAIN built.line = 1 .. Len(built.line)
  BY <1>1, <1>2 DEF Lines
<1>4. WithStep(built, coords).line = line /\ WithStep(built, coords).starts = starts
  BY DEF WithStep
<1>. HIDE DEF s, line
<1>5. Len(starts) = k + 1 /\ starts[k + 1] = s /\ \A i \in 1 .. k : starts[i] = built.starts[i]
  BY <1>1, <1>3
<1>. HIDE DEF starts
<1>6. ASSUME NEW i \in 1 .. k
      PROVE  /\ starts[i] \in DOMAIN line /\ line[starts[i]] = steps[i].geometry[1]
             /\ i > 1 => starts[i - 1] <= starts[i]
  <2>1. /\ built.starts[i] \in 1 .. Len(built.line)
        /\ built.line[built.starts[i]] = steps[i].geometry[1]
        /\ i > 1 => built.starts[i - 1] <= built.starts[i]
    BY <1>3 DEF OnLine
  <2>2. i > 1 => i - 1 \in 1 .. k
    OBVIOUS
  <2>. QED
    BY <2>1, <2>2, <1>2, <1>5
<1>7. starts[k + 1] \in DOMAIN line /\ line[starts[k + 1]] = coords[1]
  BY <1>2, <1>5
<1>8. k + 1 > 1 => starts[k] <= starts[k + 1]
  <2>1. k + 1 > 1 => k \in 1 .. k
    OBVIOUS
  <2>2. k + 1 > 1 => built.starts[k] \in 1 .. Len(built.line)
    BY <2>1, <1>3 DEF OnLine
  <2>. QED
    BY <2>1, <2>2, <1>2, <1>3, <1>5
<1>9. ASSUME NEW i \in 1 .. (k + 1)
      PROVE  /\ starts[i] \in DOMAIN line /\ line[starts[i]] = steps[i].geometry[1]
             /\ i > 1 => starts[i - 1] <= starts[i]
  <2>1. CASE i \in 1 .. k
    BY <2>1, <1>6
  <2>2. CASE i = k + 1
    <3>1. i - 1 = k
      BY <2>2
    <3>. QED
      BY <2>2, <3>1, <1>7, <1>8
  <2>. QED
    BY <2>1, <2>2
<1>. QED
  <2> DEFINE b == WithStep(built, coords)
  <2>1. b.line = line /\ b.starts = starts
    BY <1>4
  <2>. HIDE DEF b
  <2>2. OnLine(b, steps, k + 1)
    BY <2>1, <1>5, <1>9 DEF OnLine
  <2>. QED
    BY <2>2 DEF b

(* The steps of a route that has been joined start on the line, in order.   *)
LEMMA JoinedFits ==
    ASSUME NEW steps, AreSteps(steps)
    PROVE  Joined(steps) \in Builds /\ OnLine(Joined(steps), steps, Len(steps))
<1> DEFINE n == Len(steps)
<1>1. PICK up \in [0 .. n -> Builds] :
         /\ up[0] = [line |-> <<>>, starts |-> <<>>]
         /\ \A k \in 1 .. n : up[k] = WithStep(up[k - 1], steps[k].geometry)
         /\ Joined(steps) = up[n]
  BY JoinedStepByStep
<1>2. n \in Nat /\ \A k \in 1 .. n : steps[k].geometry \in Lines \ {<<>>}
  BY DEF AreSteps
<1> DEFINE T == {k \in 0 .. n : OnLine(up[k], steps, k)}
<1>3. 0 \in T
  <2>1. up[0].starts = <<>> /\ 1 .. 0 = {}
    BY <1>1
  <2>2. OnLine(up[0], steps, 0)
    BY <2>1 DEF OnLine
  <2>. QED
    BY <2>2, <1>2
<1>4. ASSUME NEW k \in (0 + 1) .. n, k - 1 \in T PROVE k \in T
  <2> DEFINE j == k - 1
  <2>1. j \in Nat /\ j + 1 = k /\ k \in 1 .. n /\ k \in 0 .. n /\ j \in 0 .. n
    BY <1>2
  <2>2. OnLine(up[j], steps, j) /\ up[j] \in Builds
    BY <1>1, <1>4, <2>1
  <2>3. up[k] = WithStep(up[j], steps[k].geometry) /\ steps[k].geometry \in Lines \ {<<>>}
    BY <1>1, <1>2, <2>1
  <2>. HIDE DEF j
  <2>4. OnLine(WithStep(up[j], steps[j + 1].geometry), steps, j + 1)
    BY <2>1, <2>2, <2>3, WithStepOnLine
  <2>. QED
    BY <2>1, <2>3, <2>4
<1>5. n \in T
  <2>1. 0 .. n \subseteq T
    <3>. HIDE DEF T, n
    <3>. QED
      BY <1>2, <1>3, <1>4, ByInduction
  <2>. QED
    BY <2>1, <1>2
<1>6. n \in 0 .. n
  BY <1>2
<1>. QED
  BY <1>1, <1>5, <1>6

(* The root rounded down: its square is the largest that fits.             *)
LEMMA RootFacts ==
    ASSUME NEW n \in Nat
    PROVE  Root(n) \in Nat /\ Root(n) * Root(n) <= n /\ n < (Root(n) + 1) * (Root(n) + 1)
<1> DEFINE T == {k \in Nat : n < (k + 1) * (k + 1)}
<1>1. n \in T
  <2>1. n * n >= 0
    OBVIOUS
  <2>2. (n + 1) * (n + 1) = n * n + n + n + 1
    OBVIOUS
  <2>. QED
    BY <2>1, <2>2
<1>2. PICK r \in T : \A m \in T : r <= m
  <2>1. T \in SUBSET Nat /\ T # {}
    BY <1>1
  <2>. HIDE DEF T
  <2>. QED
    BY <2>1, HasLeast
<1>3. r * r <= n
  <2>1. CASE r = 0
    BY <2>1
  <2>2. CASE r # 0
    <3>1. r - 1 \in Nat /\ r - 1 \notin T /\ (r - 1) + 1 = r
      BY <1>2, <2>2
    <3>2. ~(n < r * r)
      BY <3>1
    <3>. QED
      BY <3>2
  <2>. QED
    BY <2>1, <2>2
<1>4. r <= r * r
  <2>1. CASE r = 0
    BY <2>1
  <2>2. CASE r # 0
    <3>1. (r - 1) * r >= 0
      BY <2>2
    <3>2. (r - 1) * r = r * r - r
      OBVIOUS
    <3>. QED
      BY <3>1, <3>2
  <2>. QED
    BY <2>1, <2>2
<1>5. r \in 0 .. n
  BY <1>3, <1>4
<1>6. Root(n) \in 0 .. n /\ Root(n) * Root(n) <= n /\ n < (Root(n) + 1) * (Root(n) + 1)
  <2> DEFINE Is(q) == q * q <= n /\ n < (q + 1) * (q + 1)
  <2>1. Is(r)
    BY <1>3
  <2>2. Root(n) = CHOOSE q \in 0 .. n : Is(q)
    BY DEF Root
  <2>. HIDE DEF Is
  <2>3. Root(n) \in 0 .. n /\ Is(Root(n))
    BY <1>5, <2>1, <2>2, Zenon
  <2>. QED
    BY <2>3 DEF Is
<1>. QED
  BY <1>6

(* Numbers are ordered as their squares are.                               *)
LEMMA SquaresGrow ==
    ASSUME NEW a \in Nat, NEW b \in Nat, a * a < b * b
    PROVE  a < b
<1>1. CASE b <= a
  <2>1. b * b <= a * b /\ a * b <= a * a
    <3>1. (a - b) * b >= 0 /\ (a - b) * a >= 0
      BY <1>1
    <3>2. (a - b) * b = a * b - b * b /\ (a - b) * a = a * a - a * b
      OBVIOUS
    <3>. QED
      BY <3>1, <3>2
  <2>2. a * a \in Nat /\ b * b \in Nat /\ a * b \in Nat
    OBVIOUS
  <2>. QED
    BY <2>1, <2>2
<1>. QED
  BY <1>1

(* How far two coordinates are apart is a number, the same both ways.      *)
LEMMA ApartFacts ==
    \A a, b \in Int : Apart(a, b) \in Nat /\ Apart(a, b) = Apart(b, a) /\ (a = b <=> Apart(a, b) = 0)
BY DEF Apart

(* A distance is a number of metres, and no less than that along an axis.   *)
LEMMA DistFacts ==
    ASSUME NEW p \in Point, NEW q \in Point
    PROVE  /\ dist(p, q) \in Nat
           /\ Apart(p[1], q[1]) <= dist(p, q) /\ Apart(p[2], q[2]) <= dist(p, q)
           /\ (p[1] = q[1] \/ p[2] = q[2]) => dist(p, q) = Apart(p[1], q[1]) + Apart(p[2], q[2])
<1> DEFINE x == Apart(p[1], q[1])
           y == Apart(p[2], q[2])
<1>1. x \in Nat /\ y \in Nat /\ (p[1] = q[1] => x = 0) /\ (p[2] = q[2] => y = 0)
  BY ApartFacts DEF Point
<1>2. CASE x = 0 \/ y = 0
  <2>1. dist(p, q) = x + y
    BY <1>2 DEF dist
  <2>2. x + y \in Nat /\ x <= x + y /\ y <= x + y
    BY <1>1
  <2>. QED
    BY <2>1, <2>2
<1>3. CASE ~(x = 0 \/ y = 0)
  <2> DEFINE r == Root(x * x + y * y)
  <2>1. dist(p, q) = r
    BY <1>3 DEF dist
  <2>. HIDE DEF x, y
  <2>2. x * x \in Nat /\ y * y \in Nat
    BY <1>1
  <2>3. r \in Nat /\ x * x + y * y < (r + 1) * (r + 1)
    <3> DEFINE s == x * x + y * y
    <3>1. s \in Nat
      BY <2>2
    <3>. HIDE DEF s
    <3>2. Root(s) \in Nat /\ s < (Root(s) + 1) * (Root(s) + 1)
      BY <3>1, RootFacts
    <3>. QED
      BY <3>2 DEF s
  <2>. HIDE DEF r
  <2>4. x * x < (r + 1) * (r + 1) /\ y * y < (r + 1) * (r + 1)
    BY <2>2, <2>3
  <2>5. x < r + 1 /\ y < r + 1
    BY <1>1, <2>3, <2>4, SquaresGrow
  <2>6. x # 0 /\ y # 0
    BY <1>3
  <2>7. r \in Nat /\ x <= r /\ y <= r
    BY <1>1, <2>3, <2>5
  <2>8. p[1] # q[1] /\ p[2] # q[2]
    BY <1>1, <2>6
  <2>. QED
    BY <2>1, <2>7, <2>8 DEF x, y
<1>. QED
  BY <1>2, <1>3

(* The distance along a line.                                               *)
LEMMA CumulativeFacts ==
    ASSUME NEW line \in Lines
    PROVE  /\ Cumulative(line) \in [1 .. Len(line) -> Nat]
           /\ \A i \in 2 .. Len(line) : Cumulative(line)[i] = Cumulative(line)[i - 1] + dist(line[i - 1], line[i])
<1> DEFINE n == Len(line)
           IsUp(g) == g = [i \in 1 .. n |-> IF i = 1 THEN 0 ELSE g[i - 1] + dist(line[i - 1], line[i])]
           up == CHOOSE g : IsUp(g)
           d == [k \in 2 .. n |-> dist(line[k - 1], line[k])]
           step == [k \in 2 .. n |-> [u \in Nat |-> u + d[k]]]
<1>1. n \in Nat /\ \A k \in 1 .. n : line[k] \in Point
  BY DEF Lines
<1>d. \A k \in 2 .. n : dist(line[k - 1], line[k]) \in Nat
  <2>1. \A k \in 2 .. n : line[k - 1] \in Point /\ line[k] \in Point
    BY <1>1
  <2>. QED
    BY <2>1, DistFacts
<1>e. d \in [2 .. n -> Nat] /\ \A k \in 2 .. n : d[k] = dist(line[k - 1], line[k])
  BY <1>d
<1>. HIDE DEF d
<1>2. step \in [(1 + 1) .. n -> [Nat -> Nat]]
  BY <1>e
<1>3. \E f \in [1 .. n -> Nat] : IsRun(f, 1, n, 0, step)
  <2>. HIDE DEF step, n
  <2>. QED
    BY <1>1, <1>2, RunExists
<1>4. PICK f \in [1 .. n -> Nat] : IsRun(f, 1, n, 0, step)
  BY <1>3
<1>5. \A k \in 2 .. n : step[k][f[k - 1]] = f[k - 1] + d[k]
  <2>1. \A k \in 2 .. n : f[k - 1] \in Nat
    <3>1. \A k \in 2 .. n : k - 1 \in 1 .. n
      BY <1>1
    <3>. QED
      BY <3>1
  <2>. QED
    BY <2>1
<1>6. IsUp(f)
  <2>1. \A k \in 1 .. n : f[k] = IF k = 1 THEN 0 ELSE step[k][f[k - 1]]
    BY <1>4 DEF IsRun
  <2>2. \A k \in 1 .. n : f[k] = IF k = 1 THEN 0 ELSE f[k - 1] + dist(line[k - 1], line[k])
    <3>1. \A k \in 1 .. n : k # 1 => k \in 2 .. n
      BY <1>1
    <3>. HIDE DEF step
    <3>. QED
      BY <3>1, <1>e, <1>5, <2>1
  <2>. QED
    BY <1>4, <2>2
<1>7. IsUp(up)
  BY <1>6, Zenon
<1>8. up = [k \in 1 .. n |-> up[k]] /\ \A k \in 1 .. n : up[k] = IF k = 1 THEN 0 ELSE up[k - 1] + d[k]
  <2>. HIDE DEF up
  <2>1. up = [k \in 1 .. n |-> up[k]] /\ \A k \in 1 .. n : up[k] = IF k = 1 THEN 0 ELSE up[k - 1] + dist(line[k - 1], line[k])
    BY <1>7
  <2>2. \A k \in 1 .. n : k # 1 => k \in 2 .. n
    BY <1>1
  <2>. QED
    BY <2>1, <2>2, <1>e
<1>. HIDE DEF up
<1>9. \A k \in 1 .. n : up[k] \in Nat
  <2> DEFINE T == {k \in 1 .. n : up[k] \in Nat}
  <2>1. CASE n = 0
    BY <2>1
  <2>2. CASE n # 0
    <3>1. 1 \in T
      <4>1. 1 \in 1 .. n
        BY <1>1, <2>2
      <4>2. up[1] = 0
        BY <4>1, <1>8
      <4>. QED
        BY <4>1, <4>2
    <3>2. ASSUME NEW k \in (1 + 1) .. n, k - 1 \in T PROVE k \in T
      <4>1. k \in 1 .. n /\ k # 1 /\ k \in 2 .. n /\ up[k - 1] \in Nat
        BY <1>1, <3>2
      <4>2. up[k] = up[k - 1] + d[k] /\ d[k] \in Nat
        BY <4>1, <1>8, <1>e
      <4>. QED
        BY <4>1, <4>2
    <3>3. 1 .. n \subseteq T
      <4>. HIDE DEF T, n
      <4>. QED
        BY <1>1, <3>1, <3>2, ByInduction
    <3>. QED
      BY <3>3
  <2>. QED
    BY <2>1, <2>2
<1>10. up \in [1 .. n -> Nat]
  BY <1>8, <1>9
<1>11. \A i \in 2 .. n : up[i] = up[i - 1] + dist(line[i - 1], line[i])
  <2>1. \A i \in 2 .. n : i \in 1 .. n /\ i # 1
    BY <1>1
  <2>. QED
    BY <2>1, <1>8, <1>e
<1>12. Cumulative(line) = up
  BY DEF Cumulative, up
<1>. QED
  BY <1>10, <1>11, <1>12

(* It never decreases.                                                      *)
LEMMA CumulativeGrows ==
    ASSUME NEW line \in Lines, NEW i \in 1 .. Len(line), NEW j \in 1 .. Len(line), i <= j
    PROVE  Cumulative(line)[i] <= Cumulative(line)[j]
<1> DEFINE n == Len(line)
           c == Cumulative(line)
           T == {k \in i .. n : c[i] <= c[k]}
<1>1. /\ n \in Nat /\ c \in [1 .. n -> Nat]
      /\ \A k \in 2 .. n : c[k] = c[k - 1] + dist(line[k - 1], line[k])
  BY CumulativeFacts DEF Lines
<1>2. \A k \in 2 .. n : dist(line[k - 1], line[k]) \in Nat
  <2>1. \A k \in 2 .. n : line[k - 1] \in Point /\ line[k] \in Point
    BY <1>1 DEF Lines
  <2>. QED
    BY <2>1, DistFacts
<1>. HIDE DEF c
<1>3. i \in T
  BY <1>1
<1>4. ASSUME NEW k \in (i + 1) .. n, k - 1 \in T PROVE k \in T
  <2>1. k \in 2 .. n /\ k \in i .. n /\ k - 1 \in 1 .. n /\ c[i] <= c[k - 1]
    BY <1>1, <1>4
  <2>2. c[k] = c[k - 1] + dist(line[k - 1], line[k]) /\ dist(line[k - 1], line[k]) \in Nat
    BY <1>1, <1>2, <2>1
  <2>3. c[k - 1] \in Nat /\ c[i] \in Nat
    BY <1>1, <2>1
  <2>. QED
    BY <2>1, <2>2, <2>3
<1>5. i .. n \subseteq T
  <2>1. i \in Nat
    BY <1>1
  <2>. HIDE DEF T, n
  <2>. QED
    BY <1>1, <1>3, <1>4, <2>1, ByInduction
<1>6. j \in T
  BY <1>5, <1>1
<1>. QED
  BY <1>6 DEF c

(* The steps of a route start on its line, one after the other.             *)
LEMMA RouteStepsStartOnTheLine ==
    ASSUME NEW steps, AreSteps(steps)
    PROVE  LET built == Joined(steps)
               m == buildRouteModel(steps, Door)
           IN  \A i \in DOMAIN steps :
                   /\ built.starts[i] \in DOMAIN built.line
                   /\ built.line[built.starts[i]] = steps[i].geometry[1]
                   /\ i > 1 => m.stepStarts[i - 1] <= m.stepStarts[i]
<1> DEFINE built == Joined(steps)
           line == built.line
           m == buildRouteModel(steps, Door)
           n == Len(steps)
<1>1. n \in Nat /\ DOMAIN steps = 1 .. n /\ line \in Lines /\ OnLine(built, steps, n)
  BY JoinedFits DEF AreSteps, Builds
<1>2. Len(line) \in Nat /\ DOMAIN line = 1 .. Len(line)
  BY <1>1 DEF Lines
<1>3. m.stepStarts = [i \in DOMAIN steps |-> Cumulative(line)[Smaller(built.starts[i], Len(line))]]
  BY DEF buildRouteModel
<1>. HIDE DEF built, n, m
<1>4. ASSUME NEW i \in 1 .. n
      PROVE  /\ built.starts[i] \in 1 .. Len(line)
             /\ built.line[built.starts[i]] = steps[i].geometry[1]
             /\ i > 1 => built.starts[i - 1] <= built.starts[i]
  BY <1>1, <1>2 DEF OnLine
<1>5. \A i \in 1 .. n : m.stepStarts[i] = Cumulative(line)[built.starts[i]]
  <2>1. \A i \in 1 .. n : Smaller(built.starts[i], Len(line)) = built.starts[i]
    BY <1>2, <1>4 DEF Smaller
  <2>. QED
    BY <1>1, <1>3, <2>1
<1>6. ASSUME NEW i \in 1 .. n, i > 1 PROVE m.stepStarts[i - 1] <= m.stepStarts[i]
  <2>1. i - 1 \in 1 .. n
    BY <1>1, <1>6
  <2>2. /\ built.starts[i - 1] \in 1 .. Len(line) /\ built.starts[i] \in 1 .. Len(line)
        /\ built.starts[i - 1] <= built.starts[i]
    BY <1>4, <1>6, <2>1
  <2>3. Cumulative(line)[built.starts[i - 1]] <= Cumulative(line)[built.starts[i]]
    BY <1>1, <2>2, CumulativeGrows
  <2>. QED
    BY <2>1, <2>3, <1>5
<1>. QED
  BY <1>1, <1>2, <1>4, <1>6 DEF built, m

(* What a route's model is, as far as a fix is snapped to it.               *)
ModelOK(m) ==
    /\ Len(m.line) \in Nat /\ m.line \in Lines
    /\ \A i \in Stretches(m) :
         /\ m.cumulative[i] \in Nat
         /\ m.line[i] \in Point /\ m.line[i + 1] \in Point
         /\ m.line[i][1] = m.line[i + 1][1] \/ m.line[i][2] = m.line[i + 1][2]
    /\ Stretches(m) # {} => m.total \in Nat

(* The model built from the steps of a route is one a fix can be snapped   *)
(* to.                                                                     *)
LEMMA RoutesHaveModels ==
    ASSUME NEW steps, IsRoute(steps)
    PROVE  AreSteps(steps) /\ ModelOK(buildRouteModel(steps, Door))
<1>1. AreSteps(steps)
  BY DEF IsRoute, AreSteps, Lines
<1> DEFINE m == buildRouteModel(steps, Door)
           line == Joined(steps).line
<1>2. m.line = line /\ m.cumulative = Cumulative(line) /\ m.total = Cumulative(line)[Len(line)]
  BY DEF buildRouteModel
<1>3. line \in Lines
  BY <1>1, JoinedFits DEF Builds
<1>4. \A i \in 1 .. (Len(line) - 1) : line[i][1] = line[i + 1][1] \/ line[i][2] = line[i + 1][2]
  BY DEF IsRoute
<1>. HIDE DEF m, line
<1>5. Len(line) \in Nat /\ \A i \in 1 .. Len(line) : line[i] \in Point
  BY <1>3 DEF Lines
<1>6. Cumulative(line) \in [1 .. Len(line) -> Nat]
  BY <1>3, CumulativeFacts
<1>7. \A i \in 1 .. (Len(line) - 1) : i \in 1 .. Len(line) /\ i + 1 \in 1 .. Len(line)
  BY <1>5
<1>8. 1 .. (Len(line) - 1) # {} => Len(line) \in 1 .. Len(line)
  BY <1>5
<1>9. ModelOK(m)
  BY <1>2, <1>3, <1>4, <1>5, <1>6, <1>7, <1>8 DEF ModelOK, Stretches
<1>. QED
  BY <1>1, <1>9 DEF m

(* Clamping to a stretch moves two coordinates no further apart as seen    *)
(* from its end.                                                           *)
LEMMA ClampedFacts ==
    ASSUME NEW x \in Int, NEW y \in Int, NEW a \in Int, NEW b \in Int
    PROVE  /\ Clamped(x, a, b) \in Int
           /\ Clamped(x, a, a) = a
           /\ Apart(Apart(a, Clamped(x, a, b)), Apart(a, Clamped(y, a, b))) <= Apart(x, y)
<1>1. CASE a <= b
  BY <1>1 DEF Clamped, Larger, Smaller, Apart
<1>2. CASE b < a
  BY <1>2 DEF Clamped, Larger, Smaller, Apart
<1>. QED
  BY <1>1, <1>2

(* A fix snapped to a stretch is there, so far along and so far away.      *)
LEMMA SnapFacts ==
    ASSUME NEW m, ModelOK(m), NEW i \in Stretches(m), NEW p \in Point
    PROVE  /\ snapToSegment(m, p, i).stretch = i
           /\ snapToSegment(m, p, i).along \in Nat /\ snapToSegment(m, p, i).distance \in Nat
<1> DEFINE a == m.line[i]
           b == m.line[i + 1]
           q == <<Clamped(p[1], a[1], b[1]), Clamped(p[2], a[2], b[2])>>
<1>1. a \in Point /\ b \in Point /\ m.cumulative[i] \in Nat
  BY DEF ModelOK
<1>2. q \in Point
  <2>. HIDE DEF a, b
  <2>. QED
    BY <1>1, ClampedFacts DEF Point
<1>3. /\ snapToSegment(m, p, i).stretch = i
      /\ snapToSegment(m, p, i).along = m.cumulative[i] + dist(a, q)
      /\ snapToSegment(m, p, i).distance = dist(p, q)
  BY DEF snapToSegment
<1>. HIDE DEF a, b, q
<1>4. dist(a, q) \in Nat /\ dist(p, q) \in Nat
  BY <1>1, <1>2, DistFacts
<1>. QED
  BY <1>1, <1>3, <1>4

(* On one stretch the postman moves by no more than his fix does.           *)
LEMMA SnapsMoveLess ==
    ASSUME NEW m, ModelOK(m), NEW i \in Stretches(m), NEW p \in Point, NEW q \in Point
    PROVE  Apart(snapToSegment(m, p, i).along, snapToSegment(m, q, i).along) <= dist(p, q)
<1> DEFINE a == m.line[i]
           b == m.line[i + 1]
           at(r) == <<Clamped(r[1], a[1], b[1]), Clamped(r[2], a[2], b[2])>>
<1>1. a \in Point /\ b \in Point /\ m.cumulative[i] \in Nat /\ (a[1] = b[1] \/ a[2] = b[2])
  BY DEF ModelOK
<1>2. \A r : snapToSegment(m, r, i).along = m.cumulative[i] + dist(a, at(r))
  BY DEF snapToSegment
<1>. HIDE DEF a, b
<1>3. /\ a[1] \in Int /\ a[2] \in Int /\ b[1] \in Int /\ b[2] \in Int
      /\ p[1] \in Int /\ p[2] \in Int /\ q[1] \in Int /\ q[2] \in Int
  BY <1>1 DEF Point
<1>4. \A k \in 1 .. 2 : a[k] \in Int /\ b[k] \in Int /\ p[k] \in Int /\ q[k] \in Int
  BY <1>3
<1>5. ASSUME NEW k \in 1 .. 2, NEW j \in 1 .. 2, j # k, a[k] = b[k], NEW r \in Point
      PROVE  dist(a, at(r)) = Apart(a[j], Clamped(r[j], a[j], b[j]))
  <2>1. r[1] \in Int /\ r[2] \in Int
    BY DEF Point
  <2>2. at(r) \in Point /\ at(r)[1] = Clamped(r[1], a[1], b[1]) /\ at(r)[2] = Clamped(r[2], a[2], b[2])
    BY <1>3, <2>1, ClampedFacts DEF Point
  <2>. HIDE DEF at
  <2>3. (k = 1 /\ j = 2) \/ (k = 2 /\ j = 1)
    <3>1. k \in Int /\ j \in Int /\ 1 <= k /\ k <= 2 /\ 1 <= j /\ j <= 2 /\ j # k
      BY <1>5
    <3>. QED
      BY <3>1
  <2>4. at(r)[k] = a[k] /\ at(r)[j] = Clamped(r[j], a[j], b[j])
    <3>1. CASE k = 1 /\ j = 2
      <4>1. Clamped(r[1], a[1], a[1]) = a[1]
        BY <1>3, <2>1, ClampedFacts
      <4>. QED
        BY <3>1, <4>1, <2>2, <1>5
    <3>2. CASE k = 2 /\ j = 1
      <4>1. Clamped(r[2], a[2], a[2]) = a[2]
        BY <1>3, <2>1, ClampedFacts
      <4>. QED
        BY <3>2, <4>1, <2>2, <1>5
    <3>. QED
      BY <2>3, <3>1, <3>2
  <2>5. dist(a, at(r)) = Apart(a[1], at(r)[1]) + Apart(a[2], at(r)[2])
    <3> DEFINE s == at(r)
    <3>1. s \in Point /\ (a[1] = s[1] \/ a[2] = s[2])
      BY <2>2, <2>3, <2>4
    <3>. HIDE DEF s
    <3>2. dist(a, s) = Apart(a[1], s[1]) + Apart(a[2], s[2])
      BY <1>1, <3>1, DistFacts
    <3>. QED
      BY <3>2 DEF s
  <2>6. Apart(a[k], at(r)[k]) = 0
    BY <1>4, <2>4, ApartFacts
  <2>7. Apart(a[j], at(r)[j]) \in Nat
    <3>1. Clamped(r[j], a[j], b[j]) \in Int
      BY <1>3, <2>1, <2>3, ClampedFacts
    <3>. QED
      BY <1>4, <2>4, <3>1, ApartFacts
  <2>. QED
    BY <2>3, <2>4, <2>5, <2>6, <2>7
<1>6. ASSUME NEW k \in 1 .. 2, NEW j \in 1 .. 2, j # k, a[k] = b[k]
      PROVE  Apart(m.cumulative[i] + dist(a, at(p)), m.cumulative[i] + dist(a, at(q))) <= dist(p, q)
  <2> DEFINE x == Apart(a[j], Clamped(p[j], a[j], b[j]))
             y == Apart(a[j], Clamped(q[j], a[j], b[j]))
             c == m.cumulative[i]
  <2>1. dist(a, at(p)) = x /\ dist(a, at(q)) = y
    BY <1>5, <1>6
  <2>2. x \in Nat /\ y \in Nat /\ Apart(x, y) <= Apart(p[j], q[j])
    BY <1>4, ClampedFacts, ApartFacts
  <2>. HIDE DEF x, y, c
  <2>3. Apart(p[j], q[j]) \in Nat /\ Apart(p[j], q[j]) <= dist(p, q) /\ dist(p, q) \in Nat
    <3>1. j = 1 \/ j = 2
      OBVIOUS
    <3>2. Apart(p[1], q[1]) <= dist(p, q) /\ Apart(p[2], q[2]) <= dist(p, q) /\ dist(p, q) \in Nat
      BY DistFacts
    <3>3. Apart(p[j], q[j]) \in Nat
      BY <1>4, ApartFacts
    <3>. QED
      BY <3>1, <3>2, <3>3
  <2>4. c \in Nat
    BY <1>1 DEF c
  <2>5. Apart(c + x, c + y) = Apart(x, y)
    BY <2>2, <2>4 DEF Apart
  <2>6. Apart(x, y) \in Nat
    BY <2>2, ApartFacts
  <2>7. Apart(c + x, c + y) <= dist(p, q)
    BY <2>2, <2>3, <2>5, <2>6
  <2>. QED
    BY <2>1, <2>7 DEF c
<1>. HIDE DEF at
<1>7. Apart(m.cumulative[i] + dist(a, at(p)), m.cumulative[i] + dist(a, at(q))) <= dist(p, q)
  <2>1. CASE a[1] = b[1]
    BY <2>1, <1>6
  <2>2. CASE a[2] = b[2]
    BY <2>2, <1>6
  <2>. QED
    BY <1>1, <2>1, <2>2
<1>. QED
  BY <1>2, <1>7

(* What is known of where the postman was.                                  *)
WasAt(previous) == previous.known => previous.along \in Nat

(* The cost of a snap: four per metre off the line, and no more unless it  *)
(* jumps.                                                                  *)
LEMMA CostFacts ==
    ASSUME NEW snap, NEW previous, snap.along \in Nat, snap.distance \in Nat, WasAt(previous)
    PROVE  /\ SnapCost(snap, previous) \in Nat
           /\ 4 * snap.distance <= SnapCost(snap, previous)
           /\ previous.known /\ Apart(snap.along, previous.along) <= FREE_MOVE_M =>
                SnapCost(snap, previous) = 4 * snap.distance
           /\ previous.known /\ SnapCost(snap, previous) <= 4 * snap.distance =>
                Apart(snap.along, previous.along) <= FREE_MOVE_M
<1>1. CASE previous.known
  <2> DEFINE j == Apart(snap.along, previous.along)
  <2>1. j \in Nat
    <3> DEFINE x == snap.along
               y == previous.along
    <3>1. x \in Int /\ y \in Int
      BY <1>1 DEF WasAt
    <3>. HIDE DEF x, y
    <3>2. Apart(x, y) \in Nat
      BY <3>1, ApartFacts
    <3>. QED
      BY <3>2 DEF x, y
  <2>2. SnapCost(snap, previous) = 4 * snap.distance + Larger(0, j - 30)
    <3>1. (IF previous.known THEN Larger(0, j - FREE_MOVE_M) ELSE 0) = Larger(0, j - 30)
      BY <1>1 DEF FREE_MOVE_M
    <3>2. SnapCost(snap, previous) = 4 * snap.distance + (IF previous.known THEN Larger(0, j - FREE_MOVE_M) ELSE 0)
      BY Zenon DEF SnapCost, JUMP_METERS_PER_PENALTY
    <3>. QED
      BY <3>1, <3>2, Zenon
  <2>. HIDE DEF j
  <2>3. /\ Larger(0, j - 30) \in Nat
        /\ j <= 30 => Larger(0, j - 30) = 0
        /\ Larger(0, j - 30) <= 0 => j <= 30
    BY <2>1 DEF Larger
  <2> DEFINE l == Larger(0, j - 30)
  <2>. HIDE DEF l
  <2>4. /\ SnapCost(snap, previous) \in Nat
        /\ 4 * snap.distance <= SnapCost(snap, previous)
        /\ j <= 30 => SnapCost(snap, previous) = 4 * snap.distance
        /\ SnapCost(snap, previous) <= 4 * snap.distance => j <= 30
    <3>1. l \in Nat /\ (j <= 30 => l = 0) /\ (l <= 0 => j <= 30) /\ SnapCost(snap, previous) = 4 * snap.distance + l
      BY <2>2, <2>3 DEF l
    <3>. QED
      BY <3>1
  <2>. QED
    BY <2>4 DEF j, FREE_MOVE_M
<1>2. CASE ~previous.known
  BY <1>2 DEF SnapCost, JUMP_METERS_PER_PENALTY
<1>. QED
  BY <1>1, <1>2

(* Of a set, one whose number is least.                                     *)
LEMMA OneIsLeast ==
    ASSUME NEW S, S # {}, NEW val \in [S -> Nat]
    PROVE  \E s \in S : \A t \in S : val[s] <= val[t]
<1> DEFINE T == {val[s] : s \in S}
<1>1. T \in SUBSET Nat /\ T # {}
  OBVIOUS
<1>2. PICK n \in T : \A m \in T : n <= m
  <2>. HIDE DEF T
  <2>. QED
    BY <1>1, HasLeast
<1>. QED
  BY <1>2

(* Of the stretches about as close as the closest there is a cheapest, and *)
(* a first of those: the choice in Snapped is defined.                     *)
LEMMA CheapestExists ==
    ASSUME NEW m, ModelOK(m), NEW p \in Point, NEW previous, WasAt(previous), Stretches(m) # {}
    PROVE  LET snaps == {snapToSegment(m, p, i) : i \in Stretches(m)}
               near == {s \in snaps : \A t \in snaps : s.distance <= t.distance + AMBIGUOUS_WITHIN_M}
           IN  \E s \in near : \A t \in near :
                  /\ SnapCost(s, previous) <= SnapCost(t, previous)
                  /\ t.stretch < s.stretch => SnapCost(s, previous) < SnapCost(t, previous)
<1> DEFINE snaps == {snapToSegment(m, p, i) : i \in Stretches(m)}
           near == {s \in snaps : \A t \in snaps : s.distance <= t.distance + AMBIGUOUS_WITHIN_M}
<1>1. \A s \in snaps : s.along \in Nat /\ s.distance \in Nat /\ s.stretch \in Nat /\ SnapCost(s, previous) \in Nat
  <2>1. Stretches(m) \subseteq Nat
    BY DEF Stretches, ModelOK
  <2>2. ASSUME NEW i \in Stretches(m)
        PROVE  LET s == snapToSegment(m, p, i)
               IN  s.along \in Nat /\ s.distance \in Nat /\ s.stretch \in Nat
    BY <2>1, SnapFacts
  <2>3. \A s \in snaps : s.along \in Nat /\ s.distance \in Nat /\ s.stretch \in Nat
    BY <2>2
  <2>. HIDE DEF snaps
  <2>. QED
    BY <2>3, CostFacts
<1>2. near # {}
  <2>1. snaps # {}
    OBVIOUS
  <2> DEFINE val == [s \in snaps |-> s.distance]
  <2>2. val \in [snaps -> Nat]
    BY <1>1
  <2>3. PICK s \in snaps : \A t \in snaps : val[s] <= val[t]
    <3>. HIDE DEF snaps, val
    <3>. QED
      BY <2>1, <2>2, OneIsLeast
  <2>4. \A t \in snaps : s.distance <= t.distance + 25
    <3>. HIDE DEF snaps
    <3>. QED
      BY <2>3, <1>1
  <2>. QED
    BY <2>4 DEF AMBIGUOUS_WITHIN_M
<1> DEFINE cost == [s \in near |-> SnapCost(s, previous)]
<1>3. PICK c \in near : \A t \in near : SnapCost(c, previous) <= SnapCost(t, previous)
  <2>1. cost \in [near -> Nat]
    BY <1>1
  <2>2. PICK s \in near : \A t \in near : cost[s] <= cost[t]
    <3>. HIDE DEF near, cost
    <3>. QED
      BY <1>2, <2>1, OneIsLeast
  <2>. QED
    BY <2>2
<1> DEFINE best == {s \in near : SnapCost(s, previous) = SnapCost(c, previous)}
           number == [s \in best |-> s.stretch]
<1>4. PICK b \in best : \A t \in best : b.stretch <= t.stretch
  <2>1. best # {} /\ number \in [best -> Nat]
    BY <1>1
  <2>2. PICK s \in best : \A t \in best : number[s] <= number[t]
    <3>. HIDE DEF best, number
    <3>. QED
      BY <2>1, OneIsLeast
  <2>. QED
    BY <2>2
<1>5. ASSUME NEW t \in near
      PROVE  /\ SnapCost(b, previous) <= SnapCost(t, previous)
             /\ t.stretch < b.stretch => SnapCost(b, previous) < SnapCost(t, previous)
  <2>1. SnapCost(b, previous) = SnapCost(c, previous) /\ SnapCost(c, previous) <= SnapCost(t, previous)
    BY <1>3, <1>4
  <2>2. t.stretch < b.stretch => SnapCost(t, previous) # SnapCost(c, previous)
    <3>1. SnapCost(t, previous) = SnapCost(c, previous) => b.stretch <= t.stretch
      BY <1>4
    <3>2. t.stretch \in Nat /\ b.stretch \in Nat
      BY <1>1
    <3>. QED
      BY <3>1, <3>2
  <2>3. SnapCost(t, previous) \in Nat /\ SnapCost(c, previous) \in Nat
    BY <1>1
  <2>. HIDE DEF near, best
  <2>. QED
    BY <2>1, <2>2, <2>3
<1>6. b \in near
  OBVIOUS
<1>. HIDE DEF near
<1>7. \E s \in near : \A t \in near :
         /\ SnapCost(s, previous) <= SnapCost(t, previous)
         /\ t.stretch < s.stretch => SnapCost(s, previous) < SnapCost(t, previous)
  BY <1>5, <1>6
<1>. QED
  BY <1>7 DEF near

(* The stretch a fix is snapped to is one of the line, and costs no more   *)
(* than another that is as close.                                          *)
LEMMA SnappedFacts ==
    ASSUME NEW m, ModelOK(m), NEW p \in Point, NEW previous, WasAt(previous), Stretches(m) # {}
    PROVE  LET s == Snapped(m, p, previous)
           IN  /\ s.stretch \in Stretches(m) /\ s = snapToSegment(m, p, s.stretch)
               /\ \A i \in Stretches(m) : snapToSegment(m, p, i).distance = s.distance =>
                    SnapCost(s, previous) <= SnapCost(snapToSegment(m, p, i), previous)
<1> DEFINE snaps == {snapToSegment(m, p, i) : i \in Stretches(m)}
           near == {s \in snaps : \A t \in snaps : s.distance <= t.distance + AMBIGUOUS_WITHIN_M}
           Cheapest(s) == \A t \in near :
                  /\ SnapCost(s, previous) <= SnapCost(t, previous)
                  /\ t.stretch < s.stretch => SnapCost(s, previous) < SnapCost(t, previous)
           s == Snapped(m, p, previous)
<1>1. snaps # {}
  OBVIOUS
<1>2. s = CHOOSE r \in near : Cheapest(r)
  BY <1>1 DEF Snapped
<1>3. \E r \in near : Cheapest(r)
  BY CheapestExists
<1>4. s \in near /\ Cheapest(s)
  <2>. HIDE DEF near, Cheapest, s
  <2>. QED
    BY <1>2, <1>3, Zenon
<1>. HIDE DEF s
<1>5. PICK i \in Stretches(m) : s = snapToSegment(m, p, i)
  BY <1>4
<1>6. s.stretch = i
  BY <1>5, SnapFacts
<1>7. ASSUME NEW j \in Stretches(m), snapToSegment(m, p, j).distance = s.distance
      PROVE  SnapCost(s, previous) <= SnapCost(snapToSegment(m, p, j), previous)
  <2>1. snapToSegment(m, p, j) \in near
    BY <1>4, <1>7
  <2>. HIDE DEF near
  <2>. QED
    BY <1>4, <2>1
<1>. HIDE DEF snaps, near, Cheapest
<1>8. s.stretch \in Stretches(m) /\ s = snapToSegment(m, p, s.stretch)
  BY <1>5, <1>6
<1>. QED
  BY <1>7, <1>8 DEF s

(* Progress is where the fix is on one of the stretches.                    *)
OnStretch(m, p, g) ==
    /\ g.known
    /\ Stretches(m) # {} => g.along \in Nat /\ g.stretch \in Stretches(m)
    /\ ~g.arrived =>
         IF Stretches(m) = {} THEN g.along = 0
         ELSE g.along = snapToSegment(m, p, g.stretch).along

(* What a fix is worked out to be is progress on a stretch, whatever was   *)
(* remembered.                                                             *)
LEMMA ProgressFacts ==
    ASSUME NEW m, ModelOK(m), NEW p \in Point, NEW previous, Stretches(m) # {} => WasAt(previous)
    PROVE  OnStretch(m, p, computeProgress(m, p, previous))
<1> DEFINE s == Snapped(m, p, previous)
           g == computeProgress(m, p, previous)
<1>1. /\ g.known = TRUE /\ g.stretch = s.stretch
      /\ g.along = IF g.arrived THEN m.total ELSE s.along
  BY DEF computeProgress, ProgressAt
<1>. HIDE DEF g
<1>2. CASE Stretches(m) = {}
  <2>1. {snapToSegment(m, p, i) : i \in Stretches(m)} = {}
    BY <1>2
  <2>2. s.along = 0
    BY <2>1 DEF Snapped
  <2>. HIDE DEF s
  <2>3. OnStretch(m, p, g)
    BY <1>1, <1>2, <2>2 DEF OnStretch
  <2>. QED
    BY <2>3 DEF g
<1>3. CASE Stretches(m) # {}
  <2>1. s.stretch \in Stretches(m) /\ s = snapToSegment(m, p, s.stretch)
    BY <1>3, SnappedFacts
  <2>. HIDE DEF s
  <2>2. s.along \in Nat
    BY <2>1, SnapFacts
  <2>3. m.total \in Nat
    BY <1>3 DEF ModelOK
  <2>4. OnStretch(m, p, g)
    <3>1. g.along \in Nat
      BY <1>1, <2>2, <2>3
    <3>2. g.stretch \in Stretches(m)
      BY <1>1, <2>1
    <3>3. ~g.arrived => g.along = snapToSegment(m, p, g.stretch).along
      BY <1>1, <2>1
    <3>. QED
      BY <1>1, <1>3, <3>1, <3>2, <3>3 DEF OnStretch
  <2>. QED
    BY <2>4 DEF g
<1>. QED
  BY <1>2, <1>3

(* From one fix to one close by, the postman stays on his stretch while it *)
(* is as close as any other.                                               *)
LEMMA NoJumpOnTheRoute ==
    ASSUME NEW m, ModelOK(m), NEW p \in Point, NEW q \in Point, NEW before,
           OnStretch(m, p, before), ~before.arrived,
           ~computeProgress(m, q, before).arrived, dist(p, q) <= FREE_MOVE_M,
           snapToSegment(m, q, before.stretch).distance = computeProgress(m, q, before).off
    PROVE  Apart(before.along, computeProgress(m, q, before).along) <= FREE_MOVE_M
<1> DEFINE s == Snapped(m, q, before)
           after == computeProgress(m, q, before)
           i == before.stretch
           t == snapToSegment(m, q, i)
<1>1. after.off = s.distance /\ after.along = s.along
  BY DEF computeProgress, ProgressAt
<1>2. CASE Stretches(m) = {}
  <2>1. {snapToSegment(m, q, k) : k \in Stretches(m)} = {}
    BY <1>2
  <2>2. s.along = 0
    BY <2>1 DEF Snapped
  <2>3. before.along = 0
    BY <1>2 DEF OnStretch
  <2>. HIDE DEF s, after
  <2>4. Apart(before.along, after.along) <= FREE_MOVE_M
    BY <1>1, <2>2, <2>3 DEF Apart, FREE_MOVE_M
  <2>. QED
    BY <2>4 DEF after
<1>3. CASE Stretches(m) # {}
  <2>1. before.known /\ before.along \in Nat /\ i \in Stretches(m) /\ before.along = snapToSegment(m, p, i).along
    BY <1>3 DEF OnStretch
  <2>2. WasAt(before)
    BY <2>1 DEF WasAt
  <2>3. /\ s.stretch \in Stretches(m) /\ s = snapToSegment(m, q, s.stretch)
        /\ t.distance = s.distance => SnapCost(s, before) <= SnapCost(t, before)
    BY <1>3, <2>1, <2>2, SnappedFacts
  <2>4. t.distance = s.distance
    BY <1>1
  <2>. HIDE DEF s, after
  <2>5. s.along \in Nat /\ s.distance \in Nat /\ t.along \in Nat /\ t.distance \in Nat
    BY <2>1, <2>3, SnapFacts
  <2>6. Apart(before.along, t.along) <= dist(p, q)
    BY <2>1, SnapsMoveLess
  <2>. HIDE DEF t
  <2>7. Apart(t.along, before.along) <= FREE_MOVE_M
    <3>1. dist(p, q) \in Nat
      BY DistFacts
    <3> DEFINE x == t.along
               y == before.along
    <3>2. x \in Int /\ y \in Int
      BY <2>1, <2>5
    <3>. HIDE DEF x, y
    <3>3. Apart(x, y) = Apart(y, x) /\ Apart(y, x) \in Nat
      BY <3>2, ApartFacts
    <3>4. Apart(y, x) <= dist(p, q)
      BY <2>6 DEF x, y
    <3>5. Apart(x, y) <= FREE_MOVE_M
      BY <3>1, <3>3, <3>4 DEF FREE_MOVE_M
    <3>. QED
      BY <3>5 DEF x, y
  <2>8. SnapCost(t, before) = 4 * t.distance
    BY <2>1, <2>2, <2>5, <2>7, CostFacts
  <2>9. SnapCost(s, before) <= 4 * s.distance
    BY <2>3, <2>4, <2>8
  <2>10. Apart(s.along, before.along) <= FREE_MOVE_M
    BY <2>1, <2>2, <2>5, <2>9, CostFacts
  <2>11. Apart(before.along, after.along) <= FREE_MOVE_M
    <3> DEFINE x == s.along
               y == before.along
    <3>1. x \in Int /\ y \in Int
      BY <2>1, <2>5
    <3>. HIDE DEF x, y
    <3>2. Apart(y, x) = Apart(x, y)
      BY <3>1, ApartFacts
    <3>. QED
      BY <1>1, <3>2, <2>10 DEF x, y
  <2>. QED
    BY <2>11 DEF after
<1>. QED
  BY <1>2, <1>3

(***************************************************************************)
(* The hook.  A step works out the next state from effects that run one    *)
(* after the other; NavOK is what each of them relies on and leaves behind.*)
(***************************************************************************)

NavFields == {"mode", "fix", "recent", "noGps", "directions", "progress", "guidedBy", "failed", "rerouting",
              "arrived", "since", "off", "withoutFix", "requestedFor", "timer", "flights"}
FlightFields == {"latest", "quiet", "mode", "from", "fixed"}

(* A request for a mode there is, from a place where one may start.         *)
FlightOK(f, w) == DOMAIN f = FlightFields /\ f.mode \in Modes /\ StartOf(f) \in StartsIn(w)

Placed(n, w) ==
    /\ DOMAIN n = NavFields /\ n.mode \in Modes
    /\ n.fix.known => n.fix.at \in StartsIn(w)
    /\ n.recent.known => n.recent.at \in StartsIn(w)
    /\ \A f \in n.flights : FlightOK(f, w)
    /\ n.directions # NoDirections =>
         IsRoute(n.directions.steps) /\ n.directions.model = buildRouteModel(n.directions.steps, Door)

(* An answer that is not too late is for the mode chosen now.               *)
Modal(n) == \A f \in n.flights : f.latest /\ f.fixed => f.mode = n.mode /\ n.fix.known

Aimed(n) == n.directions # NoDirections /\ n.directions.fixed => n.directions.mode = n.mode

(* Progress is along these directions, at the last fix.                     *)
Along(n) ==
    n.directions # NoDirections /\ n.progress.known =>
        n.guidedBy = {n.directions.steps} /\ OnStretch(n.directions.model, n.fix.at, n.progress)

(* It is the progress of a fix, and no fix is waited for.                   *)
Settled(n) == n.progress.known => n.fix.known /\ ~n.withoutFix

NavOK(n, w) == Placed(n, w) /\ Modal(n) /\ Aimed(n) /\ Along(n) /\ Settled(n)

(* What a step leaves alone that only sends requests.                       *)
SendsOnly(n, k) ==
    /\ DOMAIN k = NavFields
    /\ k.mode = n.mode /\ k.fix = n.fix /\ k.recent = n.recent
    /\ k.directions = n.directions /\ k.progress = n.progress /\ k.guidedBy = n.guidedBy

(* What is in order stays so when only requests go away and nothing else   *)
(* of it changes.                                                          *)
LEMMA SameIsOK ==
    ASSUME NEW w, NEW n, NEW k, NavOK(n, w), SendsOnly(n, k), k.flights \subseteq n.flights, k.withoutFix = n.withoutFix
    PROVE  NavOK(k, w)
<1>1. Placed(k, w)
  BY DEF NavOK, Placed, SendsOnly
<1>2. Modal(k)
  BY DEF NavOK, Modal, SendsOnly
<1>3. Aimed(k) /\ Along(k) /\ Settled(k)
  BY DEF NavOK, Aimed, Along, Settled, SendsOnly
<1>. QED
  BY <1>1, <1>2, <1>3 DEF NavOK

(* A request starts where one may start.                                   *)
LEMMA StartFacts ==
    ASSUME NEW w, NEW n, n.fix.known => n.fix.at \in StartsIn(w), n.recent.known => n.recent.at \in StartsIn(w)
    PROVE  Start(n).known => Start(n).at \in StartsIn(w)
<1>1. CASE n.fix.known
  BY <1>1 DEF Start, Somewhere
<1>2. CASE ~n.fix.known
  BY <1>2 DEF Start
<1>. QED
  BY <1>1, <1>2

(* A request is for the mode and the place of now, and supersedes others.   *)
LEMMA LoadFacts ==
    ASSUME NEW w, NEW n, Placed(n, w), NEW quiet
    PROVE  LET k == Load(n, quiet)
           IN  SendsOnly(n, k) /\ Placed(k, w) /\ Modal(k) /\ (n.fix.known => ~k.withoutFix)
<1> DEFINE k == Load(n, quiet)
           new == [latest |-> TRUE, quiet |-> quiet, mode |-> n.mode, from |-> Start(n), fixed |-> n.fix.known]
           old == {[f EXCEPT !.latest = FALSE] : f \in Latest(n)}
<1>1. DOMAIN n = NavFields
  BY DEF Placed
<1>2. /\ DOMAIN k = NavFields
      /\ k.mode = n.mode /\ k.fix = n.fix /\ k.recent = n.recent
      /\ k.directions = n.directions /\ k.progress = n.progress /\ k.guidedBy = n.guidedBy
      /\ k.flights = old \cup {new} /\ k.withoutFix = ~Start(n).known
  BY <1>1 DEF Load, NavFields
<1>3. FlightOK(new, w)
  <2>1. DOMAIN new = FlightFields /\ new.mode = n.mode /\ new.from = Start(n)
    BY DEF FlightFields
  <2>2. n.mode \in Modes
    BY DEF Placed
  <2>3. StartOf(new) \in StartsIn(w)
    <3>1. Start(n).known => Start(n).at \in StartsIn(w)
      BY StartFacts DEF Placed
    <3>2. LastKnown \in StartsIn(w)
      BY DEF StartsIn
    <3>3. StartOf(new) = IF Start(n).known THEN Start(n).at ELSE LastKnown
      BY <2>1 DEF StartOf
    <3>. QED
      BY <3>1, <3>2, <3>3
  <2>. QED
    BY <2>1, <2>2, <2>3 DEF FlightOK
<1>4. ASSUME NEW f \in old PROVE FlightOK(f, w) /\ f.latest = FALSE
  <2>1. PICK g \in Latest(n) : f = [g EXCEPT !.latest = FALSE]
    OBVIOUS
  <2>2. FlightOK(g, w)
    BY DEF Placed, Latest
  <2>3. DOMAIN f = FlightFields /\ f.mode = g.mode /\ f.from = g.from /\ f.latest = FALSE
    BY <2>1, <2>2 DEF FlightOK, FlightFields
  <2>. QED
    BY <2>2, <2>3 DEF FlightOK, StartOf
<1>5. new.mode = n.mode /\ new.fixed = n.fix.known
  OBVIOUS
<1>. HIDE DEF k, new, old
<1>6. Placed(k, w)
  <2>1. \A f \in k.flights : FlightOK(f, w)
    BY <1>2, <1>3, <1>4
  <2>. QED
    BY <1>2, <2>1 DEF Placed
<1>7. Modal(k)
  BY <1>2, <1>4, <1>5 DEF Modal
<1>8. n.fix.known => ~k.withoutFix
  <2>1. n.fix.known => Start(n).known = TRUE
    BY DEF Start, Somewhere
  <2>. QED
    BY <1>2, <2>1
<1>. QED
  BY <1>2, <1>6, <1>7, <1>8 DEF SendsOnly, k

(* The effect that asks for the first directions of a mode.                 *)
LEMMA FirstLoadFacts ==
    ASSUME NEW w, NEW n, Placed(n, w)
    PROVE  LET k == FirstLoad(n)
           IN  /\ SendsOnly(n, k) /\ Placed(k, w)
               /\ n.fix.known /\ ~n.withoutFix => ~k.withoutFix
               /\ Modal(n) => Modal(k)
               /\ n.fix.known /\ n.requestedFor # n.mode => Modal(k)
<1> DEFINE k == FirstLoad(n)
<1>1. DOMAIN n = NavFields
  BY DEF Placed
<1>2. ASSUME k = [n EXCEPT !.timer = NoTimer] \/ k = [n EXCEPT !.timer = FIRST_FIX_WAIT]
      PROVE  SendsOnly(n, k) /\ Placed(k, w) /\ k.withoutFix = n.withoutFix /\ (Modal(n) => Modal(k))
  <2>1. SendsOnly(n, k) /\ k.withoutFix = n.withoutFix /\ k.flights = n.flights
    BY <1>1, <1>2 DEF SendsOnly, NavFields
  <2>. HIDE DEF k
  <2>2. Placed(k, w)
    BY <2>1 DEF Placed, SendsOnly
  <2>3. Modal(n) => Modal(k)
    BY <2>1 DEF Modal, SendsOnly
  <2>. QED
    BY <2>1, <2>2, <2>3
<1>3. ASSUME k = Load([n EXCEPT !.requestedFor = n.mode, !.timer = NoTimer], FALSE)
      PROVE  SendsOnly(n, k) /\ Placed(k, w) /\ Modal(k) /\ (n.fix.known => ~k.withoutFix)
  <2> DEFINE asks == [n EXCEPT !.requestedFor = n.mode, !.timer = NoTimer]
  <2>1. SendsOnly(n, asks) /\ asks.flights = n.flights
    BY <1>1 DEF SendsOnly, NavFields
  <2>2. k = Load(asks, FALSE)
    BY <1>3
  <2>. HIDE DEF k, asks
  <2>3. Placed(asks, w)
    BY <2>1 DEF Placed, SendsOnly
  <2>4. SendsOnly(asks, k) /\ Placed(k, w) /\ Modal(k) /\ (asks.fix.known => ~k.withoutFix)
    BY <2>2, <2>3, LoadFacts
  <2>. QED
    BY <2>1, <2>4 DEF SendsOnly
<1>4. CASE n.requestedFor = n.mode
  <2>1. k = [n EXCEPT !.timer = NoTimer]
    BY <1>4 DEF FirstLoad
  <2>. QED
    BY <1>2, <1>4, <2>1
<1>5. CASE n.requestedFor # n.mode /\ (n.fix.known \/ n.noGps \/ n.recent.known)
  <2>1. k = Load([n EXCEPT !.requestedFor = n.mode, !.timer = NoTimer], FALSE)
    BY <1>5 DEF FirstLoad
  <2>. QED
    BY <1>3, <2>1
<1>6. CASE n.requestedFor # n.mode /\ ~(n.fix.known \/ n.noGps \/ n.recent.known)
  <2>1. k = [n EXCEPT !.timer = FIRST_FIX_WAIT]
    BY <1>6 DEF FirstLoad
  <2>. QED
    BY <1>2, <1>6, <2>1
<1>. QED
  BY <1>4, <1>5, <1>6

(* What progress remembers is of these directions.                          *)
Remembers(n) ==
    n.directions # NoDirections /\ n.progress.known =>
        /\ n.guidedBy = {n.directions.steps}
        /\ Stretches(n.directions.model) # {} => n.progress.along \in Nat

(* On a fix progress moves on along the directions; the requests that may  *)
(* follow leave it alone.                                                  *)
LEMMA MovedFacts ==
    ASSUME NEW w, NEW n, Placed(n, w), Modal(n), n.fix.known, ~n.withoutFix, NEW next
    PROVE  LET k == Moved(n, next)
           IN  /\ Placed(k, w) /\ Modal(k) /\ ~k.withoutFix
               /\ k.mode = n.mode /\ k.fix = n.fix /\ k.recent = n.recent /\ k.directions = n.directions
               /\ k.progress = next /\ k.guidedBy = Guides(n)
<1> DEFINE moved == [n EXCEPT !.progress = next, !.guidedBy = Guides(n), !.arrived = @ \/ next.arrived]
           k == Moved(n, next)
<1>1. DOMAIN n = NavFields
  BY DEF Placed
<1>2. /\ DOMAIN moved = NavFields /\ moved.flights = n.flights /\ moved.withoutFix = n.withoutFix
      /\ moved.mode = n.mode /\ moved.fix = n.fix /\ moved.recent = n.recent /\ moved.directions = n.directions
      /\ moved.progress = next /\ moved.guidedBy = Guides(n)
  BY <1>1 DEF NavFields
<1>3. k = IF n.directions.source = "STRAIGHT_LINE" THEN OnStraightLine(moved, next) ELSE OnStreets(moved, next)
  BY DEF Moved
<1>. HIDE DEF moved, k
<1>4. Placed(moved, w)
  BY <1>2 DEF Placed
<1>5. Modal(moved)
  BY <1>2 DEF Modal
<1> DEFINE Fine(r) == SendsOnly(moved, r) /\ Placed(r, w) /\ Modal(r) /\ ~r.withoutFix
<1>6. Fine(moved)
  BY <1>2, <1>4, <1>5 DEF SendsOnly
<1>7. Fine(Load(moved, TRUE))
  BY <1>2, <1>4, LoadFacts
<1>8. \A o : Fine([moved EXCEPT !.off = o]) /\ Placed([moved EXCEPT !.off = o], w)
  <2> TAKE o
  <2> DEFINE r == [moved EXCEPT !.off = o]
  <2>1. SendsOnly(moved, r) /\ r.flights = moved.flights /\ r.withoutFix = moved.withoutFix
    BY <1>2 DEF SendsOnly, NavFields
  <2>. HIDE DEF r
  <2>2. Placed(r, w)
    BY <2>1, <1>4 DEF Placed, SendsOnly
  <2>3. Modal(r)
    BY <2>1, <1>5 DEF Modal, SendsOnly
  <2>. QED
    BY <1>2, <2>1, <2>2, <2>3 DEF r
<1>9. Fine(Load([moved EXCEPT !.off = 0], TRUE))
  <2> DEFINE r == [moved EXCEPT !.off = 0]
             l == Load(r, TRUE)
  <2>1. Fine(r)
    BY <1>8
  <2>. HIDE DEF r
  <2>2. SendsOnly(r, l) /\ Placed(l, w) /\ Modal(l) /\ (r.fix.known => ~l.withoutFix)
    BY <2>1, LoadFacts
  <2>. HIDE DEF l
  <2>3. r.fix.known
    BY <1>2, <2>1 DEF SendsOnly
  <2>4. SendsOnly(moved, l)
    BY <2>1, <2>2 DEF SendsOnly
  <2>. QED
    BY <2>2, <2>3, <2>4 DEF l, r
<1>10. Fine(k)
  <2>1. CASE k = OnStraightLine(moved, next)
    <3>1. k = moved \/ k = Load(moved, TRUE)
      BY <2>1 DEF OnStraightLine
    <3>. QED
      BY <3>1, <1>6, <1>7
  <2>2. CASE k = OnStreets(moved, next)
    <3>1. k = Load([moved EXCEPT !.off = 0], TRUE) \/ \E o : k = [moved EXCEPT !.off = o]
      BY <2>2 DEF OnStreets
    <3>2. CASE k = Load([moved EXCEPT !.off = 0], TRUE)
      BY <3>2, <1>9
    <3>3. CASE \E o : k = [moved EXCEPT !.off = o]
      <4>1. PICK o : k = [moved EXCEPT !.off = o]
        BY <3>3
      <4>. HIDE DEF Fine
      <4>. QED
        BY <4>1, <1>8
    <3>. QED
      BY <3>1, <3>2, <3>3
  <2>. QED
    BY <1>3, <2>1, <2>2
<1>. QED
  BY <1>2, <1>10 DEF SendsOnly, k

(* The effect of every fix and of new directions.                           *)
LEMMA FixEffectFacts ==
    ASSUME NEW w, w \in Worlds, NEW n, Placed(n, w), Modal(n), Remembers(n), Settled(n)
    PROVE  LET k == FixEffect(n)
           IN  /\ Placed(k, w) /\ Modal(k) /\ Along(k) /\ Settled(k)
               /\ k.mode = n.mode /\ k.fix = n.fix /\ k.directions = n.directions
               /\ n.directions # NoDirections /\ n.progress.known => k.progress = Guided(n)
<1> DEFINE k == FixEffect(n)
<1>1. DOMAIN n = NavFields
  BY DEF Placed
<1>2. CASE ~n.fix.known
  <2>1. k = n
    BY <1>2 DEF FixEffect
  <2>2. ~n.progress.known
    BY <1>2 DEF Settled
  <2>3. Along(n)
    BY <2>2 DEF Along
  <2>. QED
    BY <2>1, <2>2, <2>3
<1>3. CASE n.fix.known /\ n.withoutFix
  <2> DEFINE asks == [n EXCEPT !.withoutFix = FALSE]
  <2>1. SendsOnly(n, asks) /\ asks.flights = n.flights
    BY <1>1 DEF SendsOnly, NavFields
  <2>2. k = Load(asks, TRUE)
    BY <1>3 DEF FixEffect
  <2>. HIDE DEF k, asks
  <2>3. Placed(asks, w)
    BY <2>1 DEF Placed, SendsOnly
  <2>4. SendsOnly(asks, k) /\ Placed(k, w) /\ Modal(k)
    BY <2>2, <2>3, LoadFacts
  <2>5. ~n.progress.known /\ k.progress = n.progress
    BY <1>3, <2>1, <2>4 DEF Settled, SendsOnly
  <2>6. Along(k) /\ Settled(k)
    BY <2>5 DEF Along, Settled
  <2>. QED
    BY <2>1, <2>4, <2>5, <2>6 DEF SendsOnly, k
<1>4. CASE n.fix.known /\ ~n.withoutFix /\ n.directions = NoDirections
  <2>1. k = n
    BY <1>4 DEF FixEffect
  <2>2. Along(n)
    BY <1>4 DEF Along
  <2>. QED
    BY <1>4, <2>1, <2>2
<1>5. CASE n.fix.known /\ ~n.withoutFix /\ n.directions # NoDirections
  <2> DEFINE m == n.directions.model
             g == Guided(n)
  <2>1. k = Moved(n, g)
    BY <1>5 DEF FixEffect
  <2>2. g = computeProgress(m, n.fix.at, n.progress)
    BY DEF Guided
  <2>. HIDE DEF k, g
  <2>3. /\ Placed(k, w) /\ Modal(k) /\ ~k.withoutFix
        /\ k.mode = n.mode /\ k.fix = n.fix /\ k.directions = n.directions
        /\ k.progress = g /\ k.guidedBy = Guides(n)
    BY <1>5, <2>1, MovedFacts
  <2>4. IsRoute(n.directions.steps) /\ m = buildRouteModel(n.directions.steps, Door)
    BY <1>5 DEF Placed
  <2>5. ModelOK(m)
    BY <2>4, RoutesHaveModels
  <2>6. n.fix.at \in Point
    BY <1>5, NavigationAssumption DEF Placed
  <2>7. Stretches(m) # {} => WasAt(n.progress)
    BY <1>5 DEF Remembers, WasAt
  <2>8. OnStretch(m, n.fix.at, g)
    <3>. HIDE DEF m
    <3>. QED
      BY <2>2, <2>5, <2>6, <2>7, ProgressFacts
  <2>9. Guides(n) = {n.directions.steps}
    BY <1>5 DEF Guides, Remembers
  <2>10. Along(k)
    BY <2>3, <2>8, <2>9 DEF Along
  <2>11. Settled(k)
    BY <1>5, <2>3 DEF Settled
  <2>. QED
    BY <2>3, <2>10, <2>11 DEF k, g
<1>. QED
  BY <1>2, <1>3, <1>4, <1>5

(* Progress along these directions remembers nothing of others.            *)
LEMMA AlongRemembers ==
    ASSUME NEW n, Along(n)
    PROVE  Remembers(n)
BY DEF Along, Remembers, OnStretch

(* Nothing to remember, nothing to settle.                                  *)
LEMMA FreshStart ==
    ASSUME NEW n, ~n.progress.known
    PROVE  Remembers(n) /\ Settled(n) /\ Along(n)
BY DEF Remembers, Settled, Along

(* Another mode: the answer to a request from before is not shown as one   *)
(* for it, whichever effects saw the old directions.                       *)
LEMMA RestartedOK ==
    ASSUME NEW w, w \in Worlds, NEW n, NavOK(n, w), NEW mode \in Modes
    PROVE  NavOK(Restarted(n, mode), w) /\ Restarted(n, mode).fix = n.fix
<1> DEFINE reset == [n EXCEPT !.mode = mode, !.requestedFor = NoMode, !.progress = NoProgress, !.off = 0, !.arrived = FALSE]
           asked == FirstLoad(reset)
           shown == FixEffect(asked)
           k == [shown EXCEPT !.directions = NoDirections]
<1>1. Restarted(n, mode) = k
  BY DEF Restarted
<1>2. DOMAIN n = NavFields /\ Placed(n, w) /\ Modal(n)
  BY DEF NavOK, Placed
<1>3. /\ DOMAIN reset = NavFields /\ reset.mode = mode /\ reset.requestedFor = NoMode /\ reset.progress = NoProgress
      /\ reset.fix = n.fix /\ reset.recent = n.recent /\ reset.directions = n.directions /\ reset.flights = n.flights
  BY <1>2 DEF NavFields
<1>. HIDE DEF reset
<1>4. Placed(reset, w)
  BY <1>2, <1>3 DEF Placed
<1>5. reset.requestedFor # reset.mode
  BY <1>3, NavigationAssumption
<1>6. SendsOnly(reset, asked) /\ Placed(asked, w) /\ Modal(asked)
  <2>1. SendsOnly(reset, asked) /\ Placed(asked, w)
    BY <1>4, FirstLoadFacts
  <2>2. CASE reset.fix.known
    BY <2>1, <2>2, <1>4, <1>5, FirstLoadFacts
  <2>3. CASE ~reset.fix.known
    <3>1. Modal(reset)
      BY <1>2, <1>3, <2>3 DEF Modal
    <3>. QED
      BY <2>1, <3>1, <1>4, FirstLoadFacts
  <2>. QED
    BY <2>1, <2>2, <2>3
<1>. HIDE DEF asked
<1>7. ~asked.progress.known
  BY <1>3, <1>6 DEF SendsOnly, NoProgress
<1>8. Remembers(asked) /\ Settled(asked)
  BY <1>7, FreshStart
<1>9. /\ Placed(shown, w) /\ Modal(shown) /\ Settled(shown)
      /\ shown.mode = asked.mode /\ shown.fix = asked.fix
  BY <1>6, <1>8, FixEffectFacts
<1>. HIDE DEF shown
<1>10. /\ DOMAIN k = NavFields /\ k.directions = NoDirections
       /\ k.mode = shown.mode /\ k.fix = shown.fix /\ k.recent = shown.recent /\ k.progress = shown.progress
       /\ k.flights = shown.flights /\ k.withoutFix = shown.withoutFix
  BY <1>9 DEF NavFields, Placed
<1>. HIDE DEF k
<1>11. Placed(k, w)
  BY <1>9, <1>10 DEF Placed
<1>12. Modal(k)
  BY <1>9, <1>10 DEF Modal
<1>13. Aimed(k) /\ Along(k)
  BY <1>10 DEF Aimed, Along
<1>14. Settled(k)
  BY <1>9, <1>10 DEF Settled
<1>15. k.fix = n.fix
  BY <1>3, <1>6, <1>9, <1>10 DEF SendsOnly
<1>. QED
  BY <1>1, <1>11, <1>12, <1>13, <1>14, <1>15 DEF NavOK

(* New directions are shown with progress on them, not on those before.    *)
LEMMA ShownOK ==
    ASSUME NEW w, w \in Worlds, NEW n, NavOK(n, w), NEW d,
           IsRoute(d.steps), d.model = buildRouteModel(d.steps, Door), d.fixed => d.mode = n.mode
    PROVE  NavOK(Shown(n, d), w) /\ Shown(n, d).fix = n.fix
<1> DEFINE fresh == [n EXCEPT !.directions = d, !.progress = NoProgress, !.off = 0, !.failed = FALSE, !.rerouting = FALSE]
           k == FixEffect(fresh)
<1>1. Shown(n, d) = k
  BY DEF Shown
<1>2. DOMAIN n = NavFields /\ Placed(n, w) /\ Modal(n)
  BY DEF NavOK, Placed
<1>3. /\ DOMAIN fresh = NavFields /\ fresh.mode = n.mode /\ fresh.progress = NoProgress
      /\ fresh.fix = n.fix /\ fresh.recent = n.recent /\ fresh.directions = d /\ fresh.flights = n.flights
  BY <1>2 DEF NavFields
<1>. HIDE DEF fresh
<1>4. Placed(fresh, w)
  BY <1>2, <1>3 DEF Placed
<1>5. Modal(fresh)
  BY <1>2, <1>3 DEF Modal
<1>6. ~fresh.progress.known
  BY <1>3 DEF NoProgress
<1>7. /\ Placed(k, w) /\ Modal(k) /\ Along(k) /\ Settled(k)
      /\ k.mode = fresh.mode /\ k.fix = fresh.fix /\ k.directions = fresh.directions
  BY <1>4, <1>5, <1>6, FreshStart, FixEffectFacts
<1>. HIDE DEF k
<1>8. Aimed(k)
  BY <1>3, <1>7 DEF Aimed
<1>. QED
  BY <1>1, <1>3, <1>7, <1>8 DEF NavOK

(* Asking again disturbs nothing.                                          *)
LEMMA LoadOK ==
    ASSUME NEW w, NEW n, NavOK(n, w), NEW quiet
    PROVE  NavOK(Load(n, quiet), w) /\ Load(n, quiet).fix = n.fix
<1> DEFINE k == Load(n, quiet)
<1>1. SendsOnly(n, k) /\ Placed(k, w) /\ Modal(k) /\ (n.fix.known => ~k.withoutFix)
  BY LoadFacts DEF NavOK
<1>. HIDE DEF k
<1>2. Aimed(k) /\ Along(k) /\ Settled(k)
  BY <1>1 DEF NavOK, SendsOnly, Aimed, Along, Settled
<1>. QED
  BY <1>1, <1>2 DEF NavOK, SendsOnly, k

(* Nor does asking first, or waiting for a fix.                            *)
LEMMA FirstLoadOK ==
    ASSUME NEW w, NEW n, NavOK(n, w)
    PROVE  NavOK(FirstLoad(n), w) /\ FirstLoad(n).fix = n.fix
<1> DEFINE k == FirstLoad(n)
<1>1. SendsOnly(n, k) /\ Placed(k, w) /\ Modal(k) /\ (n.fix.known /\ ~n.withoutFix => ~k.withoutFix)
  BY FirstLoadFacts DEF NavOK
<1>. HIDE DEF k
<1>2. Aimed(k) /\ Along(k) /\ Settled(k)
  BY <1>1 DEF NavOK, SendsOnly, Aimed, Along, Settled
<1>. QED
  BY <1>1, <1>2 DEF NavOK, SendsOnly, k

(* A fix: no progress is known before the first one.                        *)
LEMMA FixOK ==
    ASSUME NEW w, w \in Worlds, NEW n, NavOK(n, w), NEW fix, fix.known, fix.at \in StartsIn(w)
    PROVE  LET at == [n EXCEPT !.fix = fix]
               k == FixEffect(IF n.fix.known THEN at ELSE FirstLoad(at))
           IN  /\ NavOK(k, w) /\ k.fix = fix
               /\ n.directions # NoDirections /\ n.progress.known =>
                    k.progress = computeProgress(n.directions.model, fix.at, n.progress)
<1> DEFINE at == [n EXCEPT !.fix = fix]
           x == IF n.fix.known THEN at ELSE FirstLoad(at)
           k == FixEffect(x)
<1>1. DOMAIN n = NavFields /\ Placed(n, w) /\ Modal(n) /\ Aimed(n) /\ Along(n) /\ Settled(n)
  BY DEF NavOK, Placed
<1>2. /\ DOMAIN at = NavFields /\ at.fix = fix /\ at.mode = n.mode /\ at.recent = n.recent
      /\ at.directions = n.directions /\ at.progress = n.progress /\ at.guidedBy = n.guidedBy
      /\ at.flights = n.flights /\ at.withoutFix = n.withoutFix
  BY <1>1 DEF NavFields
<1>. HIDE DEF at
<1>3. Placed(at, w)
  BY <1>1, <1>2 DEF Placed
<1>4. Modal(at)
  BY <1>1, <1>2 DEF Modal
<1>5. Remembers(at) /\ Settled(at)
  BY <1>1, <1>2, AlongRemembers DEF Remembers, Settled
<1>6. /\ Placed(x, w) /\ Modal(x) /\ Remembers(x) /\ Settled(x)
      /\ x.fix = fix /\ x.mode = n.mode /\ x.directions = n.directions /\ x.progress = n.progress
  <2>1. CASE n.fix.known
    BY <2>1, <1>2, <1>3, <1>4, <1>5
  <2>2. CASE ~n.fix.known
    <3> DEFINE l == FirstLoad(at)
    <3>1. SendsOnly(at, l) /\ Placed(l, w) /\ Modal(l)
      BY <1>3, <1>4, FirstLoadFacts
    <3>2. x = l
      BY <2>2
    <3>. HIDE DEF l, x
    <3>3. ~l.progress.known
      BY <1>1, <1>2, <2>2, <3>1 DEF Settled, SendsOnly
    <3>4. Remembers(l) /\ Settled(l)
      BY <3>3, FreshStart
    <3>. QED
      BY <1>2, <3>1, <3>2, <3>4 DEF SendsOnly
  <2>. QED
    BY <2>1, <2>2
<1>. HIDE DEF x
<1>7. /\ Placed(k, w) /\ Modal(k) /\ Along(k) /\ Settled(k)
      /\ k.mode = x.mode /\ k.fix = x.fix /\ k.directions = x.directions
      /\ x.directions # NoDirections /\ x.progress.known => k.progress = Guided(x)
  BY <1>6, FixEffectFacts
<1>8. Guided(x) = computeProgress(n.directions.model, fix.at, n.progress)
  BY <1>6 DEF Guided
<1>. HIDE DEF k
<1>9. Aimed(k)
  BY <1>1, <1>6, <1>7 DEF Aimed
<1>10. /\ NavOK(k, w) /\ k.fix = fix
       /\ n.directions # NoDirections /\ n.progress.known =>
            k.progress = computeProgress(n.directions.model, fix.at, n.progress)
  BY <1>6, <1>7, <1>8, <1>9 DEF NavOK
<1>. QED
  BY <1>10 DEF k, x, at

NavInv ==
    /\ trip \in Worlds
    /\ DOMAIN nav = NavFields /\ nav.flights = {}
    /\ NavOK(Now, trip)

(* Only a fix moves the fix, and then progress moves on from where it was.  *)
GoesAlong ==
    nav'.fix # nav.fix /\ nav.directions # NoDirections /\ nav.progress.known =>
        /\ nav'.fix.at \in Point
        /\ nav'.progress = computeProgress(nav.directions.model, nav'.fix.at, nav.progress)

(* The state with its requests is the hook's state in all the rest.        *)
LEMMA NowIsNav ==
    ASSUME DOMAIN nav = NavFields
    PROVE  /\ DOMAIN Now = NavFields /\ Now.flights = flights
           /\ Now.mode = nav.mode /\ Now.fix = nav.fix /\ Now.recent = nav.recent
           /\ Now.directions = nav.directions /\ Now.progress = nav.progress /\ Now.guidedBy = nav.guidedBy
           /\ Now.withoutFix = nav.withoutFix
BY DEF Now, NavFields

(* A step to a state that is in order.                                      *)
LEMMA ArrivesOK ==
    ASSUME NavInv, NEW x, NavOK(x, trip), flights' = x.flights, nav' = [x EXCEPT !.flights = {}], trip' = trip
    PROVE  NavInv' /\ nav'.fix = x.fix /\ nav'.progress = x.progress
<1>1. DOMAIN x = NavFields
  BY DEF NavOK, Placed
<1>2. DOMAIN nav' = NavFields /\ nav'.flights = {} /\ nav'.fix = x.fix /\ nav'.progress = x.progress
  BY <1>1 DEF NavFields
<1>3. ASSUME NEW y, y = [nav' EXCEPT !.flights = flights'] PROVE NavOK(y, trip)
  <2>1. /\ DOMAIN y = NavFields /\ y.flights = x.flights /\ y.withoutFix = x.withoutFix
        /\ y.mode = x.mode /\ y.fix = x.fix /\ y.recent = x.recent
        /\ y.directions = x.directions /\ y.progress = x.progress /\ y.guidedBy = x.guidedBy
    BY <1>1, <1>3 DEF NavFields
  <2>. QED
    BY <2>1, SameIsOK DEF SendsOnly
<1>4. NavOK([nav' EXCEPT !.flights = flights'], trip)
  BY <1>3
<1>5. NavOK(Now, trip)'
  BY <1>4 DEF Now
<1>. QED
  BY <1>2, <1>5 DEF NavInv

(* A step that leaves the fix where it is.                                  *)
LEMMA StaysOK ==
    ASSUME NavInv, NEW x, NavOK(x, trip), x.fix = nav.fix, Becomes(x)
    PROVE  NavInv' /\ GoesAlong
<1>1. flights' = x.flights /\ nav' = [x EXCEPT !.flights = {}] /\ trip' = trip
  BY DEF Becomes
<1>2. NavInv' /\ nav'.fix = x.fix
  BY <1>1, ArrivesOK
<1>. QED
  BY <1>2 DEF GoesAlong

(* useTurnByTurn: a fix.                                                   *)
LEMMA NewFixOK ==
    ASSUME NavInv, NEW p \in trip.places, NEW a, NewFix(p, a)
    PROVE  NavInv' /\ GoesAlong
<1> DEFINE fix == [known |-> TRUE, at |-> p, accuracy |-> a, tick |-> ~Now.fix.tick]
           at == [Now EXCEPT !.fix = fix]
           x == FixEffect(IF Now.fix.known THEN at ELSE FirstLoad(at))
<1>1. trip \in Worlds /\ NavOK(Now, trip) /\ DOMAIN nav = NavFields
  BY DEF NavInv
<1>2. fix.known /\ fix.at = p
  OBVIOUS
<1>3. p \in StartsIn(trip)
  BY DEF StartsIn
<1>4. Becomes(x)
  <2>1. Now.fix = nav.fix
    BY <1>1, NowIsNav
  <2>. QED
    BY <2>1 DEF NewFix
<1>. HIDE DEF fix
<1>5. /\ NavOK(x, trip) /\ x.fix = fix
      /\ Now.directions # NoDirections /\ Now.progress.known =>
           x.progress = computeProgress(Now.directions.model, fix.at, Now.progress)
  BY <1>1, <1>2, <1>3, FixOK
<1>. HIDE DEF x
<1>6. flights' = x.flights /\ nav' = [x EXCEPT !.flights = {}] /\ trip' = trip
  BY <1>4 DEF Becomes
<1>7. NavInv' /\ nav'.fix = x.fix /\ nav'.progress = x.progress
  BY <1>5, <1>6, ArrivesOK
<1>8. p \in Point
  BY <1>1, <1>3, NavigationAssumption
<1>9. Now.directions = nav.directions /\ Now.progress = nav.progress
  BY <1>1, NowIsNav
<1>10. nav'.fix = fix /\ nav'.progress = x.progress
  BY <1>5, <1>7
<1>11. GoesAlong
  BY <1>2, <1>5, <1>8, <1>9, <1>10 DEF GoesAlong
<1>. QED
  BY <1>7, <1>11

(* useTurnByTurn: the mode is changed.                                     *)
LEMMA ChangeModeOK ==
    ASSUME NavInv, NEW mode \in Modes, ChangeMode(mode)
    PROVE  NavInv' /\ GoesAlong
<1> DEFINE x == Restarted(Now, mode)
<1>1. trip \in Worlds /\ NavOK(Now, trip) /\ Now.fix = nav.fix
  BY NowIsNav DEF NavInv
<1>2. NavOK(x, trip) /\ x.fix = nav.fix
  BY <1>1, RestartedOK
<1>3. Becomes(x)
  BY DEF ChangeMode
<1>. HIDE DEF x
<1>. QED
  BY <1>2, <1>3, StaysOK

(* A state in which nothing changed that matters to the directions.         *)
LEMMA LikeNow ==
    ASSUME NavInv, NEW x, SendsOnly(Now, x), x.flights \subseteq flights, x.withoutFix = Now.withoutFix
    PROVE  NavOK(x, trip) /\ x.fix = nav.fix
<1>1. NavOK(Now, trip) /\ Now.flights = flights /\ Now.fix = nav.fix
  BY NowIsNav DEF NavInv
<1>2. NavOK(x, trip)
  BY <1>1, SameIsOK
<1>. QED
  BY <1>1, <1>2 DEF SendsOnly

(* GPS is switched or permitted.                                           *)
LEMMA ToggleGpsOK ==
    ASSUME NavInv, ToggleGps
    PROVE  NavInv' /\ GoesAlong
<1> DEFINE n == [Now EXCEPT !.noGps = ~@]
           x == FirstLoad(n)
<1>1. DOMAIN Now = NavFields /\ Now.flights = flights
  BY NowIsNav DEF NavInv
<1>2. SendsOnly(Now, n) /\ n.flights \subseteq flights /\ n.withoutFix = Now.withoutFix
  BY <1>1 DEF SendsOnly, NavFields
<1>3. Becomes(x)
  BY DEF ToggleGps
<1>. HIDE DEF n
<1>4. NavOK(n, trip) /\ n.fix = nav.fix
  BY <1>2, LikeNow
<1>5. NavOK(x, trip) /\ x.fix = nav.fix
  BY <1>4, FirstLoadOK
<1>. HIDE DEF x
<1>. QED
  BY <1>3, <1>5, StaysOK

(* The fix of another screen gets too old.                                 *)
LEMMA RecentExpiresOK ==
    ASSUME NavInv, RecentExpires
    PROVE  NavInv' /\ GoesAlong
<1> DEFINE x == [Now EXCEPT !.recent = Unknown]
<1>1. DOMAIN Now = NavFields /\ NavOK(Now, trip) /\ Now.fix = nav.fix
  BY NowIsNav DEF NavInv
<1>2. /\ DOMAIN x = NavFields /\ x.recent = Unknown /\ x.flights = Now.flights
      /\ x.mode = Now.mode /\ x.fix = Now.fix /\ x.directions = Now.directions
      /\ x.progress = Now.progress /\ x.guidedBy = Now.guidedBy /\ x.withoutFix = Now.withoutFix
  BY <1>1 DEF NavFields
<1>3. Becomes(x)
  BY DEF RecentExpires
<1>. HIDE DEF x
<1>4. ~x.recent.known
  BY <1>2 DEF Unknown
<1>5. Placed(x, trip)
  BY <1>1, <1>2, <1>4 DEF NavOK, Placed
<1>6. Modal(x) /\ Aimed(x) /\ Along(x) /\ Settled(x)
  BY <1>1, <1>2 DEF NavOK, Modal, Aimed, Along, Settled
<1>7. NavOK(x, trip) /\ x.fix = nav.fix
  BY <1>1, <1>2, <1>5, <1>6 DEF NavOK
<1>. QED
  BY <1>3, <1>7, StaysOK

(* An answered request is gone, and nothing else has changed yet.          *)
LEMMA WithoutFacts ==
    ASSUME NavInv, NEW f \in flights
    PROVE  /\ SendsOnly(Now, Without(f)) /\ Without(f).flights \subseteq flights
           /\ Without(f).withoutFix = Now.withoutFix
<1>1. DOMAIN Now = NavFields
  BY NowIsNav DEF NavInv
<1>. QED
  BY <1>1 DEF Without, SendsOnly, NavFields

(* What the server answers is a route, in the mode that was asked for.      *)
LEMMA AnswersAreRoutes ==
    ASSUME trip \in Worlds, NEW f, FlightOK(f, trip), NEW d \in getDirections(f)
    PROVE  /\ IsRoute(d.steps) /\ d.model = buildRouteModel(d.steps, Door)
           /\ d.mode = f.mode /\ d.fixed = f.fixed
<1> DEFINE from == StartOf(f)
           Directions(source, steps) ==
             [source |-> source, mode |-> f.mode, steps |-> steps, fixed |-> f.fixed,
              model |-> buildRouteModel(steps, Door)]
           road == Directions("ROAD", Streets[f.mode][from])
           line == Directions("STRAIGHT_LINE", straightLine(from))
<1>1. f.mode \in Modes /\ from \in StartsIn(trip)
  BY DEF FlightOK
<1>2. /\ trip.engine \in {"up", "shaky", "none"}
      /\ trip.engine # "none" => IsRoute(Streets[f.mode][from])
      /\ trip.engine # "up" => IsRoute(straightLine(from))
  BY <1>1, NavigationAssumption
<1>3. getDirections(f) = CASE trip.engine = "up" -> {road} [] trip.engine = "shaky" -> {road, line}
                           [] trip.engine = "none" -> {line}
  BY DEF getDirections
<1>4. (d = road /\ trip.engine # "none") \/ (d = line /\ trip.engine # "up")
  <2>. HIDE DEF road, line
  <2>. QED
    BY <1>2, <1>3
<1>5. CASE d = road /\ trip.engine # "none"
  BY <1>2, <1>5
<1>6. CASE d = line /\ trip.engine # "up"
  BY <1>2, <1>6
<1>. QED
  BY <1>4, <1>5, <1>6

(* An answer: shown when its request is the latest, dropped otherwise.     *)
LEMMA AnsweredOK ==
    ASSUME NavInv, NEW f \in flights, Answered(f)
    PROVE  NavInv' /\ GoesAlong
<1> DEFINE n == Without(f)
<1>1. NavOK(n, trip) /\ n.fix = nav.fix /\ n.mode = Now.mode
  BY WithoutFacts, LikeNow DEF SendsOnly
<1>2. CASE Superseded(f)
  <2>1. Becomes(n)
    BY <1>2 DEF Answered
  <2>. HIDE DEF n
  <2>. QED
    BY <1>1, <2>1, StaysOK
<1>3. CASE ~Superseded(f)
  <2>1. PICK d \in getDirections(f) : Becomes(Shown(n, d))
    BY <1>3 DEF Answered
  <2>2. trip \in Worlds /\ FlightOK(f, trip) /\ Modal(Now) /\ Now.flights = flights
    BY NowIsNav DEF NavInv, NavOK, Placed
  <2>3. /\ IsRoute(d.steps) /\ d.model = buildRouteModel(d.steps, Door)
        /\ d.mode = f.mode /\ d.fixed = f.fixed
    BY <2>2, AnswersAreRoutes
  <2>4. f.latest /\ f.fixed => f.mode = Now.mode
    BY <2>2 DEF Modal
  <2>5. d.fixed => d.mode = n.mode
    BY <1>1, <1>3, <2>3, <2>4 DEF Superseded
  <2>. HIDE DEF n
  <2>6. NavOK(Shown(n, d), trip) /\ Shown(n, d).fix = n.fix
    BY <1>1, <2>2, <2>3, <2>5, ShownOK
  <2> DEFINE x == Shown(n, d)
  <2>7. NavOK(x, trip) /\ x.fix = nav.fix /\ Becomes(x)
    BY <1>1, <2>1, <2>6
  <2>. HIDE DEF x
  <2>. QED
    BY <2>7, StaysOK
<1>. QED
  BY <1>2, <1>3

(* A request that failed.                                                  *)
LEMMA RefusedOK ==
    ASSUME NavInv, NEW f \in flights, Refused(f)
    PROVE  NavInv' /\ GoesAlong
<1> DEFINE n == Without(f)
           r == [n EXCEPT !.rerouting = FALSE, !.failed = @ \/ ~f.quiet]
           x == IF Superseded(f) THEN n ELSE r
<1>1. SendsOnly(Now, n) /\ n.flights \subseteq flights /\ n.withoutFix = Now.withoutFix
  BY WithoutFacts
<1>2. Becomes(x)
  BY DEF Refused
<1>. HIDE DEF n
<1>3. SendsOnly(Now, r) /\ r.flights \subseteq flights /\ r.withoutFix = Now.withoutFix
  BY <1>1 DEF SendsOnly, NavFields
<1>4. SendsOnly(Now, x) /\ x.flights \subseteq flights /\ x.withoutFix = Now.withoutFix
  BY <1>1, <1>3
<1>. HIDE DEF x
<1>. QED
  BY <1>2, <1>4, LikeNow, StaysOK

(* Try again.                                                              *)
LEMMA RetryOK ==
    ASSUME NavInv, Retry
    PROVE  NavInv' /\ GoesAlong
<1> DEFINE x == Load(Now, FALSE)
<1>1. NavOK(Now, trip) /\ Now.fix = nav.fix
  BY NowIsNav DEF NavInv
<1>2. NavOK(x, trip) /\ x.fix = nav.fix
  BY <1>1, LoadOK
<1>3. Becomes(x)
  BY DEF Retry
<1>. HIDE DEF x
<1>. QED
  BY <1>2, <1>3, StaysOK

(* The arrival is dismissed.                                               *)
LEMMA DismissArrivalOK ==
    ASSUME NavInv, DismissArrival
    PROVE  NavInv' /\ GoesAlong
<1> DEFINE x == [Now EXCEPT !.arrived = FALSE]
<1>1. DOMAIN Now = NavFields /\ Now.flights = flights
  BY NowIsNav DEF NavInv
<1>2. SendsOnly(Now, x) /\ x.flights \subseteq flights /\ x.withoutFix = Now.withoutFix
  BY <1>1 DEF SendsOnly, NavFields
<1>3. Becomes(x)
  BY DEF DismissArrival
<1>. HIDE DEF x
<1>. QED
  BY <1>2, <1>3, LikeNow, StaysOK

(* Time passes.                                                            *)
LEMMA TickOK ==
    ASSUME NavInv, Tick
    PROVE  NavInv' /\ GoesAlong
<1> DEFINE n == [Now EXCEPT !.since = Smaller(@ + 1, STRAIGHT_LINE_RETRY + 1)]
           calm == [n EXCEPT !.timer = NoTimer]
           asks == [n EXCEPT !.requestedFor = n.mode, !.timer = NoTimer]
           x == IF n.timer = NoTimer THEN n ELSE IF n.requestedFor = n.mode THEN calm ELSE Load(asks, FALSE)
<1>1. DOMAIN Now = NavFields /\ Now.flights = flights
  BY NowIsNav DEF NavInv
<1>2. SendsOnly(Now, n) /\ n.flights \subseteq flights /\ n.withoutFix = Now.withoutFix
  BY <1>1 DEF SendsOnly, NavFields
<1>3. Becomes(x)
  BY DEF Tick
<1>. HIDE DEF n
<1>4. SendsOnly(Now, calm) /\ calm.flights \subseteq flights /\ calm.withoutFix = Now.withoutFix
  BY <1>2 DEF SendsOnly, NavFields
<1>5. SendsOnly(Now, asks) /\ asks.flights \subseteq flights /\ asks.withoutFix = Now.withoutFix
  BY <1>2 DEF SendsOnly, NavFields
<1>. HIDE DEF calm, asks
<1>6. /\ NavOK(n, trip) /\ n.fix = nav.fix
      /\ NavOK(calm, trip) /\ calm.fix = nav.fix
      /\ NavOK(asks, trip) /\ asks.fix = nav.fix
  BY <1>2, <1>4, <1>5, LikeNow
<1>7. NavOK(Load(asks, FALSE), trip) /\ Load(asks, FALSE).fix = nav.fix
  BY <1>6, LoadOK
<1>8. NavOK(x, trip) /\ x.fix = nav.fix
  BY <1>6, <1>7
<1>. HIDE DEF x
<1>. QED
  BY <1>3, <1>8, StaysOK

(* The screen opens in order, in every world.                              *)
LEMMA NavInitOK == NavInit => NavInv
<1> SUFFICES ASSUME NEW w \in Worlds, InitIn(w) PROVE NavInv
  BY DEF NavInit
<1> DEFINE z == [mode |-> trip.mode, fix |-> NoFix, recent |-> trip.recent, noGps |-> trip.noGps,
                 directions |-> NoDirections, progress |-> NoProgress, guidedBy |-> {},
                 failed |-> FALSE, rerouting |-> FALSE, arrived |-> FALSE, since |-> 0, off |-> 0,
                 withoutFix |-> FALSE, requestedFor |-> NoMode, timer |-> NoTimer, flights |-> {}]
           n == FirstLoad(z)
<1>1. trip = w /\ flights = n.flights /\ nav = [n EXCEPT !.flights = {}]
  BY DEF InitIn
<1>2. /\ DOMAIN z = NavFields /\ z.mode = w.mode /\ z.fix = NoFix /\ z.recent = w.recent
      /\ z.directions = NoDirections /\ z.progress = NoProgress /\ z.flights = {}
  BY <1>1 DEF NavFields
<1>. HIDE DEF z
<1>3. NavOK(z, w)
  <2>1. w.mode \in Modes /\ (w.recent.known => w.recent.at \in StartsIn(w))
    BY NavigationAssumption DEF StartsIn
  <2>2. ~z.fix.known /\ ~z.progress.known
    BY <1>2 DEF NoFix, NoProgress
  <2>3. Placed(z, w)
    BY <1>2, <2>1, <2>2 DEF Placed
  <2>4. Modal(z) /\ Aimed(z) /\ Along(z) /\ Settled(z)
    BY <1>2, <2>2 DEF Modal, Aimed, Along, Settled
  <2>. QED
    BY <2>3, <2>4 DEF NavOK
<1>4. NavOK(n, w)
  BY <1>3, FirstLoadOK
<1>. HIDE DEF n
<1>5. DOMAIN n = NavFields
  BY <1>4 DEF NavOK, Placed
<1>6. DOMAIN nav = NavFields /\ nav.flights = {}
  BY <1>1, <1>5 DEF NavFields
<1>7. SendsOnly(n, Now) /\ Now.flights = n.flights /\ Now.withoutFix = n.withoutFix
  BY <1>1, <1>5 DEF Now, NavFields, SendsOnly
<1>8. NavOK(Now, w)
  BY <1>4, <1>7, SameIsOK
<1>. QED
  BY <1>1, <1>6, <1>8 DEF NavInv

(* Every step keeps the invariant, and moves progress only along the       *)
(* directions.                                                             *)
LEMMA NavNextOK == NavInv /\ [NavNext]_navVars => NavInv' /\ GoesAlong
<1> SUFFICES ASSUME NavInv, [NavNext]_navVars PROVE NavInv' /\ GoesAlong
  OBVIOUS
<1>1. CASE \E p \in trip.places, a \in trip.accuracies : NewFix(p, a)
  BY <1>1, NewFixOK
<1>2. CASE \E mode \in Modes : ChangeMode(mode)
  BY <1>2, ChangeModeOK
<1>3. CASE ToggleGps
  BY <1>3, ToggleGpsOK
<1>4. CASE RecentExpires
  BY <1>4, RecentExpiresOK
<1>5. CASE \E f \in flights : Answered(f)
  BY <1>5, AnsweredOK
<1>6. CASE \E f \in flights : Refused(f)
  BY <1>6, RefusedOK
<1>7. CASE Retry
  BY <1>7, RetryOK
<1>8. CASE DismissArrival
  BY <1>8, DismissArrivalOK
<1>9. CASE Tick
  BY <1>9, TickOK
<1>10. CASE UNCHANGED navVars
  <2>1. trip' = trip /\ nav' = nav /\ flights' = flights
    BY <1>10 DEF navVars
  <2>2. NavInv'
    BY <2>1 DEF NavInv, Now
  <2>. QED
    BY <2>1, <2>2 DEF GoesAlong
<1>. QED
  BY <1>1, <1>2, <1>3, <1>4, <1>5, <1>6, <1>7, <1>8, <1>9, <1>10 DEF NavNext

(* The invariant is about the very directions that are shown.              *)
LEMMA InvariantFits == NavInv => DirectionsFit
<1> SUFFICES ASSUME NavInv PROVE DirectionsFit
  OBVIOUS
<1>1. /\ Placed(Now, trip) /\ Aimed(Now) /\ Along(Now)
      /\ Now.mode = nav.mode /\ Now.directions = nav.directions
      /\ Now.progress = nav.progress /\ Now.guidedBy = nav.guidedBy
  BY NowIsNav DEF NavInv, NavOK
<1>2. FixedDirectionsFitMode
  BY <1>1 DEF Aimed, FixedDirectionsFitMode
<1>3. ProgressFitsDirections
  BY <1>1 DEF Along, ProgressFitsDirections
<1>4. StepsStartOnTheLine
  <2>1. SUFFICES ASSUME nav.directions # NoDirections PROVE StepsStartOnTheLine
    BY DEF StepsStartOnTheLine
  <2>2. IsRoute(nav.directions.steps) /\ nav.directions.model = buildRouteModel(nav.directions.steps, Door)
    BY <1>1, <2>1 DEF Placed
  <2>3. AreSteps(nav.directions.steps)
    BY <2>2, RoutesHaveModels
  <2>. QED
    BY <2>2, <2>3, RouteStepsStartOnTheLine DEF StepsStartOnTheLine
<1>. QED
  BY <1>2, <1>3, <1>4 DEF DirectionsFit

(* The hook's state is in order at every commit, in every world and for    *)
(* any number of requests, fixes and changes of mode.                      *)
THEOREM GuidanceInvariant == Guidance => []NavInv
<1>1. NavInit => NavInv
  BY NavInitOK
<1>2. NavInv /\ [NavNext]_navVars => NavInv'
  BY NavNextOK
<1>. QED
  BY <1>1, <1>2, PTL DEF Guidance

(* DirectionsFit: directions asked for at a fix are for the mode chosen    *)
(* now, progress is along them and no others, and each of their steps      *)
(* starts at its vertex of the line, in order (useTurnByTurn,              *)
(* buildRouteModel).                                                       *)
THEOREM DirectionsAlwaysFit == Guidance => []DirectionsFit
BY GuidanceInvariant, InvariantFits, PTL

(* A fix close to the last one: its old stretch, being as close as any     *)
(* other, costs no more than its distance, so what is chosen instead is no *)
(* jump.                                                                   *)
LEMMA AFixStaysPut ==
    ASSUME NavInv, GoesAlong
    PROVE  StaysPut
<1> DEFINE before == nav.progress
           after == nav'.progress
           m == nav.directions.model
<1> SUFFICES ASSUME nav.directions # NoDirections, nav'.fix # nav.fix, before.known, ~before.arrived, ~after.arrived,
                    dist(nav.fix.at, nav'.fix.at) <= FREE_MOVE_M,
                    snapToSegment(m, nav'.fix.at, before.stretch).distance = after.off
             PROVE  Apart(before.along, after.along) <= FREE_MOVE_M
  BY DEF StaysPut
<1>1. nav'.fix.at \in Point /\ after = computeProgress(m, nav'.fix.at, before)
  BY DEF GoesAlong
<1>2. Placed(Now, trip) /\ Along(Now) /\ Settled(Now) /\ trip \in Worlds
  BY DEF NavInv, NavOK
<1>3. Now.fix = nav.fix /\ Now.directions = nav.directions /\ Now.progress = nav.progress
  BY NowIsNav DEF NavInv
<1>4. nav.fix.at \in Point
  BY <1>2, <1>3, NavigationAssumption DEF Placed, Settled
<1>5. OnStretch(m, nav.fix.at, before)
  BY <1>2, <1>3 DEF Along
<1>6. ModelOK(m)
  <2>1. IsRoute(nav.directions.steps) /\ m = buildRouteModel(nav.directions.steps, Door)
    BY <1>2, <1>3 DEF Placed
  <2>. QED
    BY <2>1, RoutesHaveModels
<1> DEFINE q == nav'.fix.at
<1>7. \A p, r \in Point : \A b : OnStretch(m, p, b) /\ ~b.arrived /\ ~computeProgress(m, r, b).arrived
          /\ dist(p, r) <= FREE_MOVE_M /\ snapToSegment(m, r, b.stretch).distance = computeProgress(m, r, b).off
          => Apart(b.along, computeProgress(m, r, b).along) <= FREE_MOVE_M
  BY <1>6, NoJumpOnTheRoute
<1>. HIDE DEF before, m, q
<1>8. \A r : r = nav'.fix.at /\ after = computeProgress(m, r, before)
          => Apart(before.along, computeProgress(m, r, before).along) <= FREE_MOVE_M
  BY <1>1, <1>4, <1>5, <1>7 DEF before, m
<1>. QED
  BY <1>1, <1>8

(* StaysOnItsStretch: on any route along the axes, also one that passes    *)
(* the same place twice, a postman who moved by FREE_MOVE_M at most does   *)
(* not jump to another stretch that is no closer (computeProgress).        *)
THEOREM GuidanceStaysOnItsStretch == Guidance => StaysOnItsStretch
<1>1. NavInv /\ [NavNext]_navVars => [StaysPut]_navVars
  BY NavNextOK, AFixStaysPut
<1>. QED
  BY <1>1, GuidanceInvariant, PTL DEF Guidance, StaysOnItsStretch, StaysPut

(***************************************************************************)
(* The geocoder, and the places deliveries teach.                          *)
(***************************************************************************)

-----------------------------------------------------------------------------
(* What a step does to one call *)

JobFields == {"step", "parcel", "via", "tier", "attempt", "wait", "answer"}

(* A call at rest has nothing to wait for.                                 *)
CallOK(r) ==
    /\ DOMAIN r = JobFields
    /\ r.attempt \in Nat /\ r.wait \in Nat
    /\ r.step # "free" => r.parcel \in Parcels
    /\ r.step \notin {"pausing", "backoff"} => r.wait = 0
    /\ IsHonest(r.answer)

(* Whatever is in a cache was found.                                       *)
Entry(a) == IsHonest(a) /\ (a = NoAnswer \/ a.status = "SUCCESS")

CacheOK ==
    /\ DOMAIN memory = {CacheKey[p] : p \in Parcels}
    /\ \A c \in DOMAIN memory : Entry(memory[c])

Served ==
    /\ situation \in Situations
    /\ DOMAIN job = Jobs /\ \A j \in Jobs : CallOK(job[j])
    /\ DOMAIN row = Parcels /\ \A p \in Parcels : IsHonest(row[p])
    /\ CacheOK
    /\ since \in 0..Gap /\ DOMAIN sinceOwn = Jobs /\ \A j \in Jobs : sinceOwn[j] \in 0..Gap

(* The one call that changes, and how.                                     *)
OnlyCall(j) == DOMAIN job' = Jobs /\ \A k \in Jobs \ {j} : job'[k] = job[k]
BecomesCall(j, step, attempt, wait, answer) ==
    /\ OnlyCall(j)
    /\ DOMAIN job'[j] = JobFields
    /\ job'[j].parcel = job[j].parcel
    /\ job'[j].step = step
    /\ job'[j].attempt = attempt
    /\ job'[j].wait = wait
    /\ job'[j].answer = answer
MovesOn(j, step) == BecomesCall(j, step, job[j].attempt, job[j].wait, job[j].answer)
AnswersWith(j, answer) == BecomesCall(j, "write", job[j].attempt, job[j].wait, answer)
AsksAtOnce(j) ==
    /\ since >= Gap
    /\ \E attempt \in Nat : BecomesCall(j, "asked", attempt, job[j].wait, job[j].answer)
    /\ since' = 0 /\ sinceOwn' = [sinceOwn EXCEPT ![j] = 0]
AsksLater(j) ==
    /\ since < Gap
    /\ \E attempt \in Nat : BecomesCall(j, "pausing", attempt, Gap - since, job[j].answer)
    /\ UNCHANGED <<since, sinceOwn>>

LEMMA GoesDoes ==
    ASSUME Served, NEW j \in Jobs, NEW step, Goes(j, step)
    PROVE  MovesOn(j, step)
<1> DEFINE n == [job[j] EXCEPT !.step = step]
<1>1. DOMAIN job[j] = JobFields /\ DOMAIN job = Jobs
  BY DEF Served, CallOK
<1>2. /\ DOMAIN n = JobFields /\ n.parcel = job[j].parcel /\ n.step = step
      /\ n.attempt = job[j].attempt /\ n.wait = job[j].wait /\ n.answer = job[j].answer
  BY <1>1 DEF JobFields
<1>3. job' = [job EXCEPT ![j] = n]
  BY DEF Goes
<1>. HIDE DEF n
<1>. QED
  BY <1>1, <1>2, <1>3 DEF MovesOn, BecomesCall, OnlyCall

LEMMA AnswersDoes ==
    ASSUME Served, NEW j \in Jobs, NEW answer, Answers(j, answer)
    PROVE  AnswersWith(j, answer)
<1> DEFINE n == [job[j] EXCEPT !.step = "write", !.answer = answer]
<1>1. DOMAIN job[j] = JobFields /\ DOMAIN job = Jobs
  BY DEF Served, CallOK
<1>2. /\ DOMAIN n = JobFields /\ n.parcel = job[j].parcel /\ n.step = "write"
      /\ n.attempt = job[j].attempt /\ n.wait = job[j].wait /\ n.answer = answer
  BY <1>1 DEF JobFields
<1>3. job' = [job EXCEPT ![j] = n]
  BY <1>1 DEF Answers
<1>. HIDE DEF n
<1>. QED
  BY <1>1, <1>2, <1>3 DEF AnswersWith, BecomesCall, OnlyCall

LEMMA ThrottledDoes ==
    ASSUME Served, NEW j \in Jobs, NEW tier, NEW attempt \in Nat, Throttled(j, tier, attempt)
    PROVE  AsksAtOnce(j) \/ AsksLater(j)
<1> DEFINE asking == [job[j] EXCEPT !.tier = tier, !.attempt = attempt]
           asked == [asking EXCEPT !.step = "asked"]
           pausing == [asking EXCEPT !.step = "pausing", !.wait = Gap - since]
<1>1. DOMAIN job[j] = JobFields /\ DOMAIN job = Jobs
  BY DEF Served, CallOK
<1>2. /\ DOMAIN asked = JobFields /\ asked.parcel = job[j].parcel /\ asked.step = "asked"
      /\ asked.attempt = attempt /\ asked.wait = job[j].wait /\ asked.answer = job[j].answer
  BY <1>1 DEF JobFields
<1>3. /\ DOMAIN pausing = JobFields /\ pausing.parcel = job[j].parcel
      /\ pausing.step = "pausing" /\ pausing.attempt = attempt
      /\ pausing.wait = Gap - since /\ pausing.answer = job[j].answer
  BY <1>1 DEF JobFields
<1>4. \/ /\ since >= Gap /\ job' = [job EXCEPT ![j] = asked]
         /\ since' = 0 /\ sinceOwn' = [sinceOwn EXCEPT ![j] = 0]
      \/ /\ ~(since >= Gap) /\ job' = [job EXCEPT ![j] = pausing] /\ UNCHANGED <<since, sinceOwn>>
  BY DEF Throttled
<1>. HIDE DEF asking, asked, pausing
<1>5. CASE since >= Gap
  <2>1. BecomesCall(j, "asked", attempt, job[j].wait, job[j].answer)
    BY <1>1, <1>2, <1>4, <1>5 DEF BecomesCall, OnlyCall
  <2>. QED
    BY <1>4, <1>5, <2>1 DEF AsksAtOnce
<1>6. CASE ~(since >= Gap)
  <2>1. BecomesCall(j, "pausing", attempt, Gap - since, job[j].answer)
    BY <1>1, <1>3, <1>4, <1>6 DEF BecomesCall, OnlyCall
  <2>2. since < Gap
    BY <1>6, GeocodingAssumption DEF Served
  <2>. QED
    BY <1>4, <1>6, <2>1, <2>2 DEF AsksLater
<1>. QED
  BY <1>5, <1>6

LEMMA LimitedDoes ==
    ASSUME Served, NEW j \in Jobs, Limited(j)
    PROVE  \E wait \in Nat : BecomesCall(j, "backoff", job[j].attempt, wait, job[j].answer)
<1> DEFINE wait == Backoff * job[j].attempt
           n == [job[j] EXCEPT !.step = "backoff", !.wait = wait]
<1>1. DOMAIN job[j] = JobFields /\ DOMAIN job = Jobs /\ job[j].attempt \in Nat
  BY DEF Served, CallOK
<1>2. wait \in Nat
  BY <1>1, GeocodingAssumption
<1>3. job' = [job EXCEPT ![j] = n]
  BY <1>1 DEF Limited
<1>. HIDE DEF wait
<1>4. /\ DOMAIN n = JobFields /\ n.parcel = job[j].parcel /\ n.step = "backoff"
      /\ n.attempt = job[j].attempt /\ n.wait = wait /\ n.answer = job[j].answer
  BY <1>1 DEF JobFields
<1>. HIDE DEF n
<1>. QED
  BY <1>1, <1>2, <1>3, <1>4 DEF BecomesCall, OnlyCall

LEMMA StartsDoes ==
    ASSUME Served, NEW j \in Jobs, NEW p \in Parcels, NEW via, NEW step, NEW answer,
           Starts(j, p, via, step, answer), step \notin {"pausing", "backoff"},
           IsHonest(answer)
    PROVE  /\ j \in situation.jobs /\ job[j] = Free
           /\ OnlyCall(j) /\ CallOK(job'[j])
           /\ job'[j].parcel = p /\ job'[j].step = step /\ job'[j].answer = answer
<1> DEFINE n == [Free EXCEPT !.step = step, !.parcel = p, !.via = via, !.answer = answer]
<1>1. /\ DOMAIN n = JobFields /\ n.parcel = p /\ n.step = step /\ n.attempt = 1
      /\ n.wait = 0 /\ n.answer = answer
  BY DEF Free, JobFields
<1>2. /\ job' = [job EXCEPT ![j] = n] /\ DOMAIN job = Jobs
      /\ j \in situation.jobs /\ job[j] = Free
  BY DEF Starts, Served
<1>. HIDE DEF n
<1>3. CallOK(n)
  BY <1>1 DEF CallOK
<1>. QED
  BY <1>1, <1>2, <1>3 DEF OnlyCall

LEMMA FreeIsOK == CallOK(Free)
<1>1. IsHonest(NoAnswer)
  BY DEF IsHonest, NoAnswer
<1>. QED
  BY <1>1 DEF Free, CallOK, JobFields

-----------------------------------------------------------------------------
(* What a call does with an answer is what the kinds of step below say; the *)
(* three parts of the invariant are shown of them, not of each action.      *)

Asking(j) ==
    /\ job[j].step \in {"database", "backoff", "asked"} /\ job[j].wait = 0
    /\ job[j].step = "database" => row[job[j].parcel].status # "SUCCESS"
    /\ AsksAtOnce(j) \/ AsksLater(j)
    /\ UNCHANGED <<row, memory>>
Waking(j) ==
    /\ job[j].step = "pausing" /\ job[j].wait = 0
    /\ MovesOn(j, "asked")
    /\ since' = 0 /\ sinceOwn' = [sinceOwn EXCEPT ![j] = 0]
    /\ UNCHANGED <<row, memory>>
Reading(j) ==
    /\ job[j].step = "learned"
    /\ MovesOn(j, "database")
    /\ UNCHANGED <<row, memory, since, sinceOwn>>
Answering(j) ==
    /\ job[j].step \in {"learned", "database", "asked"}
    /\ \E a : /\ AnswersWith(j, a) /\ IsHonest(a)
              /\ job[j].step # "asked" /\ situation.provider # "none" => a.status = "SUCCESS"
    /\ CacheOK'
    /\ UNCHANGED <<row, since, sinceOwn>>
BackingOff(j) ==
    /\ job[j].step = "asked"
    /\ \E wait \in Nat : BecomesCall(j, "backoff", job[j].attempt, wait, job[j].answer)
    /\ UNCHANGED <<row, memory, since, sinceOwn>>
Writing(j) ==
    /\ job[j].step = "write"
    /\ MovesOn(j, "match")
    /\ DOMAIN row' = DOMAIN row
    /\ \A p \in Parcels : row'[p] # row[p] =>
         /\ p = job[j].parcel /\ IsHonest(row'[p])
         /\ row'[p].status \in {"MANUAL", job[j].answer.status}
    /\ UNCHANGED <<memory, since, sinceOwn>>
Ending(j) ==
    /\ job[j].step = "match"
    /\ OnlyCall(j) /\ job'[j] = Free
    /\ UNCHANGED <<row, memory, since, sinceOwn>>
Starting(j) ==
    /\ j \in situation.jobs /\ job[j] = Free
    /\ OnlyCall(j) /\ CallOK(job'[j])
    /\ \/ job'[j].step = "learned"
       \/ job'[j].step = "write" /\ job'[j].answer.status = "SUCCESS"
    /\ UNCHANGED <<row, memory, since, sinceOwn>>

Moves(j) ==
    \/ Asking(j) \/ Waking(j) \/ Reading(j) \/ Answering(j)
    \/ BackingOff(j) \/ Writing(j) \/ Ending(j) \/ Starting(j)

LEMMA AskLearnedMoves ==
    ASSUME Served, NEW j \in Jobs, AskLearned(j)
    PROVE  Reading(j) \/ Answering(j)
<1> DEFINE known == Learned(job[j].parcel)
           cached == memory[CacheKey[job[j].parcel]]
<1>1. job[j].step = "learned" /\ UNCHANGED <<row, memory, since, sinceOwn>>
  BY DEF AskLearned, geoVars
<1>2. job[j].parcel \in Parcels /\ CacheOK'
  BY <1>1 DEF Served, CallOK, CacheOK
<1>3. known # NoAnswer => IsHonest(known) /\ known.status = "SUCCESS"
  BY DEF Learned, IsHonest
<1>4. CASE known # NoAnswer /\ Answers(j, known)
  BY <1>1, <1>2, <1>3, <1>4, AnswersDoes DEF Answering
<1>5. CASE situation.provider = "none" /\ Answers(j, FAILED_RESULT)
  <2>1. IsHonest(FAILED_RESULT)
    BY DEF IsHonest, FAILED_RESULT
  <2>. QED
    BY <1>1, <1>2, <1>5, <2>1, AnswersDoes DEF Answering
<1>6. CASE cached # NoAnswer /\ Answers(j, cached)
  <2>1. Entry(cached)
    BY <1>2 DEF Served, CacheOK
  <2>. QED
    BY <1>1, <1>2, <1>6, <2>1, AnswersDoes DEF Answering, Entry
<1>7. CASE Goes(j, "database")
  BY <1>1, <1>7, GoesDoes DEF Reading
<1>8. AskMemory(j) => \/ situation.provider = "none" /\ Answers(j, FAILED_RESULT)
                      \/ cached # NoAnswer /\ Answers(j, cached)
                      \/ Goes(j, "database")
  BY DEF AskMemory
<1>. QED
  BY <1>4, <1>5, <1>6, <1>7, <1>8 DEF AskLearned

LEMMA CachedAnswerIsEntry ==
    ASSUME Served, NEW q \in Parcels
    PROVE  Entry(CachedAnswer(q)) /\ CachedAnswer(q).status = "SUCCESS"
<1>1. IsHonest(row[q])
  BY DEF Served
<1> DEFINE precision == IF row[q].precision = "NONE" THEN precisionFromSource(row[q].source)
                                                     ELSE row[q].precision
<1>2. row[q].source \in {"area", "pincode"} => precision \notin Precise
  BY <1>1 DEF IsHonest, precisionFromSource, Precise
<1>3. /\ CachedAnswer(q).source = row[q].source /\ CachedAnswer(q).precision = precision
      /\ CachedAnswer(q).status = "SUCCESS"
  BY DEF CachedAnswer
<1>. HIDE DEF precision
<1>. QED
  BY <1>2, <1>3 DEF Entry, IsHonest

LEMMA RememberedIsEntry ==
    ASSUME Served, NEW c, NEW a, Entry(a), memory' = [memory EXCEPT ![c] = a]
    PROVE  CacheOK'
<1>1. \A d \in DOMAIN memory : Entry(memory[d])
  BY DEF Served, CacheOK
<1>2. DOMAIN memory' = DOMAIN memory
      /\ \A d \in DOMAIN memory : memory'[d] = IF d = c THEN a ELSE memory[d]
  OBVIOUS
<1>. QED
  BY <1>1, <1>2 DEF Served, CacheOK

LEMMA AskDatabaseMoves ==
    ASSUME Served, NEW j \in Jobs, AskDatabase(j)
    PROVE  Asking(j) \/ Answering(j)
<1> DEFINE p == job[j].parcel
<1>1. job[j].step = "database" /\ UNCHANGED row /\ p \in Parcels /\ job[j].wait = 0
  BY DEF AskDatabase, Served, CallOK
<1>2. CASE CachedRows(p) = {} /\ Throttled(j, 1, 1) /\ UNCHANGED memory
  <2>1. row[p].status # "SUCCESS"
    BY <1>1, <1>2 DEF CachedRows
  <2>2. AsksAtOnce(j) \/ AsksLater(j)
    BY <1>2, ThrottledDoes
  <2>. QED
    BY <1>1, <1>2, <2>1, <2>2 DEF Asking
<1>3. ASSUME NEW q \in CachedRows(p), Answers(j, CachedAnswer(q)),
             memory' = [memory EXCEPT ![CacheKey[p]] = CachedAnswer(q)],
             UNCHANGED <<since, sinceOwn>>
      PROVE  Answering(j)
  <2>1. Entry(CachedAnswer(q)) /\ CachedAnswer(q).status = "SUCCESS"
    BY CachedAnswerIsEntry DEF CachedRows
  <2>2. AnswersWith(j, CachedAnswer(q))
    BY <1>3, AnswersDoes
  <2>3. CacheOK'
    BY <1>3, <2>1, RememberedIsEntry
  <2>. QED
    BY <1>1, <1>3, <2>1, <2>2, <2>3 DEF Answering, Entry
<1>. QED
  BY <1>2, <1>3 DEF AskDatabase

LEMMA FoundMoves ==
    ASSUME Served, NEW j \in Jobs, NEW match, Found(j, match)
    PROVE  Answering(j)
<1> DEFINE p == job[j].parcel
           tier == Tiers(p)[job[j].tier]
           answer == [status |-> "SUCCESS", at |-> PointOf(p, tier), source |-> tier,
                      precision |-> precisionOf(match, tier)]
<1>1. /\ job[j].step = "asked" /\ UNCHANGED <<row, since, sinceOwn>>
      /\ Answers(j, answer) /\ memory' = [memory EXCEPT ![CacheKey[p]] = answer]
  BY DEF Found
<1>2. tier \in {"area", "pincode"} => precisionOf(match, tier) \notin Precise
  BY DEF precisionOf, googlePrecision, nominatimPrecision, Precise
<1>3. /\ answer.status = "SUCCESS" /\ answer.source = tier
      /\ answer.precision = precisionOf(match, tier)
  OBVIOUS
<1>. HIDE DEF tier, answer
<1>4. Entry(answer) /\ IsHonest(answer)
  BY <1>2, <1>3 DEF Entry, IsHonest
<1>. QED
  BY <1>1, <1>4, AnswersDoes, RememberedIsEntry DEF Answering

LEMMA NotFoundMoves ==
    ASSUME Served, NEW j \in Jobs, NotFound(j)
    PROVE  Asking(j) \/ Answering(j)
<1>1. job[j].step = "asked" /\ UNCHANGED <<row, memory>> /\ job[j].wait = 0
  BY DEF NotFound, Served, CallOK
<1>2. CASE Throttled(j, job[j].tier + 1, 1)
  BY <1>1, <1>2, ThrottledDoes DEF Asking
<1>3. CASE Answers(j, FAILED_RESULT) /\ UNCHANGED <<since, sinceOwn>>
  <2>1. IsHonest(FAILED_RESULT) /\ CacheOK'
    BY <1>1 DEF IsHonest, FAILED_RESULT, Served, CacheOK
  <2>. QED
    BY <1>1, <1>3, <2>1, AnswersDoes DEF Answering
<1>. QED
  BY <1>2, <1>3 DEF NotFound

LEMMA WriteRowMoves ==
    ASSUME Served, NEW j \in Jobs, WriteRow(j)
    PROVE  Writing(j)
<1> DEFINE p == job[j].parcel
           answer == job[j].answer
           new == addressGeocodeData(p, answer, answer.source = "manual")
<1>1. /\ job[j].step = "write" /\ MovesOn(j, "match") /\ UNCHANGED <<memory, since, sinceOwn>>
      /\ row' = row \/ row' = [row EXCEPT ![p] = new]
  BY GoesDoes DEF WriteRow, geoVars
<1>2. IsHonest(answer)
  BY DEF Served, CallOK
<1>3. /\ new.source = answer.source /\ new.precision = answer.precision
      /\ new.status \in {"MANUAL", answer.status}
  BY DEF addressGeocodeData
<1>. HIDE DEF new
<1>4. IsHonest(new)
  BY <1>2, <1>3 DEF IsHonest
<1>. QED
  BY <1>1, <1>3, <1>4 DEF Writing, Served

LEMMA AdvanceMoves ==
    ASSUME Served, NEW j \in Jobs, Advance(j)
    PROVE  Moves(j) /\ UNCHANGED situation
<1>1. UNCHANGED situation
  BY DEF Advance, AskLearned, AskDatabase, PauseOver, BackoffOver, Found, NotFound, Limited,
         Denied, WriteRow, Rematch
<1>2. CASE PauseOver(j)
  BY <1>2, GoesDoes DEF PauseOver, Moves, Waking
<1>3. CASE BackoffOver(j)
  <2>1. job[j].attempt + 1 \in Nat
    BY DEF Served, CallOK
  <2>2. AsksAtOnce(j) \/ AsksLater(j)
    BY <1>3, <2>1, ThrottledDoes DEF BackoffOver
  <2>. QED
    BY <1>3, <2>2 DEF BackoffOver, Moves, Asking
<1>4. CASE Limited(j)
  BY <1>4, LimitedDoes DEF Limited, Moves, BackingOff, geoVars
<1>5. CASE Denied(j)
  <2>1. IsHonest(FAILED_RESULT) /\ CacheOK'
    BY <1>5 DEF IsHonest, FAILED_RESULT, Served, CacheOK, Denied, geoVars
  <2>. QED
    BY <1>5, <2>1, AnswersDoes DEF Denied, Moves, Answering, geoVars
<1>6. CASE Rematch(j)
  BY <1>6 DEF Rematch, Moves, Ending, OnlyCall, Served, geoVars
<1>. QED
  BY <1>1, <1>2, <1>3, <1>4, <1>5, <1>6, AskLearnedMoves, AskDatabaseMoves, FoundMoves,
     NotFoundMoves, WriteRowMoves DEF Advance, Moves

LEMMA StartsMoves ==
    ASSUME Served, NEW j \in Jobs, NEW p \in Parcels,
           \/ Create(j, p) \/ RetryGeocode(j, p, "retry") \/ RetryGeocode(j, p, "row") \/ Pin(j, p)
           \/ Pump(j, p)
    PROVE  Moves(j) /\ UNCHANGED situation
<1>1. IsHonest(NoAnswer) /\ \A at : IsHonest(manualGeocode(at))
                                    /\ manualGeocode(at).status = "SUCCESS"
  BY DEF IsHonest, NoAnswer, manualGeocode
<1>2. ASSUME NEW via, NEW step, NEW answer, Starts(j, p, via, step, answer),
             IsHonest(answer),
             step = "learned" \/ (step = "write" /\ answer.status = "SUCCESS")
      PROVE  Moves(j) /\ UNCHANGED situation
  <2>1. UNCHANGED <<situation, row, memory, since, sinceOwn>>
    BY <1>2 DEF Starts, geoVars
  <2>2. /\ j \in situation.jobs /\ job[j] = Free /\ OnlyCall(j) /\ CallOK(job'[j])
        /\ job'[j].step = step /\ job'[j].answer = answer
    BY <1>2, StartsDoes
  <2>. QED
    BY <1>2, <2>1, <2>2 DEF Moves, Starting
<1>3. ASSUME NEW via, Starts(j, p, via, "learned", NoAnswer)
      PROVE  Moves(j) /\ UNCHANGED situation
  BY <1>1, <1>2, <1>3
<1>4. CASE Pin(j, p)
  BY <1>1, <1>2, <1>4 DEF Pin
<1>. QED
  BY <1>3, <1>4 DEF Create, RetryGeocode, Pump

(* All that can happen to calls, rows and caches in a step.                *)
LEMMA NextMoves ==
    ASSUME Served, [LocateNext]_locateVars
    PROVE  /\ UNCHANGED situation
           /\ \/ UNCHANGED <<row, memory, since, sinceOwn, job>>
              \/ \E j \in Jobs : Moves(j)
              \/ TimePasses \/ Restart
<1>1. CASE \E j \in Jobs, p \in Parcels :
             Create(j, p) \/ RetryGeocode(j, p, "retry") \/ RetryGeocode(j, p, "row") \/ Pin(j, p)
             \/ Pump(j, p)
  BY <1>1, StartsMoves
<1>2. CASE \E j \in Jobs : Advance(j)
  BY <1>2, AdvanceMoves
<1>3. CASE \E p \in Parcels : Deliver(p) \/ Skip(p) \/ Learn(p)
  BY <1>3 DEF Deliver, Skip, Learn, geoVars
<1>4. CASE RetryAll
  BY <1>4 DEF RetryAll, geoVars
<1>5. CASE TimePasses \/ Restart
  BY <1>5 DEF TimePasses, Restart
<1>6. CASE UNCHANGED locateVars
  BY <1>6 DEF locateVars, geoVars
<1>. QED
  BY <1>1, <1>2, <1>3, <1>4, <1>5, <1>6 DEF LocateNext

-----------------------------------------------------------------------------
(* Nothing dishonest is stored, remembered or handed out *)

LEMMA ServedInit == LocateInit => Served
<1> SUFFICES ASSUME LocateInit PROVE Served
  OBVIOUS
<1>1. situation \in Situations /\ row = situation.rows
  BY DEF LocateInit
<1>2. DOMAIN row = Parcels /\ \A p \in Parcels : IsHonest(row[p])
  BY <1>1, GeocodingAssumption
<1>3. CacheOK
  BY DEF LocateInit, CacheOK, Entry, IsHonest, NoAnswer
<1>4. DOMAIN job = Jobs /\ \A j \in Jobs : CallOK(job[j])
  BY FreeIsOK DEF LocateInit
<1>5. since \in 0..Gap /\ DOMAIN sinceOwn = Jobs /\ \A j \in Jobs : sinceOwn[j] \in 0..Gap
  BY GeocodingAssumption DEF LocateInit
<1>. QED
  BY <1>1, <1>2, <1>3, <1>4, <1>5 DEF Served

LEMMA BecomesOK ==
    ASSUME Served, NEW j \in Jobs, NEW step, NEW attempt \in Nat, NEW wait \in Nat, NEW answer,
           BecomesCall(j, step, attempt, wait, answer), job[j].step # "free",
           step \notin {"pausing", "backoff"} => wait = 0, IsHonest(answer)
    PROVE  (DOMAIN job = Jobs /\ \A k \in Jobs : CallOK(job[k]))'
<1>1. CallOK(job'[j])
  BY DEF BecomesCall, CallOK, Served
<1>. QED
  BY <1>1 DEF BecomesCall, OnlyCall, Served

LEMMA AsksOK ==
    ASSUME Served, NEW j \in Jobs, job[j].step # "free", job[j].wait = 0,
           AsksAtOnce(j) \/ AsksLater(j)
    PROVE  /\ (DOMAIN job = Jobs /\ \A k \in Jobs : CallOK(job[k]))'
           /\ (since \in 0..Gap /\ DOMAIN sinceOwn = Jobs /\ \A k \in Jobs : sinceOwn[k] \in 0..Gap)'
<1>1. IsHonest(job[j].answer)
  BY DEF Served, CallOK
<1>2. CASE AsksAtOnce(j)
  BY <1>1, <1>2, BecomesOK, GeocodingAssumption DEF AsksAtOnce, Served
<1>3. CASE AsksLater(j)
  <2>1. Gap - since \in Nat
    BY <1>3, GeocodingAssumption DEF AsksLater, Served
  <2>. QED
    BY <1>1, <1>3, <2>1, BecomesOK DEF AsksLater, Served
<1>. QED
  BY <1>2, <1>3

LEMMA MovesServed ==
    ASSUME Served, NEW j \in Jobs, Moves(j), UNCHANGED situation
    PROVE  Served'
<1>1. /\ CallOK(job[j]) /\ IsHonest(job[j].answer)
      /\ job[j].attempt \in Nat /\ job[j].wait \in Nat
  BY DEF Served, CallOK
<1>2. CASE Asking(j)
  <2>1. job[j].step # "free"
    BY <1>2 DEF Asking
  <2>. QED
    BY <1>2, <2>1, AsksOK DEF Asking, Served, CacheOK
<1>3. CASE Waking(j)
  <2>1. job[j].step # "free" /\ job[j].wait = 0
    BY <1>3 DEF Waking
  <2>2. (DOMAIN job = Jobs /\ \A k \in Jobs : CallOK(job[k]))'
    BY <1>1, <1>3, <2>1, BecomesOK DEF Waking, MovesOn
  <2>. QED
    BY <1>3, <2>2, GeocodingAssumption DEF Waking, Served, CacheOK
<1>4. CASE Reading(j)
  <2>1. job[j].step # "free" /\ job[j].wait = 0
    BY <1>1, <1>4 DEF Reading, CallOK
  <2>2. (DOMAIN job = Jobs /\ \A k \in Jobs : CallOK(job[k]))'
    BY <1>1, <1>4, <2>1, BecomesOK DEF Reading, MovesOn
  <2>. QED
    BY <1>4, <2>2 DEF Reading, Served, CacheOK
<1>5. CASE Answering(j)
  <2>1. job[j].step # "free" /\ job[j].wait = 0
    BY <1>1, <1>5 DEF Answering, CallOK
  <2>2. (DOMAIN job = Jobs /\ \A k \in Jobs : CallOK(job[k]))'
    BY <1>1, <1>5, <2>1, BecomesOK DEF Answering, AnswersWith
  <2>. QED
    BY <1>5, <2>2 DEF Answering, Served
<1>6. CASE BackingOff(j)
  <2>1. job[j].step # "free"
    BY <1>6 DEF BackingOff
  <2>2. (DOMAIN job = Jobs /\ \A k \in Jobs : CallOK(job[k]))'
    BY <1>1, <1>6, <2>1, BecomesOK DEF BackingOff
  <2>. QED
    BY <1>6, <2>2 DEF BackingOff, Served, CacheOK
<1>7. CASE Writing(j)
  <2>1. job[j].step # "free" /\ job[j].wait = 0
    BY <1>1, <1>7 DEF Writing, CallOK
  <2>2. (DOMAIN job = Jobs /\ \A k \in Jobs : CallOK(job[k]))'
    BY <1>1, <1>7, <2>1, BecomesOK DEF Writing, MovesOn
  <2>3. (DOMAIN row = Parcels /\ \A p \in Parcels : IsHonest(row[p]))'
    BY <1>7 DEF Writing, Served
  <2>. QED
    BY <1>7, <2>2, <2>3 DEF Writing, Served, CacheOK
<1>8. CASE Ending(j)
  <2>1. (DOMAIN job = Jobs /\ \A k \in Jobs : CallOK(job[k]))'
    BY <1>8, FreeIsOK DEF Ending, OnlyCall, Served
  <2>. QED
    BY <1>8, <2>1 DEF Ending, Served, CacheOK
<1>9. CASE Starting(j)
  <2>1. (DOMAIN job = Jobs /\ \A k \in Jobs : CallOK(job[k]))'
    BY <1>9 DEF Starting, OnlyCall, Served
  <2>. QED
    BY <1>9, <2>1 DEF Starting, Served, CacheOK
<1>. QED
  BY <1>2, <1>3, <1>4, <1>5, <1>6, <1>7, <1>8, <1>9 DEF Moves

(* Time passes for every call.                                             *)
LEMMA TickDoes ==
    ASSUME Served, TimePasses, NEW j \in Jobs
    PROVE  /\ CallOK(job'[j])
           /\ job'[j].step = job[j].step /\ job'[j].parcel = job[j].parcel
           /\ job'[j].answer = job[j].answer
           /\ job[j].wait = 0 => job'[j] = job[j]
           /\ job[j].wait > 0 => job'[j].wait = job[j].wait - 1
           /\ since' = Passed(since) /\ sinceOwn'[j] = Passed(sinceOwn[j])
<1> DEFINE n == [job[j] EXCEPT !.wait = job[j].wait - 1]
<1>1. CallOK(job[j]) /\ job[j].wait \in Nat
  BY DEF Served, CallOK
<1>2. /\ DOMAIN n = JobFields /\ n.step = job[j].step /\ n.parcel = job[j].parcel
      /\ n.answer = job[j].answer /\ n.attempt = job[j].attempt
      /\ n.wait = job[j].wait - 1
  BY <1>1 DEF CallOK, JobFields
<1>3. job'[j] = (IF job[j].wait > 0 THEN n ELSE job[j])
  BY DEF TimePasses
<1>4. since' = Passed(since) /\ sinceOwn'[j] = Passed(sinceOwn[j])
  BY DEF TimePasses
<1>. HIDE DEF n
<1>5. job[j].wait > 0 => CallOK(n)
  BY <1>1, <1>2 DEF CallOK
<1>. QED
  BY <1>1, <1>2, <1>3, <1>4, <1>5

LEMMA TickServed ==
    ASSUME Served, TimePasses
    PROVE  Served'
<1>1. \A j \in Jobs : CallOK(job'[j]) /\ sinceOwn'[j] = Passed(sinceOwn[j])
  BY TickDoes
<1>2. /\ DOMAIN job' = Jobs /\ DOMAIN sinceOwn' = Jobs /\ UNCHANGED <<situation, row, memory>>
      /\ since' = Passed(since)
  BY DEF TimePasses
<1>3. \A t \in 0..Gap : Passed(t) \in 0..Gap
  BY GeocodingAssumption DEF Passed
<1>. QED
  BY <1>1, <1>2, <1>3 DEF Served, CacheOK

LEMMA RestartServed ==
    ASSUME Served, Restart
    PROVE  Served'
<1>1. /\ DOMAIN job' = Jobs /\ \A j \in Jobs : job'[j] = Free
      /\ DOMAIN memory' = DOMAIN memory /\ \A c \in DOMAIN memory' : memory'[c] = NoAnswer
      /\ since' = Gap /\ DOMAIN sinceOwn' = Jobs /\ \A j \in Jobs : sinceOwn'[j] = Gap
      /\ UNCHANGED <<situation, row>>
  BY DEF Restart
<1>2. Entry(NoAnswer)
  BY DEF Entry, IsHonest, NoAnswer
<1>. QED
  BY <1>1, <1>2, FreeIsOK, GeocodingAssumption DEF Served, CacheOK

LEMMA ServedNext ==
    ASSUME Served, [LocateNext]_locateVars
    PROVE  Served'
<1>1. CASE UNCHANGED <<row, memory, since, sinceOwn, job>>
  BY <1>1, NextMoves DEF Served, CacheOK
<1>. QED
  BY <1>1, NextMoves, MovesServed, TickServed, RestartServed

(* A centre never passes for a house, by whichever way it came.            *)
LEMMA ServedIsHonest == Served => CentreIsNotAHouse
BY DEF Served, CallOK, CacheOK, Entry, CentreIsNotAHouse, KnownAnswers

-----------------------------------------------------------------------------
(* The pause between two requests of one call *)

Paced == \A j \in Jobs :
    /\ since <= sinceOwn[j]
    /\ job[j].step = "pausing" => sinceOwn[j] + job[j].wait >= Gap

LEMMA PacedInit == LocateInit => Paced
BY GeocodingAssumption DEF LocateInit, Paced, Free

LEMMA MovesPaced ==
    ASSUME Served, Paced, NEW j \in Jobs, Moves(j)
    PROVE  Paced'
<1>1. /\ OnlyCall(j) /\ since \in 0..Gap /\ \A k \in Jobs : sinceOwn[k] \in 0..Gap
      /\ DOMAIN sinceOwn = Jobs /\ Gap \in Nat
  BY GeocodingAssumption
     DEF Served, Moves, Asking, AsksAtOnce, AsksLater, Waking, Reading, Answering, BackingOff,
         Writing, Ending, Starting, MovesOn, AnswersWith, BecomesCall
<1>2. ASSUME UNCHANGED <<since, sinceOwn>>, job'[j].step # "pausing"
      PROVE  Paced'
  BY <1>1, <1>2 DEF Paced, OnlyCall
<1>3. ASSUME since' = 0, sinceOwn' = [sinceOwn EXCEPT ![j] = 0], job'[j].step # "pausing"
      PROVE  Paced'
  BY <1>1, <1>3 DEF Paced, OnlyCall
<1>4. CASE Asking(j)
  <2>1. CASE AsksAtOnce(j)
    BY <1>3, <2>1 DEF AsksAtOnce, BecomesCall
  <2>2. CASE AsksLater(j)
    <3>1. job'[j].wait = Gap - since /\ UNCHANGED <<since, sinceOwn>>
      BY <2>2 DEF AsksLater, BecomesCall
    <3>. QED
      BY <1>1, <3>1 DEF Paced, OnlyCall
  <2>. QED
    BY <1>4, <2>1, <2>2 DEF Asking
<1>5. CASE Waking(j)
  BY <1>3, <1>5 DEF Waking, MovesOn, BecomesCall
<1>6. CASE Reading(j) \/ Writing(j)
  BY <1>2, <1>6 DEF Reading, Writing, MovesOn, BecomesCall
<1>7. CASE Answering(j)
  BY <1>2, <1>7 DEF Answering, AnswersWith, BecomesCall
<1>8. CASE BackingOff(j)
  BY <1>2, <1>8 DEF BackingOff, BecomesCall
<1>9. CASE Ending(j)
  BY <1>2, <1>9 DEF Ending, Free
<1>10. CASE Starting(j)
  BY <1>2, <1>10 DEF Starting
<1>. QED
  BY <1>4, <1>5, <1>6, <1>7, <1>8, <1>9, <1>10 DEF Moves

LEMMA TickPaced ==
    ASSUME Served, Paced, TimePasses
    PROVE  Paced'
<1>1. ASSUME NEW j \in Jobs
      PROVE  /\ since' <= sinceOwn'[j]
             /\ job'[j].step = "pausing" => sinceOwn'[j] + job'[j].wait >= Gap
  <2>1. /\ since \in 0..Gap /\ sinceOwn[j] \in 0..Gap /\ since <= sinceOwn[j] /\ Gap \in Nat
        /\ job[j].wait \in Nat
        /\ job[j].step = "pausing" => sinceOwn[j] + job[j].wait >= Gap
    BY GeocodingAssumption DEF Served, CallOK, Paced
  <2>2. /\ job'[j].step = job[j].step
        /\ job[j].wait = 0 => job'[j].wait = 0
        /\ job[j].wait > 0 => job'[j].wait = job[j].wait - 1
        /\ since' = Passed(since) /\ sinceOwn'[j] = Passed(sinceOwn[j])
    BY TickDoes
  <2>. QED
    BY <2>1, <2>2 DEF Passed
<1>. QED
  BY <1>1 DEF Paced

LEMMA PacedNext ==
    ASSUME Served, Paced, [LocateNext]_locateVars
    PROVE  Paced'
<1>1. CASE UNCHANGED <<row, memory, since, sinceOwn, job>>
  BY <1>1 DEF Paced
<1>2. CASE Restart
  BY <1>2, GeocodingAssumption DEF Restart, Paced, Free
<1>. QED
  BY <1>1, <1>2, NextMoves, MovesPaced, TickPaced

LEMMA AskedInTime ==
    ASSUME Served, Paced, [LocateNext]_locateVars, NEW j \in Jobs,
           job'[j].step = "asked", job'[j] # job[j]
    PROVE  sinceOwn[j] >= Gap
<1>1. Gap \in Nat /\ since \in 0..Gap /\ sinceOwn[j] \in 0..Gap /\ since <= sinceOwn[j]
  BY GeocodingAssumption DEF Served, Paced
<1>2. ASSUME NEW k \in Jobs, Moves(k)
      PROVE  sinceOwn[j] >= Gap
  <2>1. k = j
    BY <1>2 DEF Moves, Asking, AsksAtOnce, AsksLater, Waking, Reading, Answering, BackingOff,
                Writing, Ending, Starting, MovesOn, AnswersWith, BecomesCall, OnlyCall
  <2>2. CASE Asking(j)
    BY <1>1, <2>2 DEF Asking, AsksAtOnce, AsksLater, BecomesCall
  <2>3. CASE Waking(j)
    BY <1>1, <2>3 DEF Waking, Paced
  <2>4. ~(Reading(j) \/ Answering(j) \/ BackingOff(j) \/ Writing(j) \/ Ending(j) \/ Starting(j))
    BY DEF Reading, Answering, BackingOff, Writing, Ending, Starting, MovesOn, AnswersWith,
           BecomesCall, Free
  <2>. QED
    BY <1>2, <2>1, <2>2, <2>3, <2>4 DEF Moves
<1>3. CASE TimePasses
  <2>1. job[j].wait # 0 /\ job[j].step = "asked"
    BY <1>3, TickDoes
  <2>. QED
    BY <2>1 DEF Served, CallOK
<1>4. CASE Restart
  BY <1>4 DEF Restart, Free
<1>. QED
  BY <1>2, <1>3, <1>4, NextMoves

-----------------------------------------------------------------------------
(* A retry that runs by itself *)

(* The one call of its situation asks the provider only for an address that is *)
(* not located: with a located one it stops at its own row, at the latest. *)
KeepsLocated(r) ==
    r.step # "free" /\ row[r.parcel].status = "SUCCESS" =>
        \/ r.step \in {"learned", "database", "match"}
        \/ r.step = "write" /\ r.answer.status = "SUCCESS"
Alone ==
    /\ \A j \in Jobs : job[j].step # "free" => j \in situation.jobs
    /\ Cardinality(situation.jobs) = 1 /\ situation.provider # "none" =>
         \A j \in Jobs : KeepsLocated(job[j])

LEMMA AloneInit == LocateInit => Alone
BY DEF LocateInit, Alone, KeepsLocated, Free

LEMMA OneJob ==
    ASSUME Served, Alone, Cardinality(situation.jobs) = 1,
           NEW j \in Jobs, j \in situation.jobs, NEW k \in Jobs \ {j}
    PROVE  job[k].step = "free"
<1>1. IsFiniteSet(situation.jobs)
  BY GeocodingAssumption DEF Served
<1>2. PICK x : situation.jobs = {x}
  BY <1>1, FS_Singleton
<1>. QED
  BY <1>2 DEF Alone

LEMMA MovesAlone ==
    ASSUME Served, Alone, NEW j \in Jobs, Moves(j), UNCHANGED situation
    PROVE  Alone'
<1>1. OnlyCall(j)
  BY DEF Moves, Asking, AsksAtOnce, AsksLater, Waking, Reading, Answering, BackingOff,
         Writing, Ending, Starting, MovesOn, AnswersWith, BecomesCall
<1>2. j \in situation.jobs
  <2>1. Starting(j) \/ job[j].step # "free"
    BY DEF Moves, Asking, Waking, Reading, Answering, BackingOff, Writing, Ending
  <2>. QED
    BY <2>1 DEF Starting, Alone
<1>3. (\A k \in Jobs : job[k].step # "free" => k \in situation.jobs)'
  BY <1>1, <1>2 DEF Alone, OnlyCall
<1>4. ASSUME Cardinality(situation.jobs) = 1, situation.provider # "none"
      PROVE  KeepsLocated(job[j])'
  <2>1. KeepsLocated(job[j])
    BY <1>4 DEF Alone
  <2>2. CASE Asking(j)
    <3>1. row[job[j].parcel].status # "SUCCESS"
      BY <2>1, <2>2 DEF Asking, KeepsLocated
    <3>2. job'[j].parcel = job[j].parcel /\ UNCHANGED row
      BY <2>2 DEF Asking, AsksAtOnce, AsksLater, BecomesCall
    <3>. QED
      BY <3>1, <3>2 DEF KeepsLocated
  <2>3. CASE Waking(j) \/ BackingOff(j)
    <3>1. row[job[j].parcel].status # "SUCCESS"
      BY <2>1, <2>3 DEF Waking, BackingOff, KeepsLocated
    <3>2. job'[j].parcel = job[j].parcel /\ UNCHANGED row
      BY <2>3 DEF Waking, BackingOff, MovesOn, BecomesCall
    <3>. QED
      BY <3>1, <3>2 DEF KeepsLocated
  <2>4. CASE Answering(j)
    <3>1. PICK a : /\ AnswersWith(j, a)
                   /\ job[j].step # "asked" /\ situation.provider # "none" => a.status = "SUCCESS"
      BY <2>4 DEF Answering
    <3>2. /\ job'[j].step = "write" /\ job'[j].answer = a
          /\ job'[j].parcel = job[j].parcel /\ UNCHANGED row
      BY <2>4, <3>1 DEF Answering, AnswersWith, BecomesCall
    <3>3. CASE job[j].step = "asked"
      <4>1. row[job[j].parcel].status # "SUCCESS"
        BY <2>1, <3>3 DEF KeepsLocated
      <4>. QED
        BY <3>2, <4>1 DEF KeepsLocated
    <3>. QED
      BY <1>4, <3>1, <3>2, <3>3 DEF KeepsLocated
  <2>5. CASE Reading(j) \/ Writing(j)
    BY <2>5 DEF Reading, Writing, MovesOn, BecomesCall, KeepsLocated
  <2>6. CASE Ending(j)
    BY <2>6 DEF Ending, Free, KeepsLocated
  <2>7. CASE Starting(j)
    BY <2>7 DEF Starting, KeepsLocated
  <2>. QED
    BY <2>2, <2>3, <2>4, <2>5, <2>6, <2>7 DEF Moves
<1>5. ASSUME Cardinality(situation.jobs) = 1, NEW k \in Jobs \ {j}
      PROVE  KeepsLocated(job[k])'
  <2>1. job[k].step = "free"
    BY <1>2, <1>5, OneJob
  <2>2. job'[k].step = "free"
    BY <1>1, <2>1 DEF OnlyCall
  <2>. QED
    BY <2>2 DEF KeepsLocated
<1>. QED
  BY <1>3, <1>4, <1>5 DEF Alone

LEMMA AloneNext ==
    ASSUME Served, Alone, [LocateNext]_locateVars
    PROVE  Alone'
<1>1. CASE UNCHANGED <<row, memory, since, sinceOwn, job>>
  BY <1>1, NextMoves DEF Alone, KeepsLocated
<1>2. CASE TimePasses
  <2>1. \A j \in Jobs : /\ job'[j].step = job[j].step /\ job'[j].parcel = job[j].parcel
                        /\ job'[j].answer = job[j].answer
    BY <1>2, TickDoes
  <2>2. UNCHANGED <<situation, row>>
    BY <1>2 DEF TimePasses
  <2>. QED
    BY <2>1, <2>2 DEF Alone, KeepsLocated
<1>3. CASE Restart
  BY <1>3 DEF Restart, Alone, KeepsLocated, Free
<1>. QED
  BY <1>1, <1>2, <1>3, NextMoves, MovesAlone

LEMMA SuccessStays ==
    ASSUME Served, Alone, [LocateNext]_locateVars, Cardinality(situation.jobs) = 1,
           situation.provider # "none", NEW p \in Parcels, row[p].status = "SUCCESS"
    PROVE  row'[p].status # "FAILED"
<1>1. CASE UNCHANGED row
  BY <1>1
<1>2. ASSUME NEW j \in Jobs, Writing(j)
      PROVE  row'[p].status # "FAILED"
  <2>1. CASE row'[p] = row[p]
    BY <2>1
  <2>2. CASE row'[p] # row[p]
    <3>1. p = job[j].parcel /\ row'[p].status \in {"MANUAL", job[j].answer.status}
      BY <1>2, <2>2 DEF Writing
    <3>2. KeepsLocated(job[j]) /\ job[j].step = "write"
      BY <1>2 DEF Alone, Writing
    <3>3. job[j].answer.status = "SUCCESS"
      BY <3>1, <3>2 DEF KeepsLocated
    <3>. QED
      BY <3>1, <3>3
  <2>. QED
    BY <2>1, <2>2
<1>3. ASSUME NEW j \in Jobs, Moves(j), ~Writing(j)
      PROVE  UNCHANGED row
  BY <1>3 DEF Moves, Asking, Waking, Reading, Answering, BackingOff, Ending, Starting
<1>4. CASE TimePasses \/ Restart
  BY <1>1, <1>4 DEF TimePasses, Restart
<1>. QED
  BY <1>1, <1>2, <1>3, <1>4, NextMoves

-----------------------------------------------------------------------------
(* What deliveries teach *)

VisitFields == {"step", "at", "known", "basis", "accept"}

Taken(l) == {s \in l.samples : s.accepted}
IsMedian(l) ==
    l.sampleCount > 0 =>
        \E S \in SUBSET Taken(l) :
            /\ Cardinality(S) = l.sampleCount
            /\ l.at = median(S)
            /\ ~situation.overlap => S = Taken(l)
SiteOK(l) ==
    /\ IsFiniteSet(l.samples) /\ l.sampleCount \in Nat
    /\ ~l.known => l.samples = {} /\ l.sampleCount = 0
    /\ Taken(l) # {} => l.sampleCount > 0
    /\ IsMedian(l)

(* A delivery that was judged and not stored yet has read fixes that are   *)
(* still there, and all there are if deliveries do not overlap.            *)
VisitOK(p) ==
    /\ DOMAIN learning[p] = VisitFields /\ learning[p].accept \in BOOLEAN
    /\ learning[p].step = "judged" =>
         /\ LearnKey[p] \in Keys
         /\ learning[p].basis \subseteq Accepted(LearnKey[p])
         /\ ~situation.overlap => learning[p].basis = Accepted(LearnKey[p])

Taught ==
    /\ situation \in Situations
    /\ DOMAIN location = Keys /\ \A k \in Keys : SiteOK(location[k])
    /\ DOMAIN learning = Parcels /\ \A p \in Parcels : VisitOK(p)
    /\ ~situation.overlap => \A p, q \in Parcels :
         learning[p].step = "judged" /\ learning[q].step = "judged" => p = q

LEMMA TaughtInit == LocateInit => Taught
<1> SUFFICES ASSUME LocateInit PROVE Taught
  OBVIOUS
<1>1. /\ situation \in Situations /\ location = [k \in Keys |-> Nobody]
      /\ learning = [p \in Parcels |-> NotStarted]
  BY DEF LocateInit, LearnInit
<1>2. SiteOK(Nobody)
  BY FS_EmptySet DEF SiteOK, IsMedian, Taken, Nobody
<1>3. \A p \in Parcels : VisitOK(p)
  BY <1>1 DEF VisitOK, NotStarted, VisitFields
<1>. QED
  BY <1>1, <1>2, <1>3 DEF Taught, NotStarted

(* The row of a place after one more fix.                                  *)
LEMMA StoredSiteIsOK ==
    ASSUME NEW old, SiteOK(old), situation.overlap \in BOOLEAN,
           NEW basis, basis \subseteq Taken(old), ~situation.overlap => basis = Taken(old),
           NEW p, NEW place, NEW accept \in BOOLEAN
    PROVE  LET sample == [parcel |-> p, at |-> place, accepted |-> accept]
               heeded == basis \cup {[parcel |-> p, at |-> place, accepted |-> TRUE]}
               new    == [known |-> TRUE,
                          at |-> IF accept THEN median(heeded)
                                 ELSE IF old.known THEN old.at ELSE place,
                          sampleCount |-> IF accept THEN Cardinality(heeded)
                                                    ELSE old.sampleCount,
                          samples |-> old.samples \cup {sample}]
           IN  SiteOK(new) /\ Taken(old) \subseteq Taken(new)
<1> DEFINE sample == [parcel |-> p, at |-> place, accepted |-> accept]
           this == [parcel |-> p, at |-> place, accepted |-> TRUE]
           heeded == basis \cup {this}
           new == [known |-> TRUE,
                   at |-> IF accept THEN median(heeded)
                          ELSE IF old.known THEN old.at ELSE place,
                   sampleCount |-> IF accept THEN Cardinality(heeded) ELSE old.sampleCount,
                   samples |-> old.samples \cup {sample}]
<1>1. sample.accepted = accept /\ this.accepted = TRUE /\ (accept => sample = this)
  OBVIOUS
<1>. HIDE DEF sample, this
<1>2. /\ new.known = TRUE /\ new.samples = old.samples \cup {sample}
      /\ accept => new.at = median(heeded) /\ new.sampleCount = Cardinality(heeded)
      /\ ~accept => new.sampleCount = old.sampleCount /\ (old.known => new.at = old.at)
  OBVIOUS
<1>. HIDE DEF new
<1>3. Taken(new) = IF accept THEN Taken(old) \cup {sample} ELSE Taken(old)
  BY <1>1, <1>2 DEF Taken
<1>4. IsFiniteSet(new.samples)
  BY <1>2, FS_AddElement DEF SiteOK
<1>5. CASE ~accept
  <2>1. old.sampleCount > 0 => old.known
    BY DEF SiteOK
  <2>2. IsMedian(new)
    BY <1>2, <1>3, <1>5, <2>1 DEF SiteOK, IsMedian
  <2>. QED
    BY <1>2, <1>3, <1>4, <1>5, <2>2 DEF SiteOK, new, sample
<1>6. CASE accept
  <2>1. IsFiniteSet(basis)
    <3>1. IsFiniteSet(old.samples) /\ basis \in SUBSET old.samples
      BY DEF SiteOK, Taken
    <3>. QED
      BY <3>1, FS_Subset
  <2>2. IsFiniteSet(heeded) /\ heeded # {}
    BY <2>1, FS_AddElement
  <2>3. Cardinality(heeded) \in Nat /\ Cardinality(heeded) # 0
    BY <2>2, FS_CardinalityType, FS_EmptySet
  <2>4. heeded \in SUBSET Taken(new) /\ (~situation.overlap => heeded = Taken(new))
    BY <1>1, <1>3, <1>6
  <2>. HIDE DEF heeded
  <2>5. IsMedian(new)
    BY <1>2, <1>6, <2>4 DEF IsMedian
  <2>6. SiteOK(new)
    BY <1>2, <1>4, <1>6, <2>3, <2>5 DEF SiteOK
  <2>. QED
    BY <1>3, <1>6, <2>6 DEF new, heeded, sample, this
<1>. QED
  BY <1>5, <1>6

LEMMA OneVisit ==
    ASSUME Taught, UNCHANGED <<location, situation>>, NEW p \in Parcels, NEW visit,
           learning' = [learning EXCEPT ![p] = visit], VisitOK(p)',
           visit.step # "judged" \/ situation.overlap
             \/ \A q \in Parcels : learning[q].step # "judged"
    PROVE  Taught'
<1>1. /\ DOMAIN learning' = Parcels /\ learning'[p] = visit
      /\ \A q \in Parcels \ {p} : learning'[q] = learning[q]
  BY DEF Taught
<1>2. \A q \in Parcels : VisitOK(q)'
  BY <1>1 DEF Taught, VisitOK, Accepted
<1>. QED
  BY <1>1, <1>2 DEF Taught, SiteOK, IsMedian, Taken

LEMMA JudgeTaught ==
    ASSUME Taught, UNCHANGED situation, NEW p \in Parcels, NEW fix, NEW columns,
           JudgeFix(p, fix, columns),
           situation.overlap \/ \A q \in Parcels : learning[q].step # "judged"
    PROVE  Taught'
<1> DEFINE k == LearnKey[p]
           accept == judgeSample(fix, columns, Accepted(k))
           visit == [step |-> "judged", at |-> fix.at, known |-> location[k].known,
                     basis |-> Accepted(k), accept |-> accept]
<1>1. k \in Keys /\ UNCHANGED location /\ learning' = [learning EXCEPT ![p] = visit]
  BY LearnKeyAssumption DEF JudgeFix
<1>2. accept \in BOOLEAN
  BY DEF judgeSample
<1>. HIDE DEF accept
<1>3. /\ DOMAIN visit = VisitFields /\ visit.accept = accept /\ visit.basis = Accepted(k)
  BY DEF VisitFields
<1>. HIDE DEF visit
<1>4. VisitOK(p)'
  BY <1>1, <1>2, <1>3 DEF VisitOK, Taught, Accepted
<1>. QED
  BY <1>1, <1>4, OneVisit

LEMMA DoneTaught ==
    ASSUME Taught, UNCHANGED <<situation, location>>, NEW p \in Parcels,
           learning' = [learning EXCEPT ![p].step = "done"]
    PROVE  Taught'
<1> DEFINE visit == [learning[p] EXCEPT !.step = "done"]
<1>1. DOMAIN learning[p] = VisitFields /\ learning[p].accept \in BOOLEAN
  BY DEF Taught, VisitOK
<1>2. DOMAIN visit = VisitFields /\ visit.step = "done" /\ visit.accept = learning[p].accept
  BY <1>1 DEF VisitFields
<1>3. learning' = [learning EXCEPT ![p] = visit]
  BY <1>1 DEF VisitFields
<1>. HIDE DEF visit
<1>4. VisitOK(p)'
  BY <1>1, <1>2, <1>3 DEF VisitOK, Taught
<1>. QED
  BY <1>2, <1>3, <1>4, OneVisit

LEMMA StoreTaught ==
    ASSUME Taught, UNCHANGED situation, NEW p \in Parcels, StoreSample(p)
    PROVE  Taught'
<1> DEFINE k == LearnKey[p]
           old == location[k]
           this == learning[p]
           heeded == this.basis \cup {[parcel |-> p, at |-> this.at, accepted |-> TRUE]}
           sample == [parcel |-> p, at |-> this.at, accepted |-> this.accept]
           new == [known |-> TRUE,
                   at |-> IF this.accept THEN median(heeded)
                          ELSE IF old.known THEN old.at ELSE this.at,
                   sampleCount |-> IF this.accept THEN Cardinality(heeded)
                                                  ELSE old.sampleCount,
                   samples |-> old.samples \cup {sample}]
           visit == [this EXCEPT !.step = "done"]
<1>1. /\ this.step = "judged" /\ location' = [location EXCEPT ![k] = new]
      /\ learning' = [learning EXCEPT ![p] = visit]
  BY DEF StoreSample, Basis
<1>2. /\ k \in Keys /\ this.basis \subseteq Taken(old) /\ this.accept \in BOOLEAN
      /\ ~situation.overlap => this.basis = Taken(old)
      /\ DOMAIN this = VisitFields
  BY <1>1 DEF Taught, VisitOK, Accepted, Taken
<1>3. situation.overlap \in BOOLEAN /\ SiteOK(old)
  BY <1>2, GeocodingAssumption DEF Taught
<1>4. SiteOK(new) /\ Taken(old) \subseteq Taken(new)
  <2>. HIDE DEF old, this
  <2>. QED
    BY <1>2, <1>3, StoredSiteIsOK
<1>5. /\ visit.step = "done" /\ visit.accept = this.accept /\ DOMAIN visit = VisitFields
  BY <1>2 DEF VisitFields
<1>. HIDE DEF new, visit
<1>6. /\ DOMAIN location' = Keys /\ \A m \in Keys : Taken(location[m]) \subseteq Taken(location'[m])
      /\ \A m \in Keys : SiteOK(location'[m])
  BY <1>1, <1>2, <1>4 DEF Taught
<1>7. (\A m \in Keys : SiteOK(location[m]))'
  BY <1>6 DEF SiteOK, IsMedian
<1>8. /\ DOMAIN learning' = Parcels /\ learning'[p] = visit
      /\ \A q \in Parcels \ {p} : learning'[q] = learning[q]
  BY <1>1 DEF Taught
<1>9. ASSUME NEW q \in Parcels
      PROVE  VisitOK(q)'
  <2>1. CASE q = p
    BY <1>2, <1>5, <1>8, <2>1 DEF VisitOK
  <2>2. CASE q # p /\ learning[q].step = "judged"
    <3>1. situation.overlap
      BY <1>1, <1>3, <2>2 DEF Taught
    <3>2. LearnKey[q] \in Keys /\ learning[q].basis \subseteq Taken(location[LearnKey[q]])
      BY <2>2 DEF Taught, VisitOK, Accepted, Taken
    <3>3. learning[q].basis \subseteq Taken(location'[LearnKey[q]])
      BY <1>6, <3>2
    <3>. QED
      BY <1>8, <2>2, <3>1, <3>2, <3>3 DEF Taught, VisitOK, Accepted, Taken
  <2>3. CASE q # p /\ learning[q].step # "judged"
    BY <1>8, <2>3 DEF Taught, VisitOK
  <2>. QED
    BY <2>1, <2>2, <2>3
<1>. QED
  BY <1>5, <1>6, <1>7, <1>8, <1>9 DEF Taught

LEMMA ForgetTaught ==
    ASSUME Taught, UNCHANGED situation, ForgetLearning
    PROVE  Taught'
<1>1. /\ UNCHANGED location /\ DOMAIN learning' = Parcels
      /\ \A p \in Parcels : learning'[p] = IF learning[p].step = "judged"
                                             THEN [learning[p] EXCEPT !.step = "done"]
                                             ELSE learning[p]
  BY DEF ForgetLearning
<1>2. ASSUME NEW p \in Parcels
      PROVE  /\ learning'[p].step # "judged" /\ DOMAIN learning'[p] = VisitFields
             /\ learning'[p].accept \in BOOLEAN
  <2>1. DOMAIN learning[p] = VisitFields /\ learning[p].accept \in BOOLEAN
    BY DEF Taught, VisitOK
  <2>2. CASE learning[p].step = "judged"
    BY <1>1, <2>1, <2>2 DEF VisitFields
  <2>3. CASE learning[p].step # "judged"
    BY <1>1, <2>1, <2>3
  <2>. QED
    BY <2>2, <2>3
<1>. QED
  BY <1>1, <1>2 DEF Taught, VisitOK, SiteOK, IsMedian

LEMMA TaughtNext ==
    ASSUME Taught, [LocateNext]_locateVars
    PROVE  Taught'
<1>1. CASE UNCHANGED <<location, learning, situation>>
  BY <1>1 DEF Taught, VisitOK, SiteOK, IsMedian, Accepted
<1>2. ASSUME NEW p \in Parcels, Deliver(p)
      PROVE  Taught'
  BY <1>2, JudgeTaught DEF Deliver
<1>3. ASSUME NEW p \in Parcels, Skip(p)
      PROVE  Taught'
  BY <1>3, DoneTaught DEF Skip, SkipFix
<1>4. ASSUME NEW p \in Parcels, Learn(p)
      PROVE  Taught'
  BY <1>4, StoreTaught, DoneTaught DEF Learn, CreatedMeanwhile
<1>5. CASE Restart
  BY <1>5, ForgetTaught DEF Restart
<1>6. CASE \E j \in Jobs, p \in Parcels :
             Create(j, p) \/ RetryGeocode(j, p, "retry") \/ RetryGeocode(j, p, "row") \/ Pin(j, p)
             \/ Pump(j, p)
  BY <1>1, <1>6 DEF Create, RetryGeocode, Pin, Pump, Starts, learnVars
<1>7. CASE \E j \in Jobs : Advance(j)
  BY <1>1, <1>7 DEF Advance, AskLearned, AskDatabase, PauseOver, BackoffOver, Found, NotFound,
                    Limited, Denied, WriteRow, Rematch, learnVars
<1>8. CASE RetryAll \/ TimePasses \/ UNCHANGED locateVars
  BY <1>1, <1>8 DEF RetryAll, TimePasses, locateVars, learnVars
<1>. QED
  BY <1>2, <1>3, <1>4, <1>5, <1>6, <1>7, <1>8 DEF LocateNext

LEMMA TaughtIsTheMedian == Taught => LearnedIsTheMedian
<1> SUFFICES ASSUME Taught, NEW k \in Keys, location[k].sampleCount > 0
             PROVE  \E S \in SUBSET Accepted(k) :
                      /\ Cardinality(S) = location[k].sampleCount
                      /\ location[k].at = median(S)
                      /\ ~situation.overlap => S = Accepted(k)
  BY DEF LearnedIsTheMedian
<1>1. IsMedian(location[k])
  BY DEF Taught, SiteOK
<1>. QED
  BY <1>1 DEF IsMedian, Taken, Accepted

LEMMA TaughtIsAgreed == Taught => HouseIsAgreed
<1> SUFFICES ASSUME Taught, NEW p \in Parcels, ~situation.overlap, Learned(p).precision = "HOUSE"
             PROVE  Cardinality({s \in Accepted(LearnKey[p]) :
                        distance(s.at, location[LearnKey[p]].at) <= AGREE_M}) >= 2
  BY DEF HouseIsAgreed
<1> DEFINE k == LearnKey[p]
<1>1. k # NoKey /\ Accepted(k) # {} /\ learnedQuality(Accepted(k)) = "HOUSE"
  BY DEF Learned, NoAnswer
<1>2. k \in Keys
  BY <1>1, LearnKeyAssumption
<1>3. location[k].at = median(Accepted(k))
  <2>1. SiteOK(location[k]) /\ Accepted(k) = Taken(location[k])
    BY <1>2 DEF Taught, Accepted, Taken
  <2>2. IsMedian(location[k]) /\ location[k].sampleCount > 0
    BY <1>1, <2>1 DEF SiteOK
  <2>. QED
    BY <2>1, <2>2 DEF IsMedian
<1>4. Cardinality({s \in Accepted(k) : distance(s.at, median(Accepted(k))) <= AGREE_M})
        >= HOUSE_LEVEL_SAMPLES
  BY <1>1 DEF learnedQuality
<1>. QED
  BY <1>3, <1>4 DEF HOUSE_LEVEL_SAMPLES

-----------------------------------------------------------------------------
(* The theorems *)

GInv == Served /\ Paced /\ Alone /\ Taught

LEMMA GInvInit == LocateInit => GInv
BY ServedInit, PacedInit, AloneInit, TaughtInit DEF GInv

LEMMA GInvNext == GInv /\ [LocateNext]_locateVars => GInv'
BY ServedNext, PacedNext, AloneNext, TaughtNext DEF GInv

(* A point handed out as a house's has a house behind it: no centre of an  *)
(* area or pincode passes for one, whichever of the caches or rows it came *)
(* through (precision.ts:8-9), what is learned is the median of accepted   *)
(* fixes, and it is a house's when two of them agree with the point handed *)
(* out (locationLearning.ts:8-13).                                         *)
THEOREM PlacesStaySound == Locating => []PlacesAreSound
<1>1. GInv => PlacesAreSound
  BY ServedIsHonest, TaughtIsTheMedian, TaughtIsAgreed DEF GInv, PlacesAreSound
<1>. QED
  BY GInvInit, GInvNext, <1>1, PTL DEF Locating

(* Asking again does no harm: one call alone never loses a located address *)
(* (retryAddressGeocode), and no call sends two requests within the pause  *)
(* (NominatimGeocodingService.ts, throttle), however calls interleave.     *)
THEOREM RepeatsDoNoHarm == Locating => RepeatsAreHarmless
<1>1. GInv /\ [LocateNext]_locateVars =>
        (Cardinality(situation.jobs) = 1 /\ situation.provider # "none" =>
           \A p \in Parcels : row[p].status = "SUCCESS" => row'[p].status # "FAILED")
  BY SuccessStays DEF GInv
<1>2. GInv /\ [LocateNext]_locateVars =>
        \A j \in Jobs : job'[j].step = "asked" /\ job'[j] # job[j] => sinceOwn[j] >= Gap
  BY AskedInTime DEF GInv
<1>3. Locating => RetryKeepsSuccess
  BY GInvInit, GInvNext, <1>1, PTL DEF Locating, RetryKeepsSuccess
<1>4. Locating => RateIsBoundedByPool
  BY GInvInit, GInvNext, <1>2, PTL DEF Locating, RateIsBoundedByPool
<1>. QED
  BY <1>3, <1>4 DEF RepeatsAreHarmless
=============================================================================
