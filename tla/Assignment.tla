----------------------------- MODULE Assignment -----------------------------
(***************************************************************************)
(* Who serves a delivery (assignment.service.ts, postman.service.ts and    *)
(* the routes that call them): the rows "postman covers beat", their copy  *)
(* on the postman, and the beat and postman of every parcel, with the      *)
(* exceptions open for the administrator.                                  *)
(*                                                                         *)
(* A request reads, then opens a transaction, reads again and writes.  The *)
(* database runs READ COMMITTED: reads see what is committed, the writes   *)
(* of a transaction appear together when it commits, and a row it wrote    *)
(* stays locked until then.  So a request is a job with one step per group *)
(* of reads and a last step that writes what it worked out from them.      *)
(* Every transaction on a parcel writes the parcel's row first, so what it *)
(* reads of the open exceptions afterwards is current.                     *)
(***************************************************************************)
EXTENDS DeliveryStatus, Naturals, FiniteSets

CONSTANTS
    Deliveries, Postmen, Beats,     \* of one post office
    Slots,          \* requests in flight
    Overlap,        \* requests overlap; if not, one runs after the other
    Verdicts,       \* exceptions the matching may raise
    Reported,       \* statuses set through POST /deliveries/:id/status
    Work            \* kinds of request that arrive

Nobody == "Nobody"      \* assignedPostmanId = null
NoBeat == "NoBeat"      \* beatId = null
Keep   == "Keep"        \* an undefined field of an update: left as it is

MatchingReasons == {"GEOCODING_FAILED", "NO_BEAT_MATCH", "MULTIPLE_BEAT_MATCH",
                    "AMBIGUOUS_MATCH", "LOW_CONFIDENCE_MATCH", "WEAK_LOCATION"}
NoPostman  == "NO_POSTMAN_ASSIGNED"
AllReasons == MatchingReasons \cup {NoPostman}
Ignored == "IGNORED"    \* lastAction: a person has closed one since the last verdict

WorkKinds == {"match", "cover", "clear", "status", "beat", "override",
              "resolve", "ignore", "rollback"}

ASSUME AssignmentAssumption ==
    /\ Nobody \notin Postmen /\ NoBeat \notin Beats
    /\ Beats \cap AllReasons = {}
    /\ Overlap \in BOOLEAN
    /\ Verdicts \subseteq MatchingReasons
    /\ Reported \subseteq Status
    /\ Work \subseteq WorkKinds

VARIABLES
    parcel,     \* [Deliveries -> the Delivery row and its open exceptions]
    postman,    \* [Postmen -> the Postman row, its login and its beat row]
    active,     \* beats whose status is ACTIVE
    job         \* [Slots -> the request in flight]

vars == <<parcel, postman, active, job>>

ParcelRow ==
    [status  : Status,
     beat    : Beats \cup {NoBeat},
     postman : Postmen \cup {Nobody},
     manual  : BOOLEAN,                 \* the history has an override
     open    : SUBSET (AllReasons \cup {Ignored})]

PostmanStatus == {"ACTIVE", "INACTIVE", "ON_LEAVE"}
PostmanRow ==
    [status       : PostmanStatus,
     login        : BOOLEAN,            \* User.status = ACTIVE
     covers       : Beats \cup {NoBeat},    \* PostmanBeatAssignment, isActive
     assignedBeat : Beats \cup {NoBeat}]    \* Postman.assignedBeatId

Write == [delivery : Deliveries, status : Status, postman : Postmen \cup {Nobody}]

Idle == [kind |-> "idle"]
MatchJob ==
    [kind : {"match", "place"}, delivery : Deliveries, status : Status,
     verdict : Beats \cup Verdicts, holder : Postmen \cup {Nobody}]
OverrideJob ==
    [kind : {"override"}, delivery : Deliveries, beat : Beats \cup {NoBeat},
     holder : Postmen \cup {Nobody}, status : Status \cup {Keep},
     reason : AllReasons \cup {Keep}]
CloseJob == [kind : {"close"}, delivery : Deliveries, reason : AllReasons]
CoverJob == [kind : {"cover"}, postman : Postmen, beat : Beats \cup {NoBeat},
             leaving : Beats \cup {NoBeat}]
ClearJob == [kind : {"clear"}, beat : Beats, current : SUBSET Postmen]

IsSyncJob(j) ==
    /\ DOMAIN j = {"kind", "new", "writes"}
    /\ DOMAIN j.new \subseteq Postmen
    /\ \A p \in DOMAIN j.new : j.new[p] \in PostmanRow
    /\ j.writes \subseteq Write

TypeOK ==
    /\ parcel \in [Deliveries -> ParcelRow]
    /\ postman \in [Postmen -> PostmanRow]
    /\ active \subseteq Beats
    /\ DOMAIN job = Slots
    /\ \A s \in Slots :
         \/ job[s] \in {Idle} \cup MatchJob \cup OverrideJob \cup CloseJob
                         \cup CoverJob \cup ClearJob
         \/ job[s].kind = "sync" /\ IsSyncJob(job[s])

(* Parcels are created RECEIVED; every postman starts active, without beat. *)
Init ==
    /\ parcel = [d \in Deliveries |->
                   [status |-> "RECEIVED", beat |-> NoBeat, postman |-> Nobody,
                    manual |-> FALSE, open |-> {}]]
    /\ postman = [p \in Postmen |->
                   [status |-> "ACTIVE", login |-> TRUE, covers |-> NoBeat,
                    assignedBeat |-> NoBeat]]
    /\ active = Beats
    /\ job = [s \in Slots |-> Idle]

Quiet == \A s \in Slots : job[s] = Idle

Accept(s, kind) ==
    /\ kind \in Work
    /\ job[s] = Idle
    /\ Overlap \/ Quiet

Put(s, j) == job' = [job EXCEPT ![s] = j]

-----------------------------------------------------------------------------
(* The roster of a beat, and the parcels of a beat divided over it *)

Roster(b, rows) == {p \in Postmen :
    b # NoBeat /\ rows[p].covers = b /\ rows[p].status = "ACTIVE"}

Load(p, b) == Cardinality({d \in Deliveries :
    /\ parcel[d].beat = b /\ parcel[d].postman = p
    /\ parcel[d].status \in AutoAssignable})

(* pickLeastLoadedPostman: any of the least loaded; nobody if none covers. *)
LeastLoaded(b) ==
    LET roster == Roster(b, postman) IN
    IF roster = {} THEN {Nobody}
    ELSE {p \in roster : \A q \in roster : Load(p, b) <= Load(q, b)}

MovableIn(b) == {d \in Deliveries :
    /\ parcel[d].beat = b
    /\ parcel[d].status \in AutoAssignable
    /\ ~parcel[d].manual}

(* divideBeatDeliveries: the located parcels in near-equal slices, the     *)
(* others round robin, so two shares never differ by more than two.        *)
Plans(b, rows) ==
    LET roster == Roster(b, rows)
        Share(plan, p) == Cardinality({d \in DOMAIN plan : plan[d] = p})
    IN IF roster = {} THEN {[d \in MovableIn(b) |-> Nobody]}
       ELSE {plan \in [MovableIn(b) -> roster] :
               \A p, q \in roster : Share(plan, p) <= Share(plan, q) + 2}

InPlace(row, p) ==
    row.postman = p /\ ((p = Nobody) <=> (row.status = "SORTED"))

SyncedStatus(st, p) ==
    CASE p = Nobody /\ st = "ASSIGNED" -> "SORTED"
      [] p # Nobody /\ st = "SORTED"   -> "ASSIGNED"
      [] OTHER                         -> st

(* syncBeatDeliveries for one beat: what it will write. *)
SyncWrites(plan) ==
    {[delivery |-> d, status |-> SyncedStatus(parcel[d].status, plan[d]),
      postman |-> plan[d]] :
        d \in {e \in DOMAIN plan : ~InPlace(parcel[e], plan[e])}}

(* The transaction has changed these postmen's rows and now re-syncs the   *)
(* beats; the rows stay locked until it commits.                           *)
Locked == UNION {DOMAIN job[s].new : s \in {t \in Slots : job[t].kind = "sync"}}

Resync(s, new, beats) ==
    LET after == [p \in Postmen |-> IF p \in DOMAIN new THEN new[p] ELSE postman[p]]
    IN /\ DOMAIN new \cap Locked = {}
       /\ \E plan \in [beats -> UNION {Plans(b, after) : b \in beats}] :
            /\ \A b \in beats : plan[b] \in Plans(b, after)
            /\ Put(s, [kind |-> "sync", new |-> new,
                       writes |-> UNION {SyncWrites(plan[b]) : b \in beats}])
       /\ UNCHANGED <<parcel, postman, active>>

-----------------------------------------------------------------------------
(* assignDeliveryToBeat: read and match, look up the postman, write *)

SlipNeverSkipped(row) == ~row.manual
Matchable(row) ==
    row.status \in AutoAssignable \cup {"RECEIVED"} /\ ~row.manual

StartMatch(s, d, verdict) ==
    /\ Accept(s, "match")
    /\ Matchable(parcel[d])
    /\ verdict \in active \cup Verdicts
    /\ Put(s, [kind |-> "match", delivery |-> d, status |-> parcel[d].status,
               verdict |-> verdict, holder |-> Nobody])
    /\ UNCHANGED <<parcel, postman, active>>

ReadRoster(s) ==
    /\ job[s].kind = "match"
    /\ \E p \in LeastLoaded(job[s].verdict) :
         Put(s, [job[s] EXCEPT !.kind = "place", !.holder = p])
    /\ UNCHANGED <<parcel, postman, active>>

IsAssign(verdict) == verdict \in Beats

SlipOldVerdictStays(open, verdict, holder) ==
    IF ~IsAssign(verdict) THEN open \cup {verdict}
    ELSE IF holder = Nobody THEN {NoPostman} ELSE {}
OpenAfterVerdict(open, verdict, holder) ==
    IF ~IsAssign(verdict) THEN {verdict}
    ELSE IF holder = Nobody THEN {NoPostman} ELSE {}

ApplyDecision(s) ==
    LET j == job[s]
        d == j.delivery
        kept == IF j.status = "RESCHEDULED" THEN "RESCHEDULED"
                ELSE IF j.holder = Nobody THEN "SORTED" ELSE "ASSIGNED"
    IN /\ j.kind = "place"
       /\ parcel' = [parcel EXCEPT ![d] =
            [parcel[d] EXCEPT
                      !.status  = kept,
                      !.beat    = IF IsAssign(j.verdict) THEN j.verdict ELSE NoBeat,
                      !.postman = j.holder,
                      !.open    = OpenAfterVerdict(@, j.verdict, j.holder)]]
       /\ Put(s, Idle)
       /\ UNCHANGED <<postman, active>>

-----------------------------------------------------------------------------
(* assignPostmanToBeatTx, setBeatPostman(beat, null), applyPostmanStatus *)

StartCover(s, p, b) ==
    /\ Accept(s, "cover")
    /\ b = NoBeat \/ b \in active
    /\ Put(s, [kind |-> "cover", postman |-> p, beat |-> b,
               leaving |-> postman[p].covers])
    /\ UNCHANGED <<parcel, postman, active>>

SlipCopyForgotten(row, b) == [row EXCEPT !.covers = b]
Covering(row, b) == [row EXCEPT !.covers = b, !.assignedBeat = b]

AffectedBeats(j) == {j.leaving, j.beat} \ {NoBeat}

TakeBeat(s) ==
    LET j == job[s] IN
    /\ j.kind = "cover"
    /\ Resync(s, [p \in {j.postman} |-> Covering(postman[p], j.beat)],
              AffectedBeats(j))

StartClear(s, b) ==
    /\ Accept(s, "clear")
    /\ Put(s, [kind |-> "clear", beat |-> b,
               current |-> {p \in Postmen : postman[p].covers = b}])
    /\ UNCHANGED <<parcel, postman, active>>

(* The rows that are active now are ended; the copy is cleared for the     *)
(* postmen read before.                                                    *)
ClearBeat(s) ==
    LET j == job[s]
        now == {p \in Postmen : postman[p].covers = j.beat}
    IN /\ j.kind = "clear"
       /\ Resync(s, [p \in now \cup j.current |->
                       [postman[p] EXCEPT
                          !.covers       = IF p \in now THEN NoBeat ELSE @,
                          !.assignedBeat = IF p \in j.current THEN NoBeat ELSE @]],
                 {j.beat})

ApplyPostmanStatus(s, p, st) ==
    /\ Accept(s, "status")
    /\ Resync(s, [q \in {p} |-> [postman[q] EXCEPT
                    !.status = st,
                    !.login  = IF st = "ON_LEAVE" THEN @ ELSE st = "ACTIVE"]],
              {postman[p].covers} \ {NoBeat})

SlipReleasedSilently(open, p) == open \ {NoPostman}
OpenAfterSync(open, p) ==
    IF p = Nobody THEN open \cup {NoPostman} ELSE open \ {NoPostman}

CommitSync(s) ==
    LET j == job[s]
        Of(d) == CHOOSE w \in j.writes : w.delivery = d
    IN /\ j.kind = "sync"
       /\ postman' = [p \in Postmen |->
                        IF p \in DOMAIN j.new THEN j.new[p] ELSE postman[p]]
       /\ parcel' = [d \in Deliveries |->
            IF d \in {w.delivery : w \in j.writes}
              THEN [parcel[d] EXCEPT !.status  = Of(d).status,
                                     !.postman = Of(d).postman,
                                     !.open    = OpenAfterSync(@, Of(d).postman)]
              ELSE parcel[d]]
       /\ Put(s, Idle)
       /\ UNCHANGED active

(* POST /beats/:id/activate and /deactivate; activating also re-matches    *)
(* the office's parcels, one StartMatch each.                              *)
SetBeatStatus(b) ==
    /\ "beat" \in Work /\ (Overlap \/ Quiet)
    /\ active' = IF b \in active THEN active \ {b} ELSE active \cup {b}
    /\ UNCHANGED <<parcel, postman, job>>

-----------------------------------------------------------------------------
(* overrideAssignment, and the exceptions a person closes *)

Reassignable(row) == row.status \notin TerminalStatuses

(* A parcel handed to somebody else, or not yet with anybody, goes to      *)
(* ASSIGNED, a rescheduled one stays as it is.                             *)
NextStatus(row, p) ==
    IF p = Nobody \/ (p = row.postman /\ row.status \notin {"SORTED", "RECEIVED"})
      THEN Keep
      ELSE IF row.status = "RESCHEDULED" THEN "RESCHEDULED" ELSE "ASSIGNED"

StartOverride(s, d, b, p, reason) ==
    /\ Accept(s, IF reason = Keep THEN "override" ELSE "resolve")
    /\ reason # Keep => reason \in parcel[d].open
    /\ Reassignable(parcel[d])
    /\ p # Nobody => postman[p].status = "ACTIVE"
    /\ \E holder \in IF p # Nobody THEN {p}
                     ELSE IF b = NoBeat THEN {Nobody} ELSE LeastLoaded(b) :
         Put(s, [kind |-> "override", delivery |-> d, beat |-> b,
                 holder |-> holder, status |-> NextStatus(parcel[d], holder),
                 reason |-> reason])
    /\ UNCHANGED <<parcel, postman, active>>

Overridden(row, j) ==
    LET placed  == IF j.holder = Nobody THEN {} ELSE {NoPostman}
        matched == IF j.beat = NoBeat THEN {} ELSE MatchingReasons
        waits   == IF j.beat # NoBeat /\ j.holder = Nobody THEN {NoPostman} ELSE {}
    IN [row EXCEPT
          !.manual  = TRUE,
          !.status  = IF j.status = Keep THEN @ ELSE j.status,
          !.beat    = IF j.beat = NoBeat THEN @ ELSE j.beat,
          !.postman = IF j.holder = Nobody THEN @ ELSE j.holder,
          !.open    = (@ \ (placed \cup matched)) \cup waits]

(* The endpoint that resolves an exception closes it in a statement of its *)
(* own, unless the parcel still waits for a postman.                       *)
CommitOverride(s) ==
    LET j == job[s]
        d == j.delivery
        stillOpen == j.reason = NoPostman /\ parcel'[d].postman = Nobody
    IN /\ j.kind = "override"
       /\ parcel' = [parcel EXCEPT ![d] = Overridden(@, j)]
       /\ Put(s, IF j.reason \in parcel'[d].open /\ ~stillOpen
                   THEN [kind |-> "close", delivery |-> d, reason |-> j.reason]
                   ELSE Idle)
       /\ UNCHANGED <<postman, active>>

CloseException(s) ==
    /\ job[s].kind = "close"
    /\ parcel' = [parcel EXCEPT ![job[s].delivery].open = @ \ {job[s].reason}]
    /\ Put(s, Idle)
    /\ UNCHANGED <<postman, active>>

IgnoreException(d, reason) ==
    /\ "ignore" \in Work /\ (Overlap \/ Quiet)
    /\ reason \in parcel[d].open
    /\ parcel' = [parcel EXCEPT ![d].open = (@ \ {reason}) \cup {Ignored}]
    /\ UNCHANGED <<postman, active, job>>

-----------------------------------------------------------------------------
(* The postman and the office move the status on; a failed request or a    *)
(* crash drops a job, whose open transaction is rolled back.               *)

ReportStatus(d, st) ==
    /\ Overlap \/ Quiet
    /\ st \in Reported \cap AllowedTransitions[parcel[d].status]
    /\ parcel' = [parcel EXCEPT ![d].status = st]
    /\ UNCHANGED <<postman, active, job>>

RollBack(s) ==
    /\ "rollback" \in Work
    /\ job[s] # Idle
    /\ Put(s, Idle)
    /\ UNCHANGED <<parcel, postman, active>>

Step(s) ==
    \/ ReadRoster(s) \/ ApplyDecision(s)
    \/ TakeBeat(s) \/ ClearBeat(s) \/ CommitSync(s)
    \/ CommitOverride(s) \/ CloseException(s)
    \/ RollBack(s)

Next ==
    \/ \E s \in Slots : Step(s)
    \/ \E s \in Slots, d \in Deliveries :
         \/ \E verdict \in Beats \cup Verdicts : StartMatch(s, d, verdict)
         \/ \E b \in Beats \cup {NoBeat}, p \in Postmen \cup {Nobody},
               reason \in AllReasons \cup {Keep} : StartOverride(s, d, b, p, reason)
    \/ \E s \in Slots, p \in Postmen :
         \/ \E b \in Beats \cup {NoBeat} : StartCover(s, p, b)
         \/ \E st \in PostmanStatus : ApplyPostmanStatus(s, p, st)
    \/ \E s \in Slots, b \in Beats : StartClear(s, b)
    \/ \E b \in Beats : SetBeatStatus(b)
    \/ \E d \in Deliveries :
         \/ \E reason \in AllReasons : IgnoreException(d, reason)
         \/ \E st \in Status : ReportStatus(d, st)

Spec == Init /\ [][Next]_vars

-----------------------------------------------------------------------------
(* Properties *)

Waits(row) == row.status \in AutoAssignable /\ ~row.manual

(* The two records of who covers which beat never differ: "these three     *)
(* relations must always agree (this file is what keeps them in step)".    *)
CopyAgrees == \A p \in Postmen : postman[p].assignedBeat = postman[p].covers

(* A parcel the system placed and nobody has started is with an active     *)
(* postman of its beat, or with nobody if the beat has none: no change of  *)
(* roster leaves parcels behind.                                           *)
ParcelsFollowBeat ==
    \A d \in Deliveries :
        LET row == parcel[d] IN
        row.status \in {"SORTED", "ASSIGNED"} /\ ~row.manual =>
            /\ (row.status = "ASSIGNED") <=> (row.postman # Nobody)
            /\ LET roster == Roster(row.beat, postman)
               IN IF roster = {} THEN row.postman = Nobody
                                 ELSE row.postman \in roster

(* Row, copy and parcels follow one roster.                                *)
RosterIsFollowed == CopyAgrees /\ ParcelsFollowBeat

(* No exception of an older verdict stays open on a parcel that waits:     *)
(* without a beat at most one reason why, with a beat at most the missing  *)
(* postman, and only while it is missing.                                  *)
VerdictIsTrue ==
    \A d \in Deliveries :
        LET row == parcel[d] IN
        Waits(row) =>
            IF row.beat = NoBeat
              THEN \E reason \in MatchingReasons : row.open \subseteq {reason, Ignored}
              ELSE row.open \subseteq IF row.postman = Nobody THEN {NoPostman, Ignored} ELSE {Ignored}

(* However requests overlap, a parcel the system could not place is in the *)
(* administrator's list: while it waits for a beat or for a postman an     *)
(* exception is open, or a person has ignored one since the last verdict,  *)
(* unless parcels that were never matched are declared sorted by hand.     *)
WaitingIsVisible ==
    "SORTED" \notin Reported =>
    \A d \in Deliveries :
        LET row == parcel[d] IN
        Waits(row) /\ Ignored \notin row.open =>
            /\ row.beat = NoBeat => row.open \cap MatchingReasons # {}
            /\ row.beat # NoBeat /\ row.postman = Nobody => NoPostman \in row.open

ByHand(d) == \E s \in Slots :
    job[s].kind = "override" /\ job[s].delivery = d /\ job'[s] # job[s]

Holding(row) == <<row.beat, row.postman>>

(* Automatic work leaves a started, finished or hand-placed parcel alone:  *)
(* "A parcel that is out for delivery / finished must never be pulled back *)
(* by a re-match, and a hand-made assignment is not overwritten".          *)
LeftWithWhoeverHasIt ==
    [][\A d \in Deliveries :
         (\/ parcel[d].manual
          \/ parcel[d].status \notin AutoAssignable \cup {"RECEIVED"}) =>
            \/ ByHand(d)
            \/ /\ Holding(parcel'[d]) = Holding(parcel[d])
               /\ parcel'[d].status \in
                    {parcel[d].status} \cup AllowedTransitions[parcel[d].status]
      ]_vars

(* Nobody, not even by hand, reassigns a finished parcel (the 409 of       *)
(* overrideAssignment and of the bulk endpoint).                           *)
FinishedIsFinal ==
    [][\A d \in Deliveries : parcel[d].status \in TerminalStatuses =>
         /\ Holding(parcel'[d]) = Holding(parcel[d])
         /\ parcel'[d].status = parcel[d].status]_vars

=============================================================================
