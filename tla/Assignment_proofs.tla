-------------------------- MODULE Assignment_proofs --------------------------
(***************************************************************************)
(* For any number of requests, parcels, postmen and beats.  However        *)
(* requests overlap, a parcel that waits for a beat or a postman is in the *)
(* administrator's list (Listed).  With one request at a time what a       *)
(* request read stays true until it writes, whatever is rolled back        *)
(* (Serial): the records of who covers a beat agree, parcels follow their  *)
(* beat's roster, automatic work leaves started, finished and hand-placed  *)
(* parcels alone, and no parcel keeps a verdict that is no longer true     *)
(* (VerdictsTrue).                                                         *)
(***************************************************************************)
EXTENDS Assignment, TLAPS

-----------------------------------------------------------------------------
(* A parcel that waits is visible *)

RowFields == {"status", "beat", "postman", "manual", "open"}

(* A parcel that a person placed or looked at, or that needs nobody's attention or has  *)
(* it.  Once true it stays true, which makes it safe for a request to rely *)
(* on what it read of the parcel's status long ago.                        *)
Accounted(row) ==
    \/ row.manual
    \/ Ignored \in row.open
    \/ /\ row.beat = NoBeat => row.open \cap MatchingReasons # {}
       /\ row.beat # NoBeat /\ row.postman = Nobody => NoPostman \in row.open

RowsListed ==
    /\ DOMAIN parcel = Deliveries
    /\ \A d \in Deliveries :
         /\ DOMAIN parcel[d] = RowFields
         /\ Accounted(parcel[d]) \/ parcel[d].status \in {"RECEIVED", "CANCELLED"}

(* What a job is about to write concerns parcels that are accounted for;   *)
(* an exception is closed by itself only on a parcel placed by hand.       *)
JobListed(j) ==
    /\ j.kind \in {"match", "place"} =>
         /\ DOMAIN j = {"kind", "delivery", "status", "verdict", "holder"}
         /\ j.delivery \in Deliveries /\ j.verdict \in Beats \cup Verdicts
    /\ j.kind = "sync" => \A w \in j.writes :
         w.delivery \in Deliveries /\ Accounted(parcel[w.delivery])
    /\ j.kind = "override" => j.delivery \in Deliveries
    /\ j.kind = "close" => j.delivery \in Deliveries /\ parcel[j.delivery].manual

Listed ==
    /\ RowsListed
    /\ DOMAIN job = Slots
    /\ \A s \in Slots : JobListed(job[s])

(* No parcel is lost sight of, and hand-made placements stay hand-made.    *)
NothingForgotten ==
    \A d \in Deliveries :
        /\ Accounted(parcel[d]) => Accounted(parcel'[d])
        /\ parcel[d].manual => parcel'[d].manual

RowsStep == RowsListed' /\ NothingForgotten
JobStep(s) ==
    job' = [job EXCEPT ![s] = job'[s]] /\ JobListed(job[s])'

LEMMA StepKeepsListed ==
    ASSUME Listed, RowsStep, NEW s \in Slots, JobStep(s)
    PROVE  Listed'
<1>1. /\ DOMAIN job' = Slots /\ JobListed(job[s])'
      /\ \A t \in Slots \ {s} : job'[t] = job[t]
  BY DEF Listed, JobStep
<1>2. ASSUME NEW t \in Slots \ {s}
      PROVE  JobListed(job[t])'
  <2>1. job'[t] = job[t] /\ JobListed(job[t])
    BY <1>1 DEF Listed
  <2>. QED
    BY <2>1 DEF JobListed, RowsStep, NothingForgotten
<1>3. \A t \in Slots : JobListed(job[t])'
  BY <1>1, <1>2, Zenon
<1>. QED
  BY <1>1, <1>3 DEF Listed, RowsStep

LEMMA RowsStay ==
    ASSUME Listed, UNCHANGED parcel
    PROVE  RowsStep
BY DEF Listed, RowsStep, NothingForgotten, RowsListed, Accounted

(* One parcel gets a row that is accounted for, by hand if it was so.      *)
LEMMA OneRowStep ==
    ASSUME Listed, NEW d \in Deliveries, NEW row, DOMAIN row = RowFields,
           Accounted(row), parcel[d].manual => row.manual,
           parcel' = [parcel EXCEPT ![d] = row]
    PROVE  RowsStep
<1>1. /\ DOMAIN parcel' = Deliveries /\ parcel'[d] = row
      /\ \A e \in Deliveries \ {d} : parcel'[e] = parcel[e]
  BY DEF Listed, RowsListed
<1>2. \A e \in Deliveries : Accounted(parcel'[e]) <=> Accounted(parcel[e])'
  BY DEF Accounted
<1>. QED
  BY <1>1, <1>2 DEF Listed, RowsListed, RowsStep, NothingForgotten

(* The row applyDecision writes.                                           *)
Decided(row, status, verdict, holder) ==
    [row EXCEPT !.status  = status,
                !.beat    = IF IsAssign(verdict) THEN verdict ELSE NoBeat,
                !.postman = holder,
                !.open    = OpenAfterVerdict(@, verdict, holder)]

LEMMA VerdictIsListed ==
    ASSUME NEW row, DOMAIN row = RowFields, NEW verdict \in Beats \cup Verdicts,
           NEW holder, NEW status
    PROVE  LET new == Decided(row, status, verdict, holder)
           IN  DOMAIN new = RowFields /\ Accounted(new) /\ new.manual = row.manual
<1> DEFINE beat == IF IsAssign(verdict) THEN verdict ELSE NoBeat
           open == OpenAfterVerdict(row.open, verdict, holder)
           new == [row EXCEPT !.status = status, !.beat = beat,
                              !.postman = holder, !.open = open]
<1>1. beat = NoBeat => open \cap MatchingReasons # {}
  BY AssignmentAssumption DEF IsAssign, OpenAfterVerdict
<1>2. beat # NoBeat /\ holder = Nobody => NoPostman \in open
  BY DEF IsAssign, OpenAfterVerdict
<1>3. Decided(row, status, verdict, holder) = new
  BY DEF Decided
<1>. HIDE DEF beat, open
<1>4. /\ DOMAIN new = RowFields /\ new.beat = beat /\ new.postman = holder
      /\ new.open = open /\ new.manual = row.manual
  BY DEF RowFields
<1>. HIDE DEF new
<1>5. Accounted(new)
  BY <1>1, <1>2, <1>4 DEF Accounted
<1>. QED
  BY <1>3, <1>4, <1>5

LEMMA ApplyIsListed ==
    ASSUME Listed, NEW s \in Slots, ApplyDecision(s)
    PROVE  RowsStep /\ JobStep(s)
<1>1. /\ job[s].delivery \in Deliveries /\ job[s].verdict \in Beats \cup Verdicts
  BY DEF Listed, JobListed, ApplyDecision
<1> DEFINE d == job[s].delivery
           kept == IF job[s].status = "RESCHEDULED" THEN "RESCHEDULED"
                   ELSE IF job[s].holder = Nobody THEN "SORTED" ELSE "ASSIGNED"
           new == Decided(parcel[d], kept, job[s].verdict, job[s].holder)
<1>2. parcel' = [parcel EXCEPT ![d] = new] /\ job' = [job EXCEPT ![s] = Idle]
  BY DEF ApplyDecision, Put, Decided
<1>3. DOMAIN parcel[d] = RowFields
  BY <1>1 DEF Listed, RowsListed
<1>4. DOMAIN new = RowFields /\ Accounted(new) /\ new.manual = parcel[d].manual
  <2>. HIDE DEF kept
  <2>. QED
    BY <1>1, <1>3, VerdictIsListed
<1>. HIDE DEF new
<1>5. RowsStep
  BY <1>1, <1>2, <1>4, OneRowStep
<1>6. JobStep(s)
  BY <1>2 DEF JobStep, JobListed, Idle, Listed
<1>. QED
  BY <1>5, <1>6

LEMMA OverrideIsListed ==
    ASSUME Listed, NEW s \in Slots, CommitOverride(s)
    PROVE  RowsStep /\ JobStep(s)
<1> DEFINE d == job[s].delivery
           new == Overridden(parcel[d], job[s])
<1>1. d \in Deliveries /\ DOMAIN parcel[d] = RowFields
  BY DEF CommitOverride, Listed, JobListed, RowsListed
<1>2. DOMAIN new = RowFields /\ new.manual = TRUE
  BY <1>1 DEF Overridden, RowFields
<1>3. parcel' = [parcel EXCEPT ![d] = new]
  BY DEF CommitOverride
<1>4. Accounted(new)
  BY <1>2 DEF Accounted
<1>5. PICK j : job' = [job EXCEPT ![s] = j] /\
               j \in {Idle, [kind |-> "close", delivery |-> d, reason |-> job[s].reason]}
  <2>. HIDE DEF new
  <2>1. CASE job[s].reason \in parcel'[d].open /\
               ~(job[s].reason = NoPostman /\ parcel'[d].postman = Nobody)
    <3>. WITNESS [kind |-> "close", delivery |-> d, reason |-> job[s].reason]
    <3>. QED
      BY <2>1 DEF CommitOverride, Put
  <2>2. CASE ~(job[s].reason \in parcel'[d].open /\
               ~(job[s].reason = NoPostman /\ parcel'[d].postman = Nobody))
    <3>. WITNESS Idle
    <3>. QED
      BY <2>2 DEF CommitOverride, Put
  <2>. QED
    BY <2>1, <2>2
<1>. HIDE DEF new
<1>6. RowsStep
  BY <1>1, <1>2, <1>3, <1>4, OneRowStep
<1>7. parcel'[d].manual
  BY <1>1, <1>2, <1>3 DEF Listed, RowsListed
<1>8. JobStep(s)
  BY <1>1, <1>5, <1>7 DEF JobStep, JobListed, Idle, Listed
<1>. QED
  BY <1>6, <1>8

LEMMA PlansMoveMovable ==
    ASSUME NEW b, NEW rows, NEW plan \in Plans(b, rows), NEW w \in SyncWrites(plan)
    PROVE  w.delivery \in MovableIn(b)
<1>1. DOMAIN plan = MovableIn(b)
  BY DEF Plans
<1>2. PICK d \in DOMAIN plan :
        w = [delivery |-> d, status |-> SyncedStatus(parcel[d].status, plan[d]),
             postman |-> plan[d]]
  BY DEF SyncWrites
<1>. QED
  BY <1>1, <1>2

LEMMA MovableIsAccounted ==
    ASSUME Listed, NEW b, NEW d \in MovableIn(b)
    PROVE  d \in Deliveries /\ Accounted(parcel[d])
BY DEF MovableIn, AutoAssignable, Listed, RowsListed

LEMMA ResyncIsListed ==
    ASSUME Listed, NEW s \in Slots, NEW new, NEW beats, Resync(s, new, beats)
    PROVE  RowsStep /\ JobStep(s)
<1> DEFINE after == [p \in Postmen |-> IF p \in DOMAIN new THEN new[p] ELSE postman[p]]
<1>1. PICK plan \in [beats -> UNION {Plans(b, after) : b \in beats}] :
        /\ \A b \in beats : plan[b] \in Plans(b, after)
        /\ Put(s, [kind |-> "sync", new |-> new,
                   writes |-> UNION {SyncWrites(plan[b]) : b \in beats}])
  BY DEF Resync
<1>. HIDE DEF after
<1> DEFINE writes == UNION {SyncWrites(plan[b]) : b \in beats}
<1>2. \A w \in writes : w.delivery \in Deliveries /\ Accounted(parcel[w.delivery])
  <2>1. ASSUME NEW w \in writes
        PROVE  w.delivery \in Deliveries /\ Accounted(parcel[w.delivery])
    <3>1. PICK b \in beats : w \in SyncWrites(plan[b])
      OBVIOUS
    <3>2. w.delivery \in MovableIn(b)
      BY <1>1, <3>1, PlansMoveMovable
    <3>. QED
      BY <3>2, MovableIsAccounted
  <2>. QED
    BY <2>1
<1>3. job' = [job EXCEPT ![s] = [kind |-> "sync", new |-> new, writes |-> writes]]
      /\ UNCHANGED parcel
  BY <1>1 DEF Put, Resync
<1>. HIDE DEF writes
<1>4. JobListed(job[s])'
  BY <1>2, <1>3 DEF JobListed, Listed, Accounted
<1>5. job' = [job EXCEPT ![s] = job'[s]]
  BY <1>3 DEF Listed
<1>. QED
  BY <1>3, <1>4, <1>5, RowsStay DEF JobStep

LEMMA SyncKeepsAccounted ==
    ASSUME NEW row, DOMAIN row = RowFields, NEW status, NEW holder
    PROVE  LET new == [row EXCEPT !.status = status, !.postman = holder,
                                  !.open = OpenAfterSync(@, holder)]
           IN  /\ DOMAIN new = RowFields /\ (row.manual => new.manual)
               /\ Accounted(row) => Accounted(new)
<1> DEFINE open == OpenAfterSync(row.open, holder)
           new == [row EXCEPT !.status = status, !.postman = holder, !.open = open]
<1>1. /\ holder = Nobody => NoPostman \in open
      /\ row.open \cap MatchingReasons # {} => open \cap MatchingReasons # {}
      /\ Ignored \in row.open => Ignored \in open
  BY DEF OpenAfterSync, NoPostman, MatchingReasons, Ignored
<1>. HIDE DEF open
<1>2. /\ DOMAIN new = RowFields /\ new.manual = row.manual /\ new.beat = row.beat
      /\ new.postman = holder /\ new.open = open
  BY DEF RowFields
<1>. HIDE DEF new
<1>3. Accounted(row) => Accounted(new)
  BY <1>1, <1>2 DEF Accounted
<1>. QED
  BY <1>2, <1>3 DEF new, open

LEMMA CommitIsListed ==
    ASSUME Listed, NEW s \in Slots, CommitSync(s)
    PROVE  RowsStep /\ JobStep(s)
<1> DEFINE j == job[s]
           Of(d) == CHOOSE w \in j.writes : w.delivery = d
           written == {w.delivery : w \in j.writes}
           New(d) == [parcel[d] EXCEPT !.status = Of(d).status, !.postman = Of(d).postman,
                                       !.open = OpenAfterSync(@, Of(d).postman)]
<1>1. /\ parcel' = [d \in Deliveries |-> IF d \in written THEN New(d) ELSE parcel[d]]
      /\ job' = [job EXCEPT ![s] = Idle]
  BY DEF CommitSync, Put
<1>2. \A d \in written : Accounted(parcel[d])
  BY DEF CommitSync, Listed, JobListed
<1>. HIDE DEF written
<1>3. ASSUME NEW d \in Deliveries
      PROVE  /\ DOMAIN New(d) = RowFields /\ (parcel[d].manual => New(d).manual)
             /\ Accounted(parcel[d]) => Accounted(New(d))
  <2>1. DOMAIN parcel[d] = RowFields
    BY DEF Listed, RowsListed
  <2>. HIDE DEF Of
  <2>. QED
    BY <2>1, SyncKeepsAccounted
<1>. HIDE DEF New
<1>4. ASSUME NEW d \in Deliveries
      PROVE  /\ DOMAIN parcel'[d] = RowFields
             /\ Accounted(parcel'[d]) \/ parcel'[d].status \in {"RECEIVED", "CANCELLED"}
             /\ Accounted(parcel[d]) => Accounted(parcel'[d])
             /\ parcel[d].manual => parcel'[d].manual
  <2>1. CASE d \in written
    BY <1>1, <1>2, <1>3, <2>1
  <2>2. CASE d \notin written
    BY <1>1, <2>2 DEF Listed, RowsListed
  <2>. QED
    BY <2>1, <2>2
<1>5. RowsStep
  <2>1. DOMAIN parcel' = Deliveries
    BY <1>1
  <2>2. \A d \in Deliveries : Accounted(parcel'[d]) <=> Accounted(parcel[d])'
    BY DEF Accounted
  <2>. QED
    BY <1>4, <2>1, <2>2 DEF RowsStep, RowsListed, NothingForgotten
<1>6. JobStep(s)
  BY <1>1 DEF JobStep, JobListed, Idle, Listed
<1>. QED
  BY <1>5, <1>6

LEMMA CloseIsListed ==
    ASSUME Listed, NEW s \in Slots, CloseException(s)
    PROVE  RowsStep /\ JobStep(s)
<1> DEFINE d == job[s].delivery
           new == [parcel[d] EXCEPT !.open = @ \ {job[s].reason}]
<1>1. d \in Deliveries /\ parcel[d].manual /\ DOMAIN parcel[d] = RowFields
  BY DEF CloseException, Listed, JobListed, RowsListed
<1>2. parcel' = [parcel EXCEPT ![d] = new] /\ job' = [job EXCEPT ![s] = Idle]
  BY DEF CloseException, Put
<1>3. DOMAIN new = RowFields /\ new.manual
  BY <1>1 DEF RowFields
<1>. HIDE DEF new
<1>4. Accounted(new)
  BY <1>3 DEF Accounted
<1>5. RowsStep
  BY <1>1, <1>2, <1>3, <1>4, OneRowStep
<1>6. JobStep(s)
  BY <1>2 DEF JobStep, JobListed, Idle, Listed
<1>. QED
  BY <1>5, <1>6

(* The steps that only change what a request holds.                        *)
LEMMA ReadsAreListed ==
    ASSUME Listed, NEW s \in Slots,
           \/ ReadRoster(s) \/ RollBack(s)
           \/ \E d \in Deliveries, v \in Beats \cup Verdicts : StartMatch(s, d, v)
           \/ \E d \in Deliveries : \E b, p, reason : StartOverride(s, d, b, p, reason)
           \/ \E p, b : StartCover(s, p, b)
           \/ \E b : StartClear(s, b)
    PROVE  RowsStep /\ JobStep(s)
<1>1. UNCHANGED parcel
  BY DEF ReadRoster, RollBack, StartMatch, StartOverride, StartCover, StartClear
<1>2. JobStep(s)
  <2>1. CASE ReadRoster(s)
    <3>1. PICK p : job' = [job EXCEPT ![s] = [job[s] EXCEPT !.kind = "place", !.holder = p]]
      BY <2>1 DEF ReadRoster, Put
    <3>2. job[s].kind = "match"
      BY <2>1 DEF ReadRoster
    <3>. QED
      BY <1>1, <3>1, <3>2 DEF JobStep, JobListed, Listed
  <2>2. CASE RollBack(s)
    BY <2>2 DEF RollBack, Put, JobStep, JobListed, Listed, Idle
  <2>3. ASSUME NEW d \in Deliveries, NEW v \in Beats \cup Verdicts, StartMatch(s, d, v)
        PROVE  JobStep(s)
    BY <2>3 DEF StartMatch, Put, JobStep, JobListed, Listed
  <2>4. ASSUME NEW d \in Deliveries, NEW b, NEW p, NEW reason,
               StartOverride(s, d, b, p, reason)
        PROVE  JobStep(s)
    <3>1. PICK holder :
            Put(s, [kind |-> "override", delivery |-> d, beat |-> b, holder |-> holder,
                    status |-> NextStatus(parcel[d], holder), reason |-> reason])
      BY <2>4 DEF StartOverride
    <3>. QED
      BY <3>1 DEF Put, JobStep, JobListed, Listed
  <2>5. CASE \/ \E p, b : StartCover(s, p, b)
             \/ \E b : StartClear(s, b)
    BY <2>5 DEF StartCover, StartClear, Put, JobStep, JobListed, Listed
  <2>. QED
    BY <2>1, <2>2, <2>3, <2>4, <2>5
<1>. QED
  BY <1>1, <1>2, RowsStay

LEMMA FirstAndLastTransitions ==
    /\ AllowedTransitions["RECEIVED"] = {"SORTED", "CANCELLED"}
    /\ AllowedTransitions["CANCELLED"] = {}
<1>1. "RECEIVED" \in Status /\ "CANCELLED" \in Status
  BY DEF Status
<1>2. {"RECEIVED", "CANCELLED"} \cap FailedAttempt = {}
  BY DEF FailedAttempt
<1>3. AllowedTransitions["RECEIVED"] = {"SORTED", "CANCELLED"}
  BY <1>1, <1>2 DEF AllowedTransitions
<1>4. AllowedTransitions["CANCELLED"] = {}
  BY <1>1, <1>2 DEF AllowedTransitions
<1>. QED
  BY <1>3, <1>4

LEMMA ReportIsListed ==
    ASSUME Listed, "SORTED" \notin Reported, NEW d \in Deliveries, NEW st \in Status,
           ReportStatus(d, st)
    PROVE  Listed'
<1> DEFINE new == [parcel[d] EXCEPT !.status = st]
<1>1. /\ parcel' = [parcel EXCEPT ![d] = new] /\ UNCHANGED job
      /\ st \in Reported \cap AllowedTransitions[parcel[d].status]
  BY DEF ReportStatus
<1>2. DOMAIN new = RowFields /\ new.status = st /\ new.manual = parcel[d].manual
      /\ new.beat = parcel[d].beat /\ new.postman = parcel[d].postman
      /\ new.open = parcel[d].open
  BY DEF Listed, RowsListed, RowFields
<1>. HIDE DEF new
<1>3. Accounted(new) <=> Accounted(parcel[d])
  BY <1>2 DEF Accounted
<1>4. parcel[d].status # "CANCELLED"
  BY <1>1, FirstAndLastTransitions
<1>5. parcel[d].status = "RECEIVED" => st = "CANCELLED"
  BY <1>1, FirstAndLastTransitions
<1>6. /\ DOMAIN parcel' = Deliveries /\ parcel'[d] = new
      /\ \A e \in Deliveries \ {d} : parcel'[e] = parcel[e]
  BY <1>1 DEF Listed, RowsListed
<1>7. \A e \in Deliveries : Accounted(parcel'[e]) <=> Accounted(parcel[e])'
  BY DEF Accounted
<1>8. RowsStep
  BY <1>2, <1>3, <1>4, <1>5, <1>6, <1>7 DEF Listed, RowsListed, RowsStep, NothingForgotten
<1>9. (\A s \in Slots : JobListed(job[s]))'
  <2>1. ASSUME NEW s \in Slots PROVE JobListed(job[s])'
    <3>1. JobListed(job[s]) /\ job'[s] = job[s]
      BY <1>1 DEF Listed
    <3>. QED
      BY <1>8, <3>1 DEF JobListed, RowsStep, NothingForgotten
  <2>. QED
    BY <2>1
<1>. QED
  BY <1>1, <1>8, <1>9 DEF Listed, RowsStep

LEMMA IgnoreIsListed ==
    ASSUME Listed, NEW d \in Deliveries, NEW reason, IgnoreException(d, reason)
    PROVE  Listed'
<1> DEFINE new == [parcel[d] EXCEPT !.open = (@ \ {reason}) \cup {Ignored}]
<1>1. DOMAIN parcel[d] = RowFields
  BY DEF Listed, RowsListed
<1>2. parcel' = [parcel EXCEPT ![d] = new] /\ UNCHANGED job
  BY DEF IgnoreException
<1>3. DOMAIN new = RowFields /\ Ignored \in new.open /\ new.manual = parcel[d].manual
  BY <1>1 DEF RowFields
<1>. HIDE DEF new
<1>4. Accounted(new)
  BY <1>3 DEF Accounted
<1>5. RowsStep
  BY <1>2, <1>3, <1>4, OneRowStep
<1>6. ASSUME NEW s \in Slots PROVE JobListed(job[s])'
  <2>1. JobListed(job[s]) /\ job'[s] = job[s]
    BY <1>2 DEF Listed
  <2>. QED
    BY <1>5, <2>1 DEF JobListed, RowsStep, NothingForgotten
<1>. QED
  BY <1>2, <1>5, <1>6 DEF Listed, RowsStep

LEMMA ListedInit == Init => Listed
BY DEF Init, Listed, RowsListed, JobListed, RowFields, Idle

LEMMA ListedNext ==
    ASSUME "SORTED" \notin Reported, Listed, [Next]_vars
    PROVE  Listed'
<1>1. ASSUME NEW s \in Slots, RowsStep /\ JobStep(s) PROVE Listed'
  BY <1>1, StepKeepsListed
<1>2. ASSUME NEW s \in Slots, Step(s) PROVE Listed'
  <2>1. CASE TakeBeat(s)
    BY <1>1, <2>1, ResyncIsListed DEF TakeBeat
  <2>2. CASE ClearBeat(s)
    BY <1>1, <2>2, ResyncIsListed DEF ClearBeat
  <2>. QED
    BY <1>1, <1>2, <2>1, <2>2, ReadsAreListed, ApplyIsListed, CommitIsListed,
       OverrideIsListed, CloseIsListed DEF Step
<1>3. ASSUME NEW s \in Slots,
             \/ \E d \in Deliveries, v \in Beats \cup Verdicts : StartMatch(s, d, v)
             \/ \E d \in Deliveries : \E b, p, reason : StartOverride(s, d, b, p, reason)
             \/ \E p, b : StartCover(s, p, b)
             \/ \E b : StartClear(s, b)
      PROVE  Listed'
  BY <1>1, <1>3, ReadsAreListed
<1>4. ASSUME NEW s \in Slots, NEW p, NEW st, ApplyPostmanStatus(s, p, st)
      PROVE  Listed'
  BY <1>1, <1>4, ResyncIsListed DEF ApplyPostmanStatus
<1>5. ASSUME NEW d \in Deliveries, NEW st \in Status, ReportStatus(d, st)
      PROVE  Listed'
  BY <1>5, ReportIsListed
<1>9. ASSUME NEW d \in Deliveries, NEW reason, IgnoreException(d, reason)
      PROVE  Listed'
  BY <1>9, IgnoreIsListed
<1>6. CASE UNCHANGED <<parcel, job>>
  BY <1>6 DEF Listed, RowsListed, JobListed, Accounted
<1>7. CASE UNCHANGED vars
  BY <1>6, <1>7 DEF vars
<1>8. CASE Next
  BY <1>2, <1>3, <1>4, <1>5, <1>6, <1>8, <1>9 DEF Next, SetBeatStatus
<1>. QED
  BY <1>7, <1>8

(* WaitingIsVisible for any number of overlapping requests: whatever was   *)
(* read before, every write leaves the parcel accounted for.               *)
THEOREM WaitingStaysVisible == Spec => []WaitingIsVisible
<1>1. CASE "SORTED" \notin Reported
  <2>1. Listed => WaitingIsVisible
    BY DEF Listed, RowsListed, Accounted, WaitingIsVisible, Waits, AutoAssignable
  <2>2. Listed /\ [Next]_vars => Listed'
    BY <1>1, ListedNext
  <2>. QED
    BY ListedInit, <2>1, <2>2, PTL DEF Spec
<1>2. CASE "SORTED" \in Reported
  <2>1. WaitingIsVisible
    BY <1>2 DEF WaitingIsVisible
  <2>. QED
    BY <2>1, PTL
<1>. QED
  BY <1>1, <1>2

-----------------------------------------------------------------------------
(* One request at a time *)

PostmanFields == {"status", "login", "covers", "assignedBeat"}

PostmanOK(row) ==
    /\ DOMAIN row = PostmanFields
    /\ row.covers \in Beats \cup {NoBeat} /\ row.assignedBeat = row.covers

(* What ParcelsFollowBeat says of one parcel, given the postmen's rows; a  *)
(* parcel nobody has matched has neither a beat nor a postman.             *)
Followed(row, rows) == "ASSIGNED" \notin Reported =>
    /\ row.status \in {"SORTED", "ASSIGNED"} /\ ~row.manual =>
         /\ (row.status = "ASSIGNED") <=> (row.postman # Nobody)
         /\ LET roster == Roster(row.beat, rows)
            IN IF roster = {} THEN row.postman = Nobody ELSE row.postman \in roster
    /\ row.status = "RECEIVED" /\ ~row.manual =>
         row.beat = NoBeat /\ row.postman = Nobody

Tables ==
    /\ DOMAIN parcel = Deliveries /\ DOMAIN postman = Postmen
    /\ \A d \in Deliveries :
         /\ DOMAIN parcel[d] = RowFields
         /\ parcel[d].status \in Status /\ parcel[d].beat \in Beats \cup {NoBeat}
    /\ \A p \in Postmen : PostmanOK(postman[p])
    /\ \A d \in Deliveries : Followed(parcel[d], postman)

(* What a sync that is about to commit leaves behind.                      *)
RowsAfter(new) == [p \in Postmen |-> IF p \in DOMAIN new THEN new[p] ELSE postman[p]]
ParcelAfter(writes, d) ==
    LET Of == CHOOSE w \in writes : w.delivery = d
    IN  IF d \in {w.delivery : w \in writes}
          THEN [parcel[d] EXCEPT !.status  = Of.status,
                                 !.postman = Of.postman,
                                 !.open    = OpenAfterSync(@, Of.postman)]
          ELSE parcel[d]

(* With nobody else at work, what a request has read is still true.        *)
JobCurrent(j) ==
    /\ j.kind \in {"match", "place"} =>
         /\ DOMAIN j = {"kind", "delivery", "status", "verdict", "holder"}
         /\ j.delivery \in Deliveries /\ j.verdict \in Beats \cup Verdicts
         /\ Matchable(parcel[j.delivery]) /\ j.status = parcel[j.delivery].status
    /\ j.kind = "place" =>
         LET roster == Roster(j.verdict, postman)
         IN IF roster = {} THEN j.holder = Nobody ELSE j.holder \in roster
    /\ j.kind = "override" =>
         /\ j.delivery \in Deliveries /\ Reassignable(parcel[j.delivery])
         /\ j.status \in Status \cup {Keep} /\ j.beat \in Beats \cup {NoBeat}
    /\ j.kind = "close" => j.delivery \in Deliveries
    /\ j.kind = "cover" =>
         /\ j.postman \in Postmen /\ j.beat \in Beats \cup {NoBeat}
         /\ j.leaving = postman[j.postman].covers
    /\ j.kind = "clear" =>
         j.beat \in Beats /\ j.current = {p \in Postmen : postman[p].covers = j.beat}
    /\ j.kind = "sync" =>
         /\ \A p \in Postmen : PostmanOK(RowsAfter(j.new)[p])
         /\ \A d \in Deliveries : Followed(ParcelAfter(j.writes, d), RowsAfter(j.new))
         /\ \A d \in Deliveries : ParcelAfter(j.writes, d).status \in Status
         /\ \A w \in j.writes : w.delivery \in MovableIn(parcel[w.delivery].beat)

Serial ==
    /\ Tables
    /\ DOMAIN job = Slots
    /\ \A s, t \in Slots : job[s] # Idle /\ job[t] # Idle => s = t
    /\ \A s \in Slots : JobCurrent(job[s])

-----------------------------------------------------------------------------
(* The writes of a re-sync *)

LEMMA SyncWritesAre ==
    ASSUME NEW b, NEW rows, NEW plan \in Plans(b, rows)
    PROVE  /\ DOMAIN plan = MovableIn(b)
           /\ \A d \in MovableIn(b) :
                IF Roster(b, rows) = {} THEN plan[d] = Nobody
                                        ELSE plan[d] \in Roster(b, rows)
           /\ \A w \in SyncWrites(plan) :
                /\ w.delivery \in MovableIn(b)
                /\ ~InPlace(parcel[w.delivery], plan[w.delivery])
                /\ w.postman = plan[w.delivery]
                /\ w.status = SyncedStatus(parcel[w.delivery].status, plan[w.delivery])
           /\ \A d \in MovableIn(b) : ~InPlace(parcel[d], plan[d]) =>
                \E w \in SyncWrites(plan) : w.delivery = d
<1>1. /\ DOMAIN plan = MovableIn(b)
      /\ \A d \in MovableIn(b) :
           IF Roster(b, rows) = {} THEN plan[d] = Nobody ELSE plan[d] \in Roster(b, rows)
  <2>1. CASE Roster(b, rows) = {}
    BY <2>1 DEF Plans
  <2>2. CASE Roster(b, rows) # {}
    BY <2>2 DEF Plans
  <2>. QED
    BY <2>1, <2>2
<1>2. \A w \in SyncWrites(plan) : \E d \in MovableIn(b) :
        /\ ~InPlace(parcel[d], plan[d])
        /\ w = [delivery |-> d, status |-> SyncedStatus(parcel[d].status, plan[d]),
                postman |-> plan[d]]
  BY <1>1 DEF SyncWrites
<1>3. \A d \in MovableIn(b) : ~InPlace(parcel[d], plan[d]) =>
        [delivery |-> d, status |-> SyncedStatus(parcel[d].status, plan[d]),
         postman |-> plan[d]] \in SyncWrites(plan)
  BY <1>1 DEF SyncWrites
<1>4. \A w \in SyncWrites(plan) :
        /\ w.delivery \in MovableIn(b)
        /\ ~InPlace(parcel[w.delivery], plan[w.delivery])
        /\ w.postman = plan[w.delivery]
        /\ w.status = SyncedStatus(parcel[w.delivery].status, plan[w.delivery])
  BY <1>2
<1>5. \A d \in MovableIn(b) : ~InPlace(parcel[d], plan[d]) =>
        \E w \in SyncWrites(plan) : w.delivery = d
  <2>1. ASSUME NEW d \in MovableIn(b), ~InPlace(parcel[d], plan[d])
        PROVE  \E w \in SyncWrites(plan) : w.delivery = d
    <3> DEFINE w == [delivery |-> d, status |-> SyncedStatus(parcel[d].status, plan[d]),
                     postman |-> plan[d]]
    <3>1. w \in SyncWrites(plan) /\ w.delivery = d
      BY <1>3, <2>1
    <3>. QED
      BY <3>1
  <2>. QED
    BY <2>1
<1>. QED
  BY <1>1, <1>4, <1>5

(* A parcel of a re-synced beat, as the sync leaves it.                    *)
LEMMA SyncedIsFollowed ==
    ASSUME NEW row, DOMAIN row = RowFields, row.status \in AutoAssignable,
           NEW rows, NEW holder, NEW open,
           IF Roster(row.beat, rows) = {} THEN holder = Nobody
                                          ELSE holder \in Roster(row.beat, rows)
    PROVE  LET new == [row EXCEPT !.status  = SyncedStatus(row.status, holder),
                                  !.postman = holder, !.open = open]
           IN  /\ Followed(new, rows) /\ new.status \in Status
               /\ InPlace(row, holder) => Followed(row, rows)
<1> DEFINE status == SyncedStatus(row.status, holder)
           new == [row EXCEPT !.status = status, !.postman = holder, !.open = open]
<1>1. holder # Nobody <=> Roster(row.beat, rows) # {}
  BY AssignmentAssumption DEF Roster
<1>2. /\ status \in {"SORTED", "ASSIGNED", "RESCHEDULED"}
      /\ status # "RESCHEDULED" => (status = "ASSIGNED" <=> holder # Nobody)
  BY DEF SyncedStatus, AutoAssignable
<1>. HIDE DEF status
<1>3. new.status = status /\ new.postman = holder /\ new.beat = row.beat
  BY DEF RowFields
<1>. HIDE DEF new
<1>4. Followed(new, rows) /\ new.status \in Status
  BY <1>1, <1>2, <1>3 DEF Followed, Status
<1>5. InPlace(row, holder) => Followed(row, rows)
  BY <1>1 DEF InPlace, Followed, AutoAssignable
<1>. QED
  BY <1>4, <1>5 DEF new, status

(* A step that changes only what the request holds, which is current.      *)
Quietly(s) ==
    /\ UNCHANGED <<parcel, postman>> /\ job' = [job EXCEPT ![s] = job'[s]]
    /\ JobCurrent(job[s])'

(* The sync of the beats whose rosters change.                             *)
LEMMA ResyncIsCurrent ==
    ASSUME Serial, NEW s \in Slots, NEW new, NEW beats, Resync(s, new, beats),
           \A p \in Postmen : PostmanOK(RowsAfter(new)[p]),
           \A b \in Beats \ beats : Roster(b, RowsAfter(new)) = Roster(b, postman)
    PROVE  Quietly(s)
<1> DEFINE after == RowsAfter(new)
<1>1. PICK plan \in [beats -> UNION {Plans(b, after) : b \in beats}] :
        /\ \A b \in beats : plan[b] \in Plans(b, after)
        /\ Put(s, [kind |-> "sync", new |-> new,
                   writes |-> UNION {SyncWrites(plan[b]) : b \in beats}])
  BY DEF Resync, RowsAfter
<1>. HIDE DEF after
<1> DEFINE writes == UNION {SyncWrites(plan[b]) : b \in beats}
<1>2. \A w \in writes : \E b \in beats : w \in SyncWrites(plan[b])
  OBVIOUS
<1>3. \A b \in beats : \A w \in SyncWrites(plan[b]) : w \in writes
  OBVIOUS
<1>4. UNCHANGED <<parcel, postman>>
      /\ job' = [job EXCEPT ![s] = [kind |-> "sync", new |-> new, writes |-> writes]]
  BY <1>1 DEF Put, Resync
<1>. HIDE DEF writes
<1>5. \A w \in writes : /\ w.delivery \in MovableIn(parcel[w.delivery].beat)
                        /\ parcel[w.delivery].beat \in beats
                        /\ w.postman = plan[parcel[w.delivery].beat][w.delivery]
                        /\ w.status = SyncedStatus(parcel[w.delivery].status, w.postman)
                        /\ ~InPlace(parcel[w.delivery], w.postman)
  <2>1. ASSUME NEW w \in writes
        PROVE  /\ w.delivery \in MovableIn(parcel[w.delivery].beat)
               /\ parcel[w.delivery].beat \in beats
               /\ w.postman = plan[parcel[w.delivery].beat][w.delivery]
               /\ w.status = SyncedStatus(parcel[w.delivery].status, w.postman)
               /\ ~InPlace(parcel[w.delivery], w.postman)
    <3>1. PICK b \in beats : w \in SyncWrites(plan[b])
      BY <1>2
    <3>2. /\ w.delivery \in MovableIn(b) /\ w.postman = plan[b][w.delivery]
          /\ w.status = SyncedStatus(parcel[w.delivery].status, w.postman)
          /\ ~InPlace(parcel[w.delivery], w.postman)
      BY <1>1, <3>1, SyncWritesAre
    <3>3. parcel[w.delivery].beat = b
      BY <3>2 DEF MovableIn
    <3>. QED
      BY <3>2, <3>3
  <2>. QED
    BY <2>1
<1>6. ASSUME NEW d \in Deliveries
      PROVE  Followed(ParcelAfter(writes, d), after)
             /\ ParcelAfter(writes, d).status \in Status
  <2> DEFINE row == parcel[d]
  <2>0. DOMAIN row = RowFields /\ row.status \in Status
        /\ row.beat \in Beats \cup {NoBeat} /\ Followed(row, postman)
    BY DEF Serial, Tables
  <2>1. CASE d \in {w.delivery : w \in writes}
    <3> DEFINE Of == CHOOSE w \in writes : w.delivery = d
    <3>1. Of \in writes /\ Of.delivery = d
      BY <2>1
    <3>. HIDE DEF Of
    <3>2. /\ d \in MovableIn(row.beat) /\ row.beat \in beats
          /\ Of.postman = plan[row.beat][d]
          /\ Of.status = SyncedStatus(row.status, Of.postman)
      BY <1>5, <3>1
    <3>3. row.status \in AutoAssignable
      BY <3>2 DEF MovableIn
    <3>4. IF Roster(row.beat, after) = {} THEN Of.postman = Nobody
                                          ELSE Of.postman \in Roster(row.beat, after)
      BY <1>1, <3>2, SyncWritesAre
    <3> DEFINE holder == Of.postman
               open   == OpenAfterSync(row.open, holder)
    <3>5. ParcelAfter(writes, d) =
            [row EXCEPT !.status = Of.status, !.postman = holder, !.open = open]
      BY <2>1 DEF ParcelAfter, Of
    <3>6. Of.status = SyncedStatus(row.status, holder)
      BY <3>2
    <3>. HIDE DEF holder, open, row
    <3>7. LET left == [row EXCEPT !.status = SyncedStatus(row.status, holder),
                                 !.postman = holder, !.open = open]
          IN  Followed(left, after) /\ left.status \in Status
      BY <2>0, <3>3, <3>4, SyncedIsFollowed DEF holder
    <3>. QED
      BY <3>5, <3>6, <3>7
  <2>2. CASE d \notin {w.delivery : w \in writes}
    <3>1. ParcelAfter(writes, d) = row
      BY <2>2 DEF ParcelAfter
    <3>2. CASE d \in MovableIn(row.beat) /\ row.beat \in beats
      <4> DEFINE holder == plan[row.beat][d]
      <4>1. InPlace(row, holder)
        BY <1>1, <1>3, <2>2, <3>2, SyncWritesAre
      <4>2. IF Roster(row.beat, after) = {} THEN holder = Nobody
                                            ELSE holder \in Roster(row.beat, after)
        BY <1>1, <3>2, SyncWritesAre
      <4>3. row.status \in AutoAssignable
        BY <3>2 DEF MovableIn
      <4>. HIDE DEF holder
      <4>. QED
        BY <2>0, <3>1, <4>1, <4>2, <4>3, SyncedIsFollowed
    <3>3. CASE row.beat \notin beats
      <4>1. Roster(row.beat, after) = Roster(row.beat, postman)
        BY <2>0, <3>3 DEF Roster, after
      <4>. QED
        BY <2>0, <3>1, <4>1 DEF Followed
    <3>4. CASE d \notin MovableIn(row.beat)
      <4>1. row.status \notin {"SORTED", "ASSIGNED"} \/ row.manual
        BY <3>4 DEF MovableIn, AutoAssignable
      <4>. QED
        BY <2>0, <3>1, <4>1 DEF Followed
    <3>. QED
      BY <3>2, <3>3, <3>4
  <2>. QED
    BY <2>1, <2>2
<1> DEFINE j == [kind |-> "sync", new |-> new, writes |-> writes]
<1>7. /\ j.kind = "sync" /\ j.new = new /\ j.writes = writes
  OBVIOUS
<1>. HIDE DEF j
<1>8. job'[s] = j /\ job' = [job EXCEPT ![s] = job'[s]]
  BY <1>4 DEF Serial, j
<1>9. JobCurrent(j)
  BY <1>5, <1>6, <1>7 DEF JobCurrent, after
<1>10. JobCurrent(job[s])'
  <2>1. RowsAfter(job[s].new)' = RowsAfter(new)
    BY <1>4, <1>7, <1>8 DEF RowsAfter
  <2>2. (\A p \in Postmen : PostmanOK(RowsAfter(job[s].new)[p]))'
    BY <2>1
  <2>3. ASSUME NEW d \in Deliveries
        PROVE  (ParcelAfter(job[s].writes, d))' = ParcelAfter(writes, d)
    <3>1. (job[s].writes)' = writes /\ parcel' = parcel
      BY <1>4, <1>7, <1>8
    <3>. QED
      BY <3>1, Zenon DEF ParcelAfter
  <2>4. (\A d \in Deliveries :
           /\ Followed(ParcelAfter(job[s].writes, d), RowsAfter(job[s].new))
           /\ ParcelAfter(job[s].writes, d).status \in Status)'
    BY <1>6, <2>1, <2>3 DEF after
  <2>5. (\A w \in job[s].writes : w.delivery \in MovableIn(parcel[w.delivery].beat))'
    BY <1>4, <1>5, <1>7, <1>8 DEF MovableIn
  <2>6. (job[s].kind)' = "sync"
    BY <1>7, <1>8
  <2>. QED
    BY <2>2, <2>4, <2>5, <2>6 DEF JobCurrent
<1>. QED
  BY <1>4, <1>8, <1>10 DEF Quietly

-----------------------------------------------------------------------------
(* The changes of the roster *)

LEMMA CoverIsCurrent ==
    ASSUME Serial, NEW s \in Slots, TakeBeat(s)
    PROVE  Quietly(s)
<1> DEFINE p == job[s].postman
           b == job[s].beat
           new == [q \in {p} |-> Covering(postman[q], b)]
<1>1. /\ p \in Postmen /\ b \in Beats \cup {NoBeat}
      /\ job[s].leaving = postman[p].covers
  BY DEF TakeBeat, Serial, JobCurrent
<1>2. Resync(s, new, AffectedBeats(job[s]))
  BY DEF TakeBeat
<1>3. \A q \in Postmen : RowsAfter(new)[q] = IF q = p THEN Covering(postman[p], b)
                                                       ELSE postman[q]
  BY DEF RowsAfter
<1>4. /\ PostmanOK(Covering(postman[p], b)) /\ Covering(postman[p], b).covers = b
  <2>1. PostmanOK(postman[p])
    BY <1>1 DEF Serial, Tables
  <2>. QED
    BY <1>1, <2>1 DEF Covering, PostmanOK, PostmanFields
<1>. HIDE DEF new
<1>5. \A q \in Postmen : PostmanOK(RowsAfter(new)[q])
  BY <1>3, <1>4 DEF Serial, Tables
<1>6. \A c \in Beats \ AffectedBeats(job[s]) : Roster(c, RowsAfter(new)) = Roster(c, postman)
  <2>1. ASSUME NEW c \in Beats, c \notin AffectedBeats(job[s])
        PROVE  Roster(c, RowsAfter(new)) = Roster(c, postman)
    <3>1. c # b /\ c # postman[p].covers
      BY <1>1, <2>1, AssignmentAssumption DEF AffectedBeats
    <3>. QED
      BY <1>3, <1>4, <3>1 DEF Roster
  <2>. QED
    BY <2>1
<1>. QED
  BY <1>2, <1>5, <1>6, ResyncIsCurrent

LEMMA ClearIsCurrent ==
    ASSUME Serial, NEW s \in Slots, ClearBeat(s)
    PROVE  Quietly(s)
<1> DEFINE b == job[s].beat
           now == {p \in Postmen : postman[p].covers = b}
           current == job[s].current
           new == [p \in now \cup current |->
                     [postman[p] EXCEPT
                        !.covers       = IF p \in now THEN NoBeat ELSE @,
                        !.assignedBeat = IF p \in current THEN NoBeat ELSE @]]
<1>1. b \in Beats /\ current = now
  BY DEF ClearBeat, Serial, JobCurrent
<1>2. Resync(s, new, {b})
  BY DEF ClearBeat
<1>3. \A p \in Postmen :
        RowsAfter(new)[p] = IF p \in now
                              THEN [postman[p] EXCEPT !.covers = NoBeat, !.assignedBeat = NoBeat]
                              ELSE postman[p]
  BY <1>1 DEF RowsAfter
<1>. HIDE DEF new
<1>4. \A p \in Postmen : PostmanOK(RowsAfter(new)[p])
  <2>1. \A p \in Postmen : PostmanOK(postman[p])
    BY DEF Serial, Tables
  <2>. QED
    BY <1>3, <2>1 DEF PostmanOK, PostmanFields
<1>5. \A c \in Beats \ {b} : Roster(c, RowsAfter(new)) = Roster(c, postman)
  <2>1. ASSUME NEW c \in Beats, c # b, NEW p \in Postmen
        PROVE  RowsAfter(new)[p].covers = c <=> postman[p].covers = c
    <3>1. PostmanOK(postman[p]) /\ c # NoBeat
      BY AssignmentAssumption DEF Serial, Tables
    <3>. QED
      BY <1>3, <2>1, <3>1 DEF PostmanOK, PostmanFields
  <2>2. \A p \in Postmen : RowsAfter(new)[p].status = postman[p].status
    <3>1. \A p \in Postmen : PostmanOK(postman[p])
      BY DEF Serial, Tables
    <3>. QED
      BY <1>3, <3>1 DEF PostmanOK, PostmanFields
  <2>. QED
    BY <2>1, <2>2 DEF Roster
<1>. QED
  BY <1>2, <1>4, <1>5, ResyncIsCurrent

LEMMA StatusIsCurrent ==
    ASSUME Serial, NEW s \in Slots, NEW p \in Postmen, NEW st, ApplyPostmanStatus(s, p, st)
    PROVE  Quietly(s)
<1> DEFINE row == [postman[p] EXCEPT
                     !.status = st,
                     !.login  = IF st = "ON_LEAVE" THEN @ ELSE st = "ACTIVE"]
           new == [q \in {p} |-> [postman[q] EXCEPT
                     !.status = st,
                     !.login  = IF st = "ON_LEAVE" THEN @ ELSE st = "ACTIVE"]]
           beats == {postman[p].covers} \ {NoBeat}
<1>1. Resync(s, new, beats)
  BY DEF ApplyPostmanStatus
<1>2. \A q \in Postmen : RowsAfter(new)[q] = IF q = p THEN row ELSE postman[q]
  BY DEF RowsAfter
<1>3. PostmanOK(row) /\ row.covers = postman[p].covers
  <2>1. PostmanOK(postman[p])
    BY DEF Serial, Tables
  <2>. QED
    BY <2>1 DEF PostmanOK, PostmanFields
<1>. HIDE DEF new, row
<1>4. \A q \in Postmen : PostmanOK(RowsAfter(new)[q])
  BY <1>2, <1>3 DEF Serial, Tables
<1>5. \A c \in Beats \ beats : Roster(c, RowsAfter(new)) = Roster(c, postman)
  <2>1. ASSUME NEW c \in Beats, c \notin beats
        PROVE  Roster(c, RowsAfter(new)) = Roster(c, postman)
    <3>1. c # postman[p].covers
      BY <2>1, AssignmentAssumption
    <3>. QED
      BY <1>2, <1>3, <3>1 DEF Roster
  <2>. QED
    BY <2>1
<1>. QED
  BY <1>1, <1>4, <1>5, ResyncIsCurrent

LEMMA IdleIsCurrent == ASSUME NEW s, job[s] = Idle PROVE JobCurrent(job[s])
BY DEF Idle, JobCurrent

LEMMA LeastLoadedIsInRoster ==
    ASSUME NEW b, NEW p \in LeastLoaded(b)
    PROVE  IF Roster(b, postman) = {} THEN p = Nobody ELSE p \in Roster(b, postman)
BY DEF LeastLoaded

LEMMA RosterReadIsCurrent ==
    ASSUME Serial, NEW s \in Slots, ReadRoster(s)
    PROVE  Quietly(s)
<1>1. PICK p \in LeastLoaded(job[s].verdict) :
        Put(s, [job[s] EXCEPT !.kind = "place", !.holder = p])
  BY DEF ReadRoster
<1> DEFINE j == [job[s] EXCEPT !.kind = "place", !.holder = p]
<1>2. JobCurrent(job[s]) /\ job[s].kind = "match"
  BY DEF Serial, ReadRoster
<1>3. /\ DOMAIN j = DOMAIN job[s] /\ j.kind = "place" /\ j.holder = p
      /\ j.delivery = job[s].delivery /\ j.status = job[s].status
      /\ j.verdict = job[s].verdict
  BY <1>2 DEF JobCurrent
<1>4. job' = [job EXCEPT ![s] = j] /\ UNCHANGED <<parcel, postman>>
  BY <1>1 DEF ReadRoster, Put
<1>. HIDE DEF j
<1>5. JobCurrent(j)
  <2>1. IF Roster(j.verdict, postman) = {} THEN j.holder = Nobody
                                           ELSE j.holder \in Roster(j.verdict, postman)
    BY <1>3, LeastLoadedIsInRoster
  <2>. QED
    BY <1>2, <1>3, <2>1 DEF JobCurrent
<1>6. job'[s] = j
  BY <1>4 DEF Serial
<1>7. JobCurrent(job[s])'
  BY <1>3, <1>4, <1>5, <1>6 DEF JobCurrent, Roster
<1>. QED
  BY <1>4, <1>6, <1>7 DEF Quietly

LEMMA StartsAreCurrent ==
    ASSUME Serial, NEW s \in Slots,
           \/ \E d \in Deliveries, v \in Beats \cup Verdicts : StartMatch(s, d, v)
           \/ \E p \in Postmen, b \in Beats \cup {NoBeat} : StartCover(s, p, b)
           \/ \E b \in Beats : StartClear(s, b)
           \/ RollBack(s)
    PROVE  Quietly(s)
<1>1. ASSUME NEW d \in Deliveries, NEW v \in Beats \cup Verdicts, StartMatch(s, d, v)
      PROVE  Quietly(s)
  BY <1>1 DEF StartMatch, Put, Quietly, JobCurrent, Serial, Matchable
<1>2. ASSUME NEW p \in Postmen, NEW b \in Beats \cup {NoBeat}, StartCover(s, p, b)
      PROVE  Quietly(s)
  BY <1>2 DEF StartCover, Put, Quietly, JobCurrent, Serial
<1>3. ASSUME NEW b \in Beats, StartClear(s, b)
      PROVE  Quietly(s)
  BY <1>3 DEF StartClear, Put, Quietly, JobCurrent, Serial
<1>4. CASE RollBack(s)
  BY <1>4 DEF RollBack, Put, Quietly, JobCurrent, Serial, Idle
<1>. QED
  BY <1>1, <1>2, <1>3, <1>4

LEMMA OverrideStartIsCurrent ==
    ASSUME Serial, NEW s \in Slots, NEW d \in Deliveries, NEW b \in Beats \cup {NoBeat},
           NEW p, NEW reason, StartOverride(s, d, b, p, reason)
    PROVE  Quietly(s)
<1>1. PICK holder :
        Put(s, [kind |-> "override", delivery |-> d, beat |-> b, holder |-> holder,
                status |-> NextStatus(parcel[d], holder), reason |-> reason])
  BY DEF StartOverride
<1>2. NextStatus(parcel[d], holder) \in Status \cup {Keep}
  BY DEF NextStatus, Status
<1>3. Reassignable(parcel[d]) /\ UNCHANGED <<parcel, postman>>
  BY DEF StartOverride
<1>. QED
  BY <1>1, <1>2, <1>3 DEF Put, Quietly, JobCurrent, Serial, Reassignable

-----------------------------------------------------------------------------
(* The writes *)

(* One parcel gets a row that follows its beat.                            *)
LEMMA OneRowTables ==
    ASSUME Serial, NEW d \in Deliveries, NEW row, DOMAIN row = RowFields,
           row.status \in Status, row.beat \in Beats \cup {NoBeat},
           Followed(row, postman),
           parcel' = [parcel EXCEPT ![d] = row], UNCHANGED postman
    PROVE  Tables'
<1>1. /\ DOMAIN parcel' = Deliveries /\ parcel'[d] = row
      /\ \A e \in Deliveries \ {d} : parcel'[e] = parcel[e]
  BY DEF Serial, Tables
<1>. QED
  BY <1>1 DEF Serial, Tables

(* The request ends, or only closes an exception.                          *)
Finishes(s) ==
    /\ Tables' /\ job' = [job EXCEPT ![s] = job'[s]]
    /\ JobCurrent(job[s])'

LEMMA IdleFinishes ==
    ASSUME Serial, NEW s \in Slots, Tables', job' = [job EXCEPT ![s] = Idle]
    PROVE  Finishes(s)
<1>1. job'[s] = Idle
  BY DEF Serial
<1>2. JobCurrent(job[s])'
  BY <1>1 DEF JobCurrent, Idle
<1>. QED
  BY <1>1, <1>2 DEF Finishes

LEMMA ApplyFinishes ==
    ASSUME Serial, NEW s \in Slots, ApplyDecision(s)
    PROVE  Finishes(s)
<1> DEFINE j == job[s]
           d == j.delivery
           kept == IF j.status = "RESCHEDULED" THEN "RESCHEDULED"
                   ELSE IF j.holder = Nobody THEN "SORTED" ELSE "ASSIGNED"
           beat == IF IsAssign(j.verdict) THEN j.verdict ELSE NoBeat
           row == Decided(parcel[d], kept, j.verdict, j.holder)
<1>1. /\ d \in Deliveries /\ j.verdict \in Beats \cup Verdicts
      /\ IF Roster(j.verdict, postman) = {} THEN j.holder = Nobody
                                            ELSE j.holder \in Roster(j.verdict, postman)
  BY DEF ApplyDecision, Serial, JobCurrent
<1>2. DOMAIN parcel[d] = RowFields
  BY <1>1 DEF Serial, Tables
<1>3. /\ parcel' = [parcel EXCEPT ![d] = row] /\ job' = [job EXCEPT ![s] = Idle]
      /\ UNCHANGED postman
  BY DEF ApplyDecision, Put, Decided
<1>4. beat \in Beats \cup {NoBeat}
  BY DEF IsAssign
<1>5. IF Roster(beat, postman) = {} THEN j.holder = Nobody
                                    ELSE j.holder \in Roster(beat, postman)
  <2>1. CASE j.verdict \in Beats
    BY <1>1, <2>1 DEF IsAssign
  <2>2. CASE j.verdict \notin Beats
    <3>1. j.verdict \in AllReasons /\ j.verdict \notin Beats
      BY <1>1, <2>2, AssignmentAssumption DEF AllReasons
    <3>2. Roster(j.verdict, postman) = {}
      <4>1. NoBeat \notin AllReasons
        BY DEF NoBeat, AllReasons, MatchingReasons, NoPostman
      <4>. QED
        BY <3>1, <4>1 DEF Roster, Serial, Tables, PostmanOK
    <3>3. Roster(beat, postman) = {}
      BY <2>2 DEF IsAssign, Roster
    <3>. QED
      BY <1>1, <3>2, <3>3
  <2>. QED
    BY <2>1, <2>2
<1>6. j.holder # Nobody <=> Roster(beat, postman) # {}
  BY <1>5, AssignmentAssumption DEF Roster
<1>7. /\ kept \in {"SORTED", "ASSIGNED", "RESCHEDULED"}
      /\ kept # "RESCHEDULED" => (kept = "ASSIGNED" <=> j.holder # Nobody)
  OBVIOUS
<1>8. /\ DOMAIN row = RowFields /\ row.status = kept /\ row.beat = beat
      /\ row.postman = j.holder
  BY <1>2 DEF RowFields, Decided
<1>. HIDE DEF row, kept, beat
<1>9. Followed(row, postman) /\ row.status \in Status
  BY <1>5, <1>6, <1>7, <1>8 DEF Followed, Status
<1>10. Tables'
  BY <1>1, <1>3, <1>4, <1>8, <1>9, OneRowTables
<1>. QED
  BY <1>3, <1>10, IdleFinishes

LEMMA OverrideFinishes ==
    ASSUME Serial, NEW s \in Slots, CommitOverride(s)
    PROVE  Finishes(s)
<1> DEFINE j == job[s]
           d == j.delivery
           row == Overridden(parcel[d], j)
           closes == [kind |-> "close", delivery |-> d, reason |-> j.reason]
<1>1. /\ d \in Deliveries /\ j.status \in Status \cup {Keep}
      /\ j.beat \in Beats \cup {NoBeat}
  BY DEF CommitOverride, Serial, JobCurrent
<1>2. /\ DOMAIN parcel[d] = RowFields /\ parcel[d].status \in Status
      /\ parcel[d].beat \in Beats \cup {NoBeat}
  BY <1>1 DEF Serial, Tables
<1>3. /\ DOMAIN row = RowFields /\ row.manual = TRUE
      /\ row.status = (IF j.status = Keep THEN parcel[d].status ELSE j.status)
      /\ row.beat = (IF j.beat = NoBeat THEN parcel[d].beat ELSE j.beat)
  BY <1>2 DEF Overridden, RowFields
<1>4. parcel' = [parcel EXCEPT ![d] = row] /\ UNCHANGED postman
  BY DEF CommitOverride
<1>. HIDE DEF row
<1>5. row.status \in Status /\ row.beat \in Beats \cup {NoBeat}
  BY <1>1, <1>2, <1>3
<1>6. Followed(row, postman)
  BY <1>3 DEF Followed
<1>7. Tables'
  BY <1>1, <1>3, <1>4, <1>5, <1>6, OneRowTables
<1>8. job' = [job EXCEPT ![s] = Idle] \/ job' = [job EXCEPT ![s] = closes]
  BY DEF CommitOverride, Put
<1>9. CASE job' = [job EXCEPT ![s] = closes]
  <2>1. job'[s] = closes
    BY <1>9 DEF Serial
  <2>2. closes.kind = "close" /\ closes.delivery = d
    OBVIOUS
  <2>. HIDE DEF closes
  <2>3. JobCurrent(job[s])'
    BY <1>1, <2>1, <2>2 DEF JobCurrent
  <2>. QED
    BY <1>7, <1>9, <2>1, <2>3 DEF Finishes
<1>. QED
  BY <1>7, <1>8, <1>9, IdleFinishes

(* Only the open exceptions of a parcel change.                            *)
LEMMA OpenTables ==
    ASSUME Serial, NEW d \in Deliveries, NEW open,
           parcel' = [parcel EXCEPT ![d].open = open], UNCHANGED postman
    PROVE  Tables'
<1> DEFINE row == [parcel[d] EXCEPT !.open = open]
<1>1. /\ DOMAIN parcel[d] = RowFields /\ parcel[d].status \in Status
      /\ parcel[d].beat \in Beats \cup {NoBeat} /\ Followed(parcel[d], postman)
  BY DEF Serial, Tables
<1>2. /\ DOMAIN row = RowFields /\ row.status = parcel[d].status
      /\ row.beat = parcel[d].beat /\ row.manual = parcel[d].manual
      /\ row.postman = parcel[d].postman
  BY <1>1 DEF RowFields
<1>3. parcel' = [parcel EXCEPT ![d] = row]
  BY DEF Serial, Tables
<1>. HIDE DEF row
<1>4. Followed(row, postman)
  BY <1>1, <1>2 DEF Followed
<1>. QED
  BY <1>1, <1>2, <1>3, <1>4, OneRowTables

LEMMA CloseFinishes ==
    ASSUME Serial, NEW s \in Slots, CloseException(s)
    PROVE  Finishes(s)
<1> DEFINE open == parcel[job[s].delivery].open \ {job[s].reason}
<1>1. /\ job[s].delivery \in Deliveries /\ UNCHANGED postman
      /\ parcel' = [parcel EXCEPT ![job[s].delivery].open = open]
      /\ job' = [job EXCEPT ![s] = Idle]
  BY DEF CloseException, Put, Serial, JobCurrent
<1>. HIDE DEF open
<1>. QED
  BY <1>1, OpenTables, IdleFinishes

LEMMA CommitFinishes ==
    ASSUME Serial, NEW s \in Slots, CommitSync(s)
    PROVE  Finishes(s)
<1> DEFINE j == job[s]
<1>1. /\ postman' = RowsAfter(j.new) /\ job' = [job EXCEPT ![s] = Idle]
      /\ parcel' = [d \in Deliveries |-> ParcelAfter(j.writes, d)]
  BY DEF CommitSync, Put, RowsAfter, ParcelAfter
<1>2. /\ \A p \in Postmen : PostmanOK(RowsAfter(j.new)[p])
      /\ \A d \in Deliveries : Followed(ParcelAfter(j.writes, d), RowsAfter(j.new))
      /\ \A d \in Deliveries : ParcelAfter(j.writes, d).status \in Status
  BY DEF CommitSync, Serial, JobCurrent
<1>3. \A d \in Deliveries : DOMAIN ParcelAfter(j.writes, d) = DOMAIN parcel[d]
  BY DEF ParcelAfter
<1>4. ASSUME NEW d \in Deliveries
      PROVE  ParcelAfter(j.writes, d).beat = parcel[d].beat
  <2>1. DOMAIN parcel[d] = RowFields
    BY DEF Serial, Tables
  <2>. QED
    BY <2>1 DEF ParcelAfter, RowFields
<1>5. DOMAIN RowsAfter(j.new) = Postmen
  BY DEF RowsAfter
<1>6. Tables'
  <2>1. DOMAIN parcel' = Deliveries /\ DOMAIN postman' = Postmen
    BY <1>1, <1>5
  <2>2. \A d \in Deliveries : parcel'[d] = ParcelAfter(j.writes, d)
    BY <1>1
  <2>3. \A d \in Deliveries :
          /\ DOMAIN parcel'[d] = RowFields
          /\ parcel'[d].status \in Status /\ parcel'[d].beat \in Beats \cup {NoBeat}
    BY <1>2, <1>3, <1>4, <2>2 DEF Serial, Tables
  <2>4. \A p \in Postmen : PostmanOK(postman'[p])
    BY <1>1, <1>2
  <2>5. \A d \in Deliveries : Followed(parcel'[d], postman')
    BY <1>1, <1>2, <2>2
  <2>. QED
    BY <2>1, <2>3, <2>4, <2>5 DEF Tables
<1>. QED
  BY <1>1, <1>6, IdleFinishes

(* No status but RECEIVED leads to SORTED, and none to RECEIVED.           *)
LEMMA TransitionsToSorted ==
    ASSUME NEW x \in Status, NEW y \in AllowedTransitions[x]
    PROVE  /\ y # "RECEIVED" /\ y \in Status
           /\ y = "SORTED" => x = "RECEIVED"
<1>1. \/ x = "RECEIVED" /\ y \in {"SORTED", "CANCELLED"}
      \/ y \in {"ASSIGNED", "CANCELLED", "OUT_FOR_DELIVERY", "RESCHEDULED", "RETURNED",
                "DELIVERED"} \cup FailedAttempt
  BY DEF AllowedTransitions
<1>. QED
  BY <1>1 DEF FailedAttempt, Status

LEMMA ReportTables ==
    ASSUME Serial, NEW d \in Deliveries, NEW st \in Status, ReportStatus(d, st)
    PROVE  Tables'
<1> DEFINE row == [parcel[d] EXCEPT !.status = st]
<1>1. /\ DOMAIN parcel[d] = RowFields /\ parcel[d].status \in Status
      /\ parcel[d].beat \in Beats \cup {NoBeat} /\ Followed(parcel[d], postman)
  BY DEF Serial, Tables
<1>2. /\ DOMAIN row = RowFields /\ row.status = st
      /\ row.beat = parcel[d].beat /\ row.manual = parcel[d].manual
      /\ row.postman = parcel[d].postman
  BY <1>1 DEF RowFields
<1>3. /\ parcel' = [parcel EXCEPT ![d] = row] /\ UNCHANGED postman
      /\ st \in Reported /\ st \in AllowedTransitions[parcel[d].status]
  BY DEF ReportStatus, Serial, Tables
<1>. HIDE DEF row
<1>4. st # "RECEIVED" /\ (st = "SORTED" => parcel[d].status = "RECEIVED")
  BY <1>1, <1>3, TransitionsToSorted
<1>5. Followed(row, postman)
  BY <1>1, <1>2, <1>3, <1>4 DEF Followed, Roster
<1>. QED
  BY <1>1, <1>2, <1>3, <1>5, OneRowTables

-----------------------------------------------------------------------------
(* One request at a time: the invariant *)

LEMMA SerialInit == Init => Serial
BY AssignmentAssumption DEF Init, Serial, Tables, PostmanOK, PostmanFields, RowFields,
   Followed, JobCurrent, Idle, Status

LEMMA AloneKeepsSerial ==
    ASSUME Serial, NEW s \in Slots, \A t \in Slots \ {s} : job[t] = Idle,
           Quietly(s) \/ Finishes(s)
    PROVE  Serial'
<1>1. /\ job' = [job EXCEPT ![s] = job'[s]] /\ JobCurrent(job[s])' /\ DOMAIN job' = Slots
  BY DEF Quietly, Finishes, Serial
<1>2. \A t \in Slots \ {s} : job'[t] = Idle
  BY <1>1 DEF Serial
<1>3. Tables'
  BY DEF Quietly, Finishes, Serial, Tables, Followed, Roster
<1>4. (\A t \in Slots : JobCurrent(job[t]))'
  <2>1. ASSUME NEW t \in Slots PROVE JobCurrent(job[t])'
    <3>1. CASE t = s
      BY <1>1, <3>1
    <3>2. CASE t # s
      <4>1. job'[t] = Idle
        BY <1>2, <3>2
      <4>. QED
        BY <4>1 DEF JobCurrent, Idle
    <3>. QED
      BY <3>1, <3>2
  <2>. QED
    BY <2>1
<1>. QED
  BY <1>1, <1>2, <1>3, <1>4 DEF Serial

LEMMA QuietKeepsSerial ==
    ASSUME Serial, Quiet, Tables', UNCHANGED job
    PROVE  Serial'
<1>1. \A t \in Slots : job'[t] = Idle
  BY DEF Quiet
<1>2. (\A t \in Slots : JobCurrent(job[t]))'
  BY <1>1 DEF JobCurrent, Idle
<1>. QED
  BY <1>1, <1>2 DEF Serial

LEMMA StutterKeepsSerial ==
    ASSUME Serial, UNCHANGED vars
    PROVE  Serial'
<1>1. UNCHANGED <<parcel, postman, job>>
  BY DEF vars
<1>2. Tables'
  BY <1>1 DEF Serial, Tables, Followed, Roster
<1>3. ASSUME NEW s \in Slots
      PROVE  JobCurrent(job[s])'
  <2>1. RowsAfter(job[s].new)' = RowsAfter(job[s].new)
    BY <1>1 DEF RowsAfter
  <2>2. ASSUME NEW d \in Deliveries
        PROVE  (ParcelAfter(job[s].writes, d))' = ParcelAfter(job[s].writes, d)
    <3>1. (job[s].writes)' = job[s].writes /\ parcel' = parcel
      BY <1>1
    <3>. QED
      BY <3>1, Zenon DEF ParcelAfter
  <2>. QED
    BY <1>1, <2>1, <2>2 DEF Serial, JobCurrent, MovableIn, Roster, Matchable, Reassignable
<1>. QED
  BY <1>1, <1>2, <1>3 DEF Serial

LEMMA SerialNext ==
    ASSUME Overlap = FALSE, Serial, [Next]_vars
    PROVE  Serial'
<1>1. ASSUME NEW s \in Slots, NEW kind, Accept(s, kind)
      PROVE  \A t \in Slots \ {s} : job[t] = Idle
  BY <1>1 DEF Accept, Quiet
<1>2. ASSUME NEW s \in Slots, job[s] # Idle
      PROVE  \A t \in Slots \ {s} : job[t] = Idle
  BY <1>2 DEF Serial
<1>3. ASSUME NEW s \in Slots, Step(s)
      PROVE  Serial'
  <2>1. job[s] # Idle
    <3>1. RollBack(s) \/ job[s].kind # Idle.kind
      BY <1>3 DEF Step, ReadRoster, ApplyDecision, TakeBeat, ClearBeat, CommitSync,
              CommitOverride, CloseException, Idle
    <3>. QED
      BY <3>1 DEF RollBack
  <2>2. Quietly(s) \/ Finishes(s)
    BY <1>3, RosterReadIsCurrent, ApplyFinishes, CoverIsCurrent, ClearIsCurrent,
       CommitFinishes, OverrideFinishes, CloseFinishes, StartsAreCurrent DEF Step
  <2>. QED
    BY <1>2, <2>1, <2>2, AloneKeepsSerial
<1>4. ASSUME NEW s \in Slots,
             \/ \E d \in Deliveries, v \in Beats \cup Verdicts : StartMatch(s, d, v)
             \/ \E d \in Deliveries, b \in Beats \cup {NoBeat} : \E p, reason :
                  StartOverride(s, d, b, p, reason)
             \/ \E p \in Postmen, b \in Beats \cup {NoBeat} : StartCover(s, p, b)
             \/ \E b \in Beats : StartClear(s, b)
             \/ \E p \in Postmen : \E st : ApplyPostmanStatus(s, p, st)
      PROVE  Serial'
  <2>1. Quietly(s)
    BY <1>4, StartsAreCurrent, OverrideStartIsCurrent, StatusIsCurrent
  <2>2. \E kind : Accept(s, kind)
    BY <1>4 DEF StartMatch, StartOverride, StartCover, StartClear, ApplyPostmanStatus
  <2>. QED
    BY <1>1, <2>1, <2>2, AloneKeepsSerial
<1>5. ASSUME NEW d \in Deliveries, NEW st \in Status, ReportStatus(d, st)
      PROVE  Serial'
  BY <1>5, ReportTables, QuietKeepsSerial DEF ReportStatus
<1>6. ASSUME NEW d \in Deliveries, NEW reason, IgnoreException(d, reason)
      PROVE  Serial'
  <2> DEFINE open == (parcel[d].open \ {reason}) \cup {Ignored}
  <2>1. /\ Quiet /\ parcel' = [parcel EXCEPT ![d].open = open]
        /\ UNCHANGED <<postman, job>>
    BY <1>6 DEF IgnoreException
  <2>. HIDE DEF open
  <2>. QED
    BY <2>1, OpenTables, QuietKeepsSerial
<1>7. ASSUME NEW b, SetBeatStatus(b)
      PROVE  Serial'
  <2>1. Quiet /\ UNCHANGED <<parcel, postman, job>>
    BY <1>7 DEF SetBeatStatus
  <2>2. Tables'
    BY <2>1 DEF Serial, Tables, Followed, Roster
  <2>. QED
    BY <2>1, <2>2, QuietKeepsSerial
<1>8. CASE UNCHANGED vars
  BY <1>8, StutterKeepsSerial
<1>9. CASE Next
  BY <1>3, <1>4, <1>5, <1>6, <1>7, <1>9 DEF Next
<1>. QED
  BY <1>8, <1>9

(* "These three relations must always agree": with one request at a time,  *)
(* whatever is rolled back.                                                *)
THEOREM SerialCopyAgrees == Overlap = FALSE /\ Spec => []CopyAgrees
<1>1. CASE Overlap = FALSE
  <2>1. Serial /\ [Next]_vars => Serial'
    BY <1>1, SerialNext
  <2>2. Serial => CopyAgrees
    BY DEF Serial, Tables, PostmanOK, CopyAgrees
  <2>. QED
    BY SerialInit, <2>1, <2>2, PTL DEF Spec
<1>. QED
  BY <1>1

(* No change of roster leaves parcels behind, with one request at a time   *)
(* and as long as nobody reports ASSIGNED by hand.                         *)
THEOREM SerialParcelsFollow ==
    Overlap = FALSE /\ "ASSIGNED" \notin Reported /\ Spec => []ParcelsFollowBeat
<1>1. CASE Overlap = FALSE /\ "ASSIGNED" \notin Reported
  <2>1. Serial /\ [Next]_vars => Serial'
    BY <1>1, SerialNext
  <2>2. Serial => ParcelsFollowBeat
    BY <1>1 DEF Serial, Tables, Followed, ParcelsFollowBeat
  <2>. QED
    BY SerialInit, <2>1, <2>2, PTL DEF Spec
<1>. QED
  BY <1>1

(* Both together: row, copy and parcels follow one roster.                 *)
THEOREM SerialRosterIsFollowed ==
    Overlap = FALSE /\ "ASSIGNED" \notin Reported /\ Spec => []RosterIsFollowed
  BY SerialCopyAgrees, SerialParcelsFollow, PTL DEF RosterIsFollowed

-----------------------------------------------------------------------------
(* One request at a time: who changes whose parcel *)

MovedOn(d) ==
    /\ Holding(parcel'[d]) = Holding(parcel[d])
    /\ parcel'[d].status \in {parcel[d].status} \cup AllowedTransitions[parcel[d].status]

LEMMA SameRowMovesOn ==
    ASSUME NEW d, parcel'[d] = parcel[d]
    PROVE  MovedOn(d)
BY DEF MovedOn

LEMMA OpenMovesOn ==
    ASSUME Serial, NEW d \in Deliveries, NEW e \in Deliveries, NEW open,
           parcel' = [parcel EXCEPT ![e].open = open]
    PROVE  MovedOn(d)
<1>1. DOMAIN parcel[d] = RowFields
  BY DEF Serial, Tables
<1>2. CASE d = e
  <2>1. parcel'[d] = [parcel[d] EXCEPT !.open = open]
    BY <1>2 DEF Serial, Tables
  <2>2. /\ parcel'[d].status = parcel[d].status /\ parcel'[d].beat = parcel[d].beat
        /\ parcel'[d].postman = parcel[d].postman
    BY <1>1, <2>1 DEF RowFields
  <2>. QED
    BY <2>2 DEF MovedOn, Holding
<1>3. CASE d # e
  BY <1>3, SameRowMovesOn DEF Serial, Tables
<1>. QED
  BY <1>2, <1>3

LEMMA StepChangesOnly ==
    ASSUME Serial, NEW d \in Deliveries, NEW s \in Slots, Step(s)
    PROVE  \/ MovedOn(d) \/ Matchable(parcel[d])
           \/ ByHand(d) /\ Reassignable(parcel[d])
<1>1. CASE ReadRoster(s) \/ TakeBeat(s) \/ ClearBeat(s) \/ RollBack(s)
  BY <1>1, SameRowMovesOn DEF ReadRoster, TakeBeat, ClearBeat, RollBack, Resync
<1>2. CASE ApplyDecision(s)
  <2>1. CASE d = job[s].delivery
    BY <1>2, <2>1 DEF ApplyDecision, Serial, JobCurrent
  <2>2. CASE d # job[s].delivery
    <3>1. parcel'[d] = parcel[d]
      BY <1>2, <2>2 DEF ApplyDecision, Serial, Tables
    <3>. QED
      BY <3>1, SameRowMovesOn
  <2>. QED
    BY <2>1, <2>2
<1>3. CASE CommitSync(s)
  <2>1. CASE d \in {w.delivery : w \in job[s].writes}
    <3>1. d \in MovableIn(parcel[d].beat)
      <4>1. job[s].kind = "sync" /\ JobCurrent(job[s])
        BY <1>3 DEF CommitSync, Serial
      <4>2. \A w \in job[s].writes : w.delivery \in MovableIn(parcel[w.delivery].beat)
        BY <4>1 DEF JobCurrent
      <4>. QED
        BY <2>1, <4>2
    <3>. QED
      BY <3>1 DEF MovableIn, Matchable
  <2>2. CASE d \notin {w.delivery : w \in job[s].writes}
    <3>1. parcel'[d] = parcel[d]
      BY <1>3, <2>2 DEF CommitSync
    <3>. QED
      BY <3>1, SameRowMovesOn
  <2>. QED
    BY <2>1, <2>2
<1>4. CASE CommitOverride(s)
  <2>1. CASE d = job[s].delivery
    <3>1. job[s].kind = "override" /\ Reassignable(parcel[d])
      BY <1>4, <2>1 DEF CommitOverride, Serial, JobCurrent
    <3>2. (job[s].kind)' # "override"
      <4>1. \/ job'[s] = Idle
            \/ job'[s] = [kind |-> "close", delivery |-> job[s].delivery,
                          reason |-> job[s].reason]
        BY <1>4 DEF CommitOverride, Put, Serial
      <4>. QED
        BY <4>1 DEF Idle
    <3>3. job'[s] # job[s]
      BY <3>1, <3>2
    <3>. QED
      BY <2>1, <3>1, <3>3 DEF ByHand
  <2>2. CASE d # job[s].delivery
    <3>1. parcel'[d] = parcel[d]
      BY <1>4, <2>2 DEF CommitOverride, Serial, Tables
    <3>. QED
      BY <3>1, SameRowMovesOn
  <2>. QED
    BY <2>1, <2>2
<1>5. CASE CloseException(s)
  <2> DEFINE open == parcel[job[s].delivery].open \ {job[s].reason}
  <2>1. /\ job[s].delivery \in Deliveries
        /\ parcel' = [parcel EXCEPT ![job[s].delivery].open = open]
    BY <1>5 DEF CloseException, Serial, JobCurrent
  <2>. HIDE DEF open
  <2>. QED
    BY <2>1, OpenMovesOn
<1>. QED
  BY <1>1, <1>2, <1>3, <1>4, <1>5 DEF Step

LEMMA NextChangesOnly ==
    ASSUME Serial, [Next]_vars, NEW d \in Deliveries
    PROVE  \/ MovedOn(d) \/ Matchable(parcel[d])
           \/ ByHand(d) /\ Reassignable(parcel[d])
<1>1. CASE UNCHANGED parcel
  BY <1>1, SameRowMovesOn
<1>2. CASE \E e \in Deliveries, st \in Status : ReportStatus(e, st)
  <2>1. PICK e \in Deliveries, st \in Status : ReportStatus(e, st)
    BY <1>2
  <2>2. CASE d = e
    <3>1. /\ parcel'[d] = [parcel[d] EXCEPT !.status = st] /\ DOMAIN parcel[d] = RowFields
          /\ st \in AllowedTransitions[parcel[d].status]
      BY <2>1, <2>2 DEF ReportStatus, Serial, Tables
    <3>2. /\ parcel'[d].status = st /\ parcel'[d].beat = parcel[d].beat
          /\ parcel'[d].postman = parcel[d].postman
      BY <3>1 DEF RowFields
    <3>. QED
      BY <3>1, <3>2 DEF MovedOn, Holding
  <2>3. CASE d # e
    BY <2>1, <2>3, SameRowMovesOn DEF ReportStatus, Serial, Tables
  <2>. QED
    BY <2>2, <2>3
<1>3. ASSUME NEW e \in Deliveries, NEW reason, IgnoreException(e, reason)
      PROVE  MovedOn(d)
  <2> DEFINE open == (parcel[e].open \ {reason}) \cup {Ignored}
  <2>1. parcel' = [parcel EXCEPT ![e].open = open]
    BY <1>3 DEF IgnoreException
  <2>. HIDE DEF open
  <2>. QED
    BY <2>1, OpenMovesOn
<1>4. CASE UNCHANGED vars
  BY <1>1, <1>4 DEF vars
<1>. QED
  BY <1>1, <1>2, <1>3, <1>4, StepChangesOnly
     DEF Next, StartMatch, StartOverride, StartCover, StartClear, ApplyPostmanStatus,
         Resync, SetBeatStatus

(* Automatic work leaves started, finished and hand-placed parcels alone,  *)
(* with one request at a time.                                             *)
THEOREM SerialLeavesAlone == Overlap = FALSE /\ Spec => LeftWithWhoeverHasIt
<1>1. CASE Overlap = FALSE
  <2>1. Serial /\ [Next]_vars => Serial'
    BY <1>1, SerialNext
  <2>2. ASSUME Serial, [Next]_vars
        PROVE  \A d \in Deliveries :
                 (\/ parcel[d].manual
                  \/ parcel[d].status \notin AutoAssignable \cup {"RECEIVED"}) =>
                    \/ ByHand(d)
                    \/ /\ Holding(parcel'[d]) = Holding(parcel[d])
                       /\ parcel'[d].status \in
                            {parcel[d].status} \cup AllowedTransitions[parcel[d].status]
    BY <2>2, NextChangesOnly DEF MovedOn, Matchable
  <2>. QED
    BY SerialInit, <2>1, <2>2, PTL DEF Spec, LeftWithWhoeverHasIt
<1>. QED
  BY <1>1

LEMMA NothingAfterTheEnd ==
    ASSUME NEW x \in TerminalStatuses
    PROVE  AllowedTransitions[x] = {} /\ x \notin AutoAssignable \cup {"RECEIVED"}
<1>1. /\ x \in Status /\ x \notin FailedAttempt
      /\ x \notin {"RECEIVED", "SORTED", "ASSIGNED", "OUT_FOR_DELIVERY", "RESCHEDULED",
                  "REJECTED"}
  BY DEF TerminalStatuses, Status, FailedAttempt
<1>2. AllowedTransitions[x] = {}
  BY <1>1 DEF AllowedTransitions
<1>. QED
  BY <1>1, <1>2 DEF AutoAssignable

(* Nobody, not even by hand, reassigns a finished parcel, with one request *)
(* at a time.                                                              *)
THEOREM SerialFinishedIsFinal == Overlap = FALSE /\ Spec => FinishedIsFinal
<1>1. CASE Overlap = FALSE
  <2>1. Serial /\ [Next]_vars => Serial'
    BY <1>1, SerialNext
  <2>2. ASSUME Serial, [Next]_vars
        PROVE  \A d \in Deliveries : parcel[d].status \in TerminalStatuses =>
                 /\ Holding(parcel'[d]) = Holding(parcel[d])
                 /\ parcel'[d].status = parcel[d].status
    BY <2>2, NextChangesOnly, NothingAfterTheEnd DEF MovedOn, Matchable, Reassignable
  <2>. QED
    BY SerialInit, <2>1, <2>2, PTL DEF Spec, FinishedIsFinal
<1>. QED
  BY <1>1
-----------------------------------------------------------------------------
(* One request at a time: no exception of an older verdict stays open *)

(* What VerdictIsTrue says of one parcel, whatever its status: only then   *)
(* does it outlive the changes of status in between.                       *)
Explained(beat, holder, open) ==
    IF beat = NoBeat
      THEN \E reason \in MatchingReasons : open \subseteq {reason, Ignored}
      ELSE open \subseteq IF holder = Nobody THEN {NoPostman, Ignored} ELSE {Ignored}
TrueOf(row) == ~row.manual => Explained(row.beat, row.postman, row.open)

(* A re-sync hands out parcels of beats only, so that the missing postman  *)
(* it may report is the only thing its parcels miss.                       *)
OnBeats(j) ==
    j.kind = "sync" => \A w \in j.writes : parcel[w.delivery].beat # NoBeat

VerdictsTrue ==
    /\ \A d \in Deliveries : TrueOf(parcel[d])
    /\ \A s \in Slots : OnBeats(job[s])

LEMMA VerdictsInit == Init => VerdictsTrue
<1>1. "WEAK_LOCATION" \in MatchingReasons
  BY DEF MatchingReasons
<1>. QED
  BY <1>1 DEF Init, VerdictsTrue, TrueOf, Explained, OnBeats, Idle

(* One parcel gets a row whose exceptions are explained.                   *)
LEMMA OneRowIsTrue ==
    ASSUME Serial, VerdictsTrue, NEW d \in Deliveries, NEW row, TrueOf(row),
           parcel' = [parcel EXCEPT ![d] = row]
    PROVE  \A e \in Deliveries : TrueOf(parcel'[e])
BY DEF Serial, Tables, VerdictsTrue

(* Exceptions may be closed, and a person's closing one may be recorded.   *)
LEMMA ClosingIsTrue ==
    ASSUME Serial, VerdictsTrue, NEW d \in Deliveries, NEW open,
           open \subseteq parcel[d].open \cup {Ignored},
           parcel' = [parcel EXCEPT ![d].open = open]
    PROVE  \A e \in Deliveries : TrueOf(parcel'[e])
<1> DEFINE row == [parcel[d] EXCEPT !.open = open]
<1>1. DOMAIN parcel[d] = RowFields /\ parcel' = [parcel EXCEPT ![d] = row]
  BY DEF Serial, Tables
<1>2. /\ row.manual = parcel[d].manual /\ row.beat = parcel[d].beat
      /\ row.postman = parcel[d].postman /\ row.open = open
  BY <1>1 DEF RowFields
<1>. HIDE DEF row
<1>3. Explained(parcel[d].beat, parcel[d].postman, parcel[d].open)
        => Explained(parcel[d].beat, parcel[d].postman, open)
  BY DEF Explained
<1>4. TrueOf(row)
  BY <1>2, <1>3 DEF VerdictsTrue, TrueOf
<1>. QED
  BY <1>1, <1>4, OneRowIsTrue

LEMMA ApplyIsTrue ==
    ASSUME Serial, VerdictsTrue, NEW s \in Slots, ApplyDecision(s)
    PROVE  \A e \in Deliveries : TrueOf(parcel'[e])
<1> DEFINE j == job[s]
           d == j.delivery
           kept == IF j.status = "RESCHEDULED" THEN "RESCHEDULED"
                   ELSE IF j.holder = Nobody THEN "SORTED" ELSE "ASSIGNED"
           row == Decided(parcel[d], kept, j.verdict, j.holder)
           beat == IF IsAssign(j.verdict) THEN j.verdict ELSE NoBeat
           open == OpenAfterVerdict(parcel[d].open, j.verdict, j.holder)
<1>1. d \in Deliveries /\ j.verdict \in Beats \cup Verdicts
  BY DEF ApplyDecision, Serial, JobCurrent
<1>2. DOMAIN parcel[d] = RowFields
  BY <1>1 DEF Serial, Tables
<1>3. parcel' = [parcel EXCEPT ![d] = row]
  BY DEF ApplyDecision, Decided
<1>4. row.beat = beat /\ row.postman = j.holder /\ row.open = open
  BY <1>2 DEF RowFields, Decided
<1>. HIDE DEF row
<1>5. Explained(beat, j.holder, open)
  <2>1. CASE j.verdict \in Beats
    BY <2>1, AssignmentAssumption DEF IsAssign, OpenAfterVerdict, Explained
  <2>2. CASE j.verdict \notin Beats
    <3>1. j.verdict \in MatchingReasons /\ beat = NoBeat /\ open = {j.verdict}
      BY <1>1, <2>2, AssignmentAssumption DEF IsAssign, OpenAfterVerdict
    <3>. QED
      BY <3>1 DEF Explained
  <2>. QED
    BY <2>1, <2>2
<1>6. TrueOf(row)
  BY <1>4, <1>5 DEF TrueOf
<1>. QED
  BY <1>1, <1>3, <1>6, OneRowIsTrue

LEMMA OverrideIsTrue ==
    ASSUME Serial, VerdictsTrue, NEW s \in Slots, CommitOverride(s)
    PROVE  \A e \in Deliveries : TrueOf(parcel'[e])
<1> DEFINE d == job[s].delivery
           row == Overridden(parcel[d], job[s])
<1>1. d \in Deliveries
  BY DEF CommitOverride, Serial, JobCurrent
<1>2. DOMAIN parcel[d] = RowFields
  BY <1>1 DEF Serial, Tables
<1>3. row.manual = TRUE /\ parcel' = [parcel EXCEPT ![d] = row]
  BY <1>2 DEF CommitOverride, Overridden, RowFields
<1>. HIDE DEF row
<1>4. TrueOf(row)
  BY <1>3 DEF TrueOf
<1>. QED
  BY <1>1, <1>3, <1>4, OneRowIsTrue

LEMMA CommitIsTrue ==
    ASSUME Serial, VerdictsTrue, NEW s \in Slots, CommitSync(s)
    PROVE  \A e \in Deliveries : TrueOf(parcel'[e])
<1> DEFINE writes == job[s].writes
<1>1. parcel' = [d \in Deliveries |-> ParcelAfter(writes, d)]
  BY DEF CommitSync, ParcelAfter
<1>2. \A w \in writes : parcel[w.delivery].beat # NoBeat
  BY DEF CommitSync, VerdictsTrue, OnBeats
<1>. HIDE DEF writes
<1>3. ASSUME NEW d \in Deliveries
      PROVE  TrueOf(ParcelAfter(writes, d))
  <2>1. DOMAIN parcel[d] = RowFields /\ TrueOf(parcel[d])
    BY DEF Serial, Tables, VerdictsTrue
  <2>2. CASE d \notin {w.delivery : w \in writes}
    BY <2>1, <2>2 DEF ParcelAfter
  <2>3. CASE d \in {w.delivery : w \in writes}
    <3> DEFINE Of == CHOOSE w \in writes : w.delivery = d
               holder == Of.postman
               open == OpenAfterSync(parcel[d].open, holder)
               row == ParcelAfter(writes, d)
    <3>1. parcel[d].beat # NoBeat
      BY <1>2, <2>3
    <3>2. /\ row.manual = parcel[d].manual /\ row.beat = parcel[d].beat
          /\ row.postman = holder /\ row.open = open
      BY <2>1, <2>3 DEF ParcelAfter, RowFields
    <3>. HIDE DEF Of, holder, row
    <3>3. Explained(parcel[d].beat, parcel[d].postman, parcel[d].open)
            => Explained(parcel[d].beat, holder, open)
      BY <3>1 DEF Explained, OpenAfterSync
    <3>4. TrueOf(row)
      BY <2>1, <3>2, <3>3 DEF TrueOf
    <3>. QED
      BY <3>4 DEF row
  <2>. QED
    BY <2>2, <2>3
<1>. QED
  BY <1>1, <1>3

(* The parcels a re-sync moves are on one of the beats it is for.          *)
LEMMA ResyncOnBeats ==
    ASSUME Serial, NEW s \in Slots, NEW new, NEW beats, NoBeat \notin beats,
           Resync(s, new, beats)
    PROVE  OnBeats(job[s])'
<1> DEFINE after == RowsAfter(new)
<1>1. PICK plan \in [beats -> UNION {Plans(b, after) : b \in beats}] :
        /\ \A b \in beats : plan[b] \in Plans(b, after)
        /\ Put(s, [kind |-> "sync", new |-> new,
                   writes |-> UNION {SyncWrites(plan[b]) : b \in beats}])
  BY DEF Resync, RowsAfter
<1>. HIDE DEF after
<1> DEFINE writes == UNION {SyncWrites(plan[b]) : b \in beats}
<1>2. \A w \in writes : \E b \in beats : w \in SyncWrites(plan[b])
  OBVIOUS
<1>3. parcel' = parcel /\ (job[s].writes)' = writes
  BY <1>1 DEF Put, Resync, Serial
<1>. HIDE DEF writes
<1>4. ASSUME NEW w \in writes
      PROVE  parcel[w.delivery].beat # NoBeat
  <2>1. PICK b \in beats : w \in SyncWrites(plan[b])
    BY <1>2
  <2>2. w.delivery \in MovableIn(b)
    BY <1>1, <2>1, SyncWritesAre
  <2>. QED
    BY <2>2 DEF MovableIn
<1>. QED
  BY <1>3, <1>4 DEF OnBeats

LEMMA StepOnBeats ==
    ASSUME Serial, VerdictsTrue, NEW s \in Slots, Step(s)
    PROVE  OnBeats(job[s])'
<1>1. CASE TakeBeat(s)
  <2>1. NoBeat \notin AffectedBeats(job[s])
    BY DEF AffectedBeats
  <2>2. \E new : Resync(s, new, AffectedBeats(job[s]))
    BY <1>1 DEF TakeBeat
  <2>. QED
    BY <2>1, <2>2, ResyncOnBeats
<1>2. CASE ClearBeat(s)
  <2>1. job[s].beat \in Beats
    BY <1>2 DEF ClearBeat, Serial, JobCurrent
  <2>2. \E new : Resync(s, new, {job[s].beat})
    BY <1>2 DEF ClearBeat
  <2>. QED
    BY <2>1, <2>2, ResyncOnBeats, AssignmentAssumption
<1>3. CASE ReadRoster(s)
  <2>1. PICK p : Put(s, [job[s] EXCEPT !.kind = "place", !.holder = p])
    BY <1>3 DEF ReadRoster
  <2>2. DOMAIN job[s] = {"kind", "delivery", "status", "verdict", "holder"}
    BY <1>3 DEF ReadRoster, Serial, JobCurrent
  <2>3. (job[s].kind)' = "place"
    BY <2>1, <2>2 DEF Put, Serial
  <2>. QED
    BY <2>3 DEF OnBeats
<1>4. CASE ApplyDecision(s) \/ CommitSync(s) \/ CloseException(s) \/ RollBack(s)
  <2>1. job'[s] = Idle
    BY <1>4 DEF ApplyDecision, CommitSync, CloseException, RollBack, Put, Serial
  <2>. QED
    BY <2>1 DEF OnBeats, Idle
<1>5. CASE CommitOverride(s)
  <2>1. \/ job'[s] = Idle
        \/ job'[s] = [kind |-> "close", delivery |-> job[s].delivery,
                      reason |-> job[s].reason]
    BY <1>5 DEF CommitOverride, Put, Serial
  <2>. QED
    BY <2>1 DEF OnBeats, Idle
<1>. QED
  BY <1>1, <1>2, <1>3, <1>4, <1>5 DEF Step

(* A request arrives: only a change of a postman's status re-syncs at once. *)
LEMMA StartOnBeats ==
    ASSUME Serial, NEW s \in Slots,
           \/ \E d \in Deliveries, v \in Beats \cup Verdicts : StartMatch(s, d, v)
           \/ \E d \in Deliveries, b \in Beats \cup {NoBeat} : \E p, reason :
                StartOverride(s, d, b, p, reason)
           \/ \E p \in Postmen, b \in Beats \cup {NoBeat} : StartCover(s, p, b)
           \/ \E b \in Beats : StartClear(s, b)
           \/ \E p \in Postmen : \E st : ApplyPostmanStatus(s, p, st)
    PROVE  OnBeats(job[s])' /\ UNCHANGED parcel
<1>1. ASSUME NEW p \in Postmen, NEW st, ApplyPostmanStatus(s, p, st)
      PROVE  OnBeats(job[s])' /\ UNCHANGED parcel
  <2>1. \E new : Resync(s, new, {postman[p].covers} \ {NoBeat})
    BY <1>1 DEF ApplyPostmanStatus
  <2>2. OnBeats(job[s])'
    BY <2>1, ResyncOnBeats
  <2>. QED
    BY <2>1, <2>2 DEF Resync
<1>2. ASSUME NEW d \in Deliveries, NEW v \in Beats \cup Verdicts, StartMatch(s, d, v)
      PROVE  OnBeats(job[s])' /\ UNCHANGED parcel
  BY <1>2 DEF StartMatch, Put, Serial, OnBeats
<1>3. ASSUME NEW d \in Deliveries, NEW b \in Beats \cup {NoBeat}, NEW p, NEW reason,
             StartOverride(s, d, b, p, reason)
      PROVE  OnBeats(job[s])' /\ UNCHANGED parcel
  <2>1. UNCHANGED parcel /\ (job[s].kind)' = "override"
    BY <1>3 DEF StartOverride, Put, Serial
  <2>. QED
    BY <2>1 DEF OnBeats
<1>4. ASSUME NEW p \in Postmen, NEW b \in Beats \cup {NoBeat}, StartCover(s, p, b)
      PROVE  OnBeats(job[s])' /\ UNCHANGED parcel
  BY <1>4 DEF StartCover, Put, Serial, OnBeats
<1>5. ASSUME NEW b \in Beats, StartClear(s, b)
      PROVE  OnBeats(job[s])' /\ UNCHANGED parcel
  BY <1>5 DEF StartClear, Put, Serial, OnBeats
<1>. QED
  BY <1>1, <1>2, <1>3, <1>4, <1>5

(* The request of slot s is the only one, before and after its step.       *)
LEMMA AloneKeepsTrue ==
    ASSUME NEW s \in Slots, \A t \in Slots \ {s} : job[t] = Idle,
           Quietly(s) \/ Finishes(s), Serial,
           OnBeats(job[s])', \A d \in Deliveries : TrueOf(parcel'[d])
    PROVE  VerdictsTrue'
<1>1. \A t \in Slots \ {s} : job'[t] = Idle
  BY DEF Quietly, Finishes, Serial
<1>2. \A t \in Slots \ {s} : OnBeats(job[t])'
  BY <1>1 DEF OnBeats, Idle
<1>. QED
  BY <1>2 DEF VerdictsTrue

LEMMA QuietKeepsTrue ==
    ASSUME Quiet, UNCHANGED job, \A d \in Deliveries : TrueOf(parcel'[d])
    PROVE  VerdictsTrue'
<1>1. \A t \in Slots : job'[t] = Idle
  BY DEF Quiet
<1>. QED
  BY <1>1 DEF VerdictsTrue, OnBeats, Idle

LEMMA VerdictsNext ==
    ASSUME Overlap = FALSE, Serial, VerdictsTrue, [Next]_vars
    PROVE  VerdictsTrue'
<1>1. ASSUME NEW s \in Slots, NEW kind, Accept(s, kind)
      PROVE  \A t \in Slots \ {s} : job[t] = Idle
  BY <1>1 DEF Accept, Quiet
<1>2. ASSUME NEW s \in Slots, Step(s)
      PROVE  VerdictsTrue'
  <2>1. job[s] # Idle
    <3>1. RollBack(s) \/ job[s].kind # Idle.kind
      BY <1>2 DEF Step, ReadRoster, ApplyDecision, TakeBeat, ClearBeat, CommitSync,
              CommitOverride, CloseException, Idle
    <3>. QED
      BY <3>1 DEF RollBack
  <2>2. \A t \in Slots \ {s} : job[t] = Idle
    BY <2>1 DEF Serial
  <2>3. Quietly(s) \/ Finishes(s)
    BY <1>2, RosterReadIsCurrent, ApplyFinishes, CoverIsCurrent, ClearIsCurrent,
       CommitFinishes, OverrideFinishes, CloseFinishes, StartsAreCurrent DEF Step
  <2>4. \A d \in Deliveries : TrueOf(parcel'[d])
    <3>1. CASE ReadRoster(s) \/ TakeBeat(s) \/ ClearBeat(s) \/ RollBack(s)
      BY <3>1 DEF ReadRoster, TakeBeat, ClearBeat, RollBack, Resync, VerdictsTrue
    <3>2. CASE CloseException(s)
      <4> DEFINE open == parcel[job[s].delivery].open \ {job[s].reason}
      <4>1. /\ job[s].delivery \in Deliveries
            /\ parcel' = [parcel EXCEPT ![job[s].delivery].open = open]
        BY <3>2 DEF CloseException, Serial, JobCurrent
      <4>2. open \subseteq parcel[job[s].delivery].open \cup {Ignored}
        OBVIOUS
      <4>. HIDE DEF open
      <4>. QED
        BY <4>1, <4>2, ClosingIsTrue
    <3>. QED
      BY <1>2, <3>1, <3>2, ApplyIsTrue, CommitIsTrue, OverrideIsTrue DEF Step
  <2>. QED
    BY <1>2, <2>2, <2>3, <2>4, StepOnBeats, AloneKeepsTrue
<1>3. ASSUME NEW s \in Slots,
             \/ \E d \in Deliveries, v \in Beats \cup Verdicts : StartMatch(s, d, v)
             \/ \E d \in Deliveries, b \in Beats \cup {NoBeat} : \E p, reason :
                  StartOverride(s, d, b, p, reason)
             \/ \E p \in Postmen, b \in Beats \cup {NoBeat} : StartCover(s, p, b)
             \/ \E b \in Beats : StartClear(s, b)
             \/ \E p \in Postmen : \E st : ApplyPostmanStatus(s, p, st)
      PROVE  VerdictsTrue'
  <2>1. Quietly(s)
    BY <1>3, StartsAreCurrent, OverrideStartIsCurrent, StatusIsCurrent
  <2>2. \E kind : Accept(s, kind)
    BY <1>3 DEF StartMatch, StartOverride, StartCover, StartClear, ApplyPostmanStatus
  <2>3. OnBeats(job[s])' /\ UNCHANGED parcel
    BY <1>3, StartOnBeats
  <2>4. \A d \in Deliveries : TrueOf(parcel'[d])
    BY <2>3 DEF VerdictsTrue
  <2>. QED
    BY <1>1, <2>1, <2>2, <2>3, <2>4, AloneKeepsTrue
<1>4. ASSUME NEW d \in Deliveries, NEW st \in Status, ReportStatus(d, st)
      PROVE  VerdictsTrue'
  <2> DEFINE row == [parcel[d] EXCEPT !.status = st]
  <2>1. DOMAIN parcel[d] = RowFields /\ TrueOf(parcel[d])
    BY DEF Serial, Tables, VerdictsTrue
  <2>2. /\ Quiet /\ UNCHANGED job /\ parcel' = [parcel EXCEPT ![d] = row]
    BY <1>4 DEF ReportStatus, Serial, Tables
  <2>3. TrueOf(row)
    BY <2>1 DEF TrueOf, RowFields
  <2>. HIDE DEF row
  <2>. QED
    BY <2>2, <2>3, OneRowIsTrue, QuietKeepsTrue
<1>5. ASSUME NEW d \in Deliveries, NEW reason, IgnoreException(d, reason)
      PROVE  VerdictsTrue'
  <2> DEFINE open == (parcel[d].open \ {reason}) \cup {Ignored}
  <2>1. /\ Quiet /\ parcel' = [parcel EXCEPT ![d].open = open] /\ UNCHANGED job
    BY <1>5 DEF IgnoreException
  <2>2. open \subseteq parcel[d].open \cup {Ignored}
    OBVIOUS
  <2>. HIDE DEF open
  <2>. QED
    BY <2>1, <2>2, ClosingIsTrue, QuietKeepsTrue
<1>6. ASSUME NEW b, SetBeatStatus(b)
      PROVE  VerdictsTrue'
  BY <1>6 DEF SetBeatStatus, VerdictsTrue, OnBeats
<1>7. CASE UNCHANGED vars
  BY <1>7 DEF vars, VerdictsTrue, OnBeats
<1>8. CASE Next
  BY <1>2, <1>3, <1>4, <1>5, <1>6, <1>8 DEF Next
<1>. QED
  BY <1>7, <1>8

(* With one request at a time the exceptions open on a waiting parcel are  *)
(* those of its last verdict: applyDecision resolves the older ones, and a *)
(* change of roster opens and closes only "no postman" (assignment.service *)
(* .ts, openException and resolveExceptions).                              *)
THEOREM SerialVerdictIsTrue == Overlap = FALSE /\ Spec => []VerdictIsTrue
<1>1. CASE Overlap = FALSE
  <2>1. Serial /\ VerdictsTrue /\ [Next]_vars => Serial' /\ VerdictsTrue'
    BY <1>1, SerialNext, VerdictsNext
  <2>2. VerdictsTrue => VerdictIsTrue
    BY DEF VerdictsTrue, TrueOf, Explained, VerdictIsTrue, Waits
  <2>. QED
    BY SerialInit, VerdictsInit, <2>1, <2>2, PTL DEF Spec
<1>. QED
  BY <1>1
================================================================================
