----------------------------- MODULE BeatOffice -----------------------------
(***************************************************************************)
(* The beats of one post office and what follows from a change of them     *)
(* (beats.routes.ts, beatImport.routes.ts, beatDirectory.service.ts):      *)
(* beats are drawn by hand or imported from a list, verified, taken out of *)
(* use and back; the matcher reads them through a cached directory; and    *)
(* after a change the deliveries of the office are matched again.          *)
(*                                                                         *)
(* A beat's postman does not change here and overrides, statuses and       *)
(* exceptions of a delivery are left to module Assignment.                 *)
(***************************************************************************)
EXTENDS AssignmentDecision, BeatMatching, BeatList, Notices

CONSTANTS
    Beats,          \* beat numbers
    Localities, Areas, Shapes,
    Words,          \* [localities, areas, Empty -> the words of each]
    Overlap,        \* [Shapes -> [Shapes -> area both cover, in square metres]]
    Deliveries,
    Address,        \* [Deliveries -> its address, normalised]
    Letters,        \* more addresses as they are written, for what holds of all
    Place,          \* [Deliveries -> [precision, within: the shapes around it]]
    Carrier,        \* [Beats -> the beat's postman, or Nobody]
    Distance,       \* [Deliveries -> [those others that have a point -> metres]]
    Rows,           \* the rows of the list that is uploaded
    Mappings,       \* mappings the administrator may choose
    Suggested,      \* the one suggested from the headers
    Slots,          \* requests in flight
    Worlds,         \* what happens: sets of WorkKinds, one per behaviour
    MaxRequests     \* bound of each world: requests in all

WorkKinds == {"create", "draw", "rename", "verify", "status", "list", "deliver",
              "notices", "overlap", "stop"}

Records == Localities \X (Areas \cup {Empty})
Names == Localities \cup {Empty}

ASSUME OfficeAssumption ==
    /\ Suggested \in Mappings /\ \A m \in Mappings : m \subseteq Fields
    /\ DOMAIN Words = Localities \cup Areas \cup {Empty}
    /\ Carrier \in [Beats -> Postmen \cup {Nobody}]
    /\ DOMAIN Distance = Deliveries
    /\ \A d \in Deliveries : DOMAIN Distance[d] \subseteq Deliveries \ {d}
    /\ Overlap \in [Shapes -> [Shapes -> Nat]]
    /\ \A s, t \in Shapes : Overlap[s][t] = Overlap[t][s]
    /\ Len(Rows) \in Nat
    /\ \A r \in 1..Len(Rows) : Rows[r].territory \in Shapes \cup {Empty}
    /\ Worlds \subseteq SUBSET WorkKinds /\ MaxRequests \in [Worlds -> Nat]
(* What is compared: rows of words; and the weights of words go as far as  *)
(* a directory has rows, one for each record or name of a beat at most.    *)
IsPhrase(words) == words \in Seq(Range(words))
ASSUME WordsAssumption ==
    /\ \A r \in 1..Len(Rows) : Rows[r].name \in Names /\ Rows[r].locality \in Names
                                /\ Rows[r].mainArea \in Areas \cup {Empty}
    /\ Empty \notin Localities /\ Words[Empty] = <<>> /\ \A p \in DOMAIN Words : IsPhrase(Words[p])
    /\ \A letter \in Letters :
          LET words == UNION {Range(letter.segments[i]) : i \in DOMAIN letter.segments}
          IN  letter.segments \in Seq(Seq(words) \ {<<>>})
    /\ \A S \in {Beats, Localities, Areas} : IsFiniteSet(S)
    /\ LET most == Cardinality(Beats \X (Records \cup ({Empty} \X Localities)))
       IN  \A n \in 1..most : \A k \in 1..n : Idf[n][k] \in Nat

VARIABLES
    beat,       \* [Beats -> the Beat row and its BeatLocality rows]
    directory,  \* {} or {the cached entries}
    list,       \* the BeatImport row
    parcel,     \* [Deliveries -> its beat, Waiting for one, or New]
    req,        \* [Slots -> the request in flight]
    requests,   \* how many were accepted
    knowingly,  \* history: overlaps an administrator acknowledged
    lapse,      \* history: see "What is owed" below
    work        \* what happens in this behaviour; it never changes

rows == <<beat, list, parcel>>
history == <<knowingly, lapse>>
vars == <<rows, directory, req, requests, history, work, noticeVars>>

NotCached == {}
New == [state |-> "NEW"]
Waiting == [state |-> "WAITING"]
PlacedIn(b) == [state |-> "PLACED", beat |-> b]
BeatRow ==
    [status : {"ABSENT", "ACTIVE", "INACTIVE"},
     check  : {"NEEDS_REVIEW", "PENDING_VERIFICATION", "VERIFIED"},
     shape  : Shapes \cup {Empty},
     name   : Names,                        \* its descriptive part
     records : SUBSET Records]              \* BeatLocality

Idle == [pc |-> "idle"]
TypeOK ==
    /\ beat \in [Beats -> BeatRow]
    /\ directory \subseteq SUBSET (Beats \X Records \X Names) /\ Cardinality(directory) <= 1
    /\ list \in [status : {"NONE", "PREVIEW_READY", "CONFIRMED", "CANCELLED"},
                 mapping : Mappings]
    /\ parcel \in [Deliveries -> {New, Waiting} \cup {PlacedIn(b) : b \in Beats}]
    /\ requests \in Nat /\ work \in Worlds
    /\ lapse \in [cache : BOOLEAN, sweep : BOOLEAN, returned : SUBSET Beats,
                  moved : SUBSET Deliveries]

NoBeatRow == [status |-> "ABSENT", check |-> "NEEDS_REVIEW", shape |-> Empty,
              name |-> Empty, records |-> {}]

InitIn(w) ==
    /\ beat = [b \in Beats |-> NoBeatRow]
    /\ directory = NotCached
    /\ list = [status |-> "NONE", mapping |-> Suggested]
    /\ parcel = [d \in Deliveries |-> New]
    /\ req = [h \in Slots |-> Idle]
    /\ requests = 0 /\ knowingly = {}
    /\ lapse = [cache |-> FALSE, sweep |-> FALSE, returned |-> {}, moved |-> {}]
    /\ work = w
    /\ NoticesInit
Init == \E w \in Worlds : InitIn(w)

Ready(h, kind) ==
    /\ kind \in work /\ req[h] = Idle
    /\ requests < MaxRequests[work]
    /\ "overlap" \in work \/ \A g \in Slots : req[g] = Idle
Accept(h, kind) == Ready(h, kind) /\ requests' = requests + 1
Put(h, r) == req' = [req EXCEPT ![h] = r]
Exists(b) == beat[b].status # "ABSENT"
Active(b) == beat[b].status = "ACTIVE"

-----------------------------------------------------------------------------
(* Changes of beats.  A request reads and checks, then writes; after the   *)
(* write the directory is invalidated, and then comes the sweep: "all"     *)
(* deliveries, those "waiting" for a beat, or "none".                      *)

SlipNotSwept == "none"
SweptAfterChange == "all"
Then(h, sweep) == Put(h, [pc |-> "invalidate", sweep |-> sweep])

Overlaps(b, shape, tolerance) ==
    {o \in Beats \ {b} : Active(o) /\ beat[o].shape # Empty
                           /\ Overlap[shape][beat[o].shape] > tolerance}
(* requireSoundTerritory: an overlap of more than 25 m2 is acknowledged.   *)
SlipOnlyNew(b, shape, ack) == ack \/ Exists(b) \/ Overlaps(b, shape, 25) = {}
Sound(b, shape, ack) == ack \/ Overlaps(b, shape, 25) = {}
Pairs(b, others) == {{b, o} : o \in others}
Seen(b, ack, others) == \* what is acknowledged of b from now on
    knowingly' = {p \in knowingly : b \notin p} \cup (IF ack THEN Pairs(b, others) ELSE {})

CheckNew(h, b, shape, name, ack) ==
    /\ Accept(h, "create") /\ ~Exists(b) /\ Sound(b, shape, ack)
    /\ Put(h, [pc |-> "insert", beat |-> b, shape |-> shape, name |-> name, ack |-> ack])
    /\ UNCHANGED <<rows, directory, history, work, noticeVars>>

(* A number that was taken meanwhile is refused by the unique index.       *)
InsertBeat(h) ==
    LET r == req[h] IN
    /\ r.pc = "insert"
    /\ IF Exists(r.beat) THEN Put(h, Idle) /\ UNCHANGED <<beat, knowingly>>
       ELSE /\ beat' = [beat EXCEPT ![r.beat] =
                 [status |-> "ACTIVE", check |-> "VERIFIED", shape |-> r.shape,
                  name |-> r.name, records |-> {}]]
            /\ Seen(r.beat, r.ack, Overlaps(r.beat, r.shape, 1))
            /\ Then(h, SweptAfterChange)
    /\ UNCHANGED <<directory, list, parcel, requests, lapse, work, noticeVars>>

Redrawn(verified) == IF verified THEN "VERIFIED" ELSE "PENDING_VERIFICATION"

CheckDrawing(h, b, shape, verified, ack) ==
    /\ Accept(h, "draw") /\ Exists(b) /\ Sound(b, shape, ack)
    /\ Put(h, [pc |-> "redraw", beat |-> b, shape |-> shape, check |-> Redrawn(verified),
               ack |-> ack])
    /\ UNCHANGED <<rows, directory, history, work, noticeVars>>

StoreDrawing(h) ==
    LET r == req[h] IN
    /\ r.pc = "redraw"
    /\ beat' = [beat EXCEPT ![r.beat].shape = r.shape, ![r.beat].check = r.check]
    /\ Seen(r.beat, r.ack, Overlaps(r.beat, r.shape, 1))
    /\ Then(h, SweptAfterChange)
    /\ UNCHANGED <<directory, list, parcel, requests, lapse, work, noticeVars>>

Rename(h, b, name) ==
    /\ Accept(h, "rename") /\ Exists(b)
    /\ beat' = [beat EXCEPT ![b].name = name]
    /\ Then(h, SweptAfterChange)
    /\ UNCHANGED <<directory, list, parcel, history, work, noticeVars>>

(* Verifying changes no directory entry, so nothing is invalidated.        *)
CheckVerify(h, b, ack) ==
    /\ Accept(h, "verify") /\ Exists(b) /\ beat[b].shape # Empty
    /\ IF beat[b].check = "VERIFIED" THEN Put(h, [pc |-> "sweep", sweep |-> "all"])
       ELSE /\ ack \/ Overlaps(b, beat[b].shape, 1) = {}
            /\ Put(h, [pc |-> "verify", beat |-> b, ack |-> ack])
    /\ UNCHANGED <<rows, directory, history, work, noticeVars>>

StoreVerified(h) ==
    LET r == req[h] IN
    /\ r.pc = "verify"
    /\ beat' = [beat EXCEPT ![r.beat].check = "VERIFIED"]
    /\ knowingly' = knowingly \cup
          (IF r.ack THEN Pairs(r.beat, Overlaps(r.beat, beat[r.beat].shape, 1)) ELSE {})
    /\ Put(h, [pc |-> "sweep", sweep |-> "all"])
    /\ UNCHANGED <<directory, list, parcel, requests, lapse, work, noticeVars>>

Deactivate(h, b) ==
    /\ Accept(h, "status") /\ Exists(b)
    /\ beat' = [beat EXCEPT ![b].status = "INACTIVE"]
    /\ lapse' = [lapse EXCEPT !.sweep = TRUE]
    /\ Then(h, "none")
    /\ UNCHANGED <<directory, list, parcel, knowingly, work, noticeVars>>

Activate(h, b) ==
    /\ Accept(h, "status") /\ Exists(b)
    /\ beat' = [beat EXCEPT ![b].status = "ACTIVE"]
    /\ lapse' = IF Active(b) THEN lapse ELSE [lapse EXCEPT !.returned = @ \cup {b}]
    /\ Then(h, SweptAfterChange)
    /\ UNCHANGED <<directory, list, parcel, knowingly, work, noticeVars>>

-----------------------------------------------------------------------------
(* The beat list *)

Known == [b \in {c \in Beats : Exists(c)} |-> beat[b].records]
Wanted == Importable(Rows, list.mapping, Known)

UploadList(h) ==
    /\ Ready(h, "list") /\ list.status = "NONE"
    /\ list' = [list EXCEPT !.status = "PREVIEW_READY"]
    /\ UNCHANGED <<beat, parcel, directory, req, requests, history, work, noticeVars>>

Unfinished == list.status = "PREVIEW_READY"

ReadList(h, next) ==
    /\ Accept(h, "list") /\ Unfinished
    /\ Put(h, next)
    /\ UNCHANGED <<rows, directory, history, work, noticeVars>>
StartMapping(h, m) == ReadList(h, [pc |-> "mapping", mapping |-> m])
StartCancel(h)  == ReadList(h, [pc |-> "cancel"])
StartConfirm(h) ==
    Wanted # <<>> /\ ReadList(h, [pc |-> "import", beats |-> Wanted, known |-> DOMAIN Known])

(* None of the writes looks at the status again.                           *)
StoreMapping(h) ==
    /\ req[h].pc = "mapping"
    /\ list' = [list EXCEPT !.mapping = req[h].mapping]
    /\ Put(h, Idle)
    /\ UNCHANGED <<beat, parcel, directory, requests, history, work, noticeVars>>

StoreCancelled(h) ==
    /\ req[h].pc = "cancel"
    /\ list' = [list EXCEPT !.status = "CANCELLED"]
    /\ Put(h, Idle)
    /\ UNCHANGED <<beat, parcel, directory, requests, history, work, noticeVars>>

(* One transaction: new beats, the localities of new and known ones, and   *)
(* the list's status; a number taken meanwhile rolls all of it back.       *)
Imported(b, wanted) ==
    IF Exists(b) THEN [beat[b] EXCEPT !.records = @ \cup wanted.records]
    ELSE [status |-> "ACTIVE", shape |-> wanted.territory, name |-> wanted.name,
          check |-> IF wanted.territory = Empty THEN "NEEDS_REVIEW"
                    ELSE "PENDING_VERIFICATION",
          records |-> wanted.records]
ImportBeats(h) ==
    LET r == req[h] IN
    /\ r.pc = "import"
    /\ IF \E b \in DOMAIN r.beats \ r.known : Exists(b)
         THEN Put(h, Idle) /\ UNCHANGED <<beat, list>>
         ELSE /\ beat' = [b \in Beats |->
                   IF b \in DOMAIN r.beats THEN Imported(b, r.beats[b]) ELSE beat[b]]
              /\ list' = [list EXCEPT !.status = "CONFIRMED"]
              /\ Then(h, "waiting")
    /\ UNCHANGED <<parcel, directory, requests, history, work, noticeVars>>

-----------------------------------------------------------------------------
(* The directory and the match *)

(* One entry per locality record; a beat without any is found by its name. *)
DirectoryOf(beats) ==
    UNION {{<<b, l, beats[b].name>> : l \in IF beats[b].records # {} THEN beats[b].records
                             ELSE {<<beats[b].name, Empty>>} \ {<<Empty, Empty>>}}
           : b \in {c \in Beats : beats[c].status = "ACTIVE"}}

(* Also of a request that has read the beats and will still cache them.    *)
Dropped == NotCached

Invalidate(h) ==
    /\ req[h].pc = "invalidate"
    /\ directory' = Dropped
    /\ req' = [g \in Slots |->
          IF g = h THEN IF req[h].sweep = "none" THEN Idle
                        ELSE [pc |-> "sweep", sweep |-> req[h].sweep]
          ELSE IF req[g].pc = "fill" THEN [req[g] EXCEPT !.late = TRUE] ELSE req[g]]
    /\ lapse' = [lapse EXCEPT !.cache = FALSE]
    /\ UNCHANGED <<rows, requests, knowingly, work, noticeVars>>

Expire ==   \* 30 seconds after it was cached
    /\ directory # NotCached
    /\ directory' = NotCached /\ lapse' = [lapse EXCEPT !.cache = FALSE]
    /\ UNCHANGED <<rows, req, requests, knowingly, work, noticeVars>>

(* rematchOfficeDeliveries: which deliveries.                              *)
Candidates(sweep) ==
    {d \in Deliveries : sweep = "waiting" => parcel[d] \in {Waiting, New}}
StartSweep(h) ==
    /\ req[h].pc = "sweep"
    /\ Put(h, [pc |-> "next", todo |-> Candidates(req[h].sweep)])
    /\ lapse' = [lapse EXCEPT !.sweep = FALSE]
    /\ UNCHANGED <<rows, directory, requests, knowingly, work, noticeVars>>

Arrive(h, d) ==     \* a delivery is created, or repaired at startup
    /\ Accept(h, "deliver") /\ parcel[d] = New
    /\ Put(h, [pc |-> "next", todo |-> {d}])
    /\ UNCHANGED <<rows, directory, history, work, noticeVars>>

Matching(h, pc, d, entries) ==
    [pc |-> pc, todo |-> req[h].todo \ {d}, d |-> d, from |-> parcel[d],
     entries |-> entries, late |-> FALSE]
NextParcel(h) ==
    /\ req[h].pc = "next"
    /\ IF req[h].todo = {} THEN Put(h, Idle)
       ELSE \E d \in req[h].todo :
              \/ directory = NotCached /\ Put(h, Matching(h, "fill", d, DirectoryOf(beat)))
              \/ \E entries \in directory : Put(h, Matching(h, "decide", d, entries))
    /\ UNCHANGED <<rows, directory, requests, history, work, noticeVars>>

FillDirectory(h) ==
    /\ req[h].pc = "fill"
    /\ directory' = {req[h].entries}
    /\ lapse' = [lapse EXCEPT !.cache = req[h].late]
    /\ Put(h, [req[h] EXCEPT !.pc = "decide"])
    /\ UNCHANGED <<rows, requests, knowingly, work, noticeVars>>

RowsOf(entries) ==
    {[beat |-> e[1], locality |-> Words[e[2][1]], area |-> Words[e[2][2]], name |-> Words[e[3]]] : e \in entries}
CandidatesOf(d, entries) == scoreEntries(Address[d], RowsOf(entries))
findContainingBeats(d) ==
    {b \in Beats : Active(b) /\ beat[b].check = "VERIFIED" /\ beat[b].shape \in Place[d].within}

(* Where the territories of several beats lie around a house, the beats'   *)
(* postmen are asked for: how far from it is the nearest other delivery    *)
(* that each of them has?                                                  *)
CarrierOf(p) == IF p \in {PlacedIn(b) : b \in Beats} THEN Carrier[p.beat] ELSE Nobody
HeldBy(p, d) == {e \in DOMAIN Distance[d] : CarrierOf(parcel[e]) = p}
nearestActiveDeliveryDistanceM(p, d) ==
    LET metres == {Distance[d][e] : e \in HeldBy(p, d)}
    IN  CHOOSE m \in metres : \A n \in metres : m <= n
Nearest(d) ==
    [b \in {c \in Beats : Carrier[c] # Nobody /\ HeldBy(Carrier[c], d) # {}} |->
        nearestActiveDeliveryDistanceM(Carrier[b], d)]
NotAsked == [b \in {} |-> 0]
SlipThreeAround(d) ==
    IF Cardinality(findContainingBeats(d)) > 2 /\ isStrong(Place[d].precision) THEN Nearest(d) ELSE NotAsked
territoryPostmen(d) ==
    IF Cardinality(findContainingBeats(d)) > 1 /\ isStrong(Place[d].precision) THEN Nearest(d) ELSE NotAsked

Verdict(d, entries, nearest) ==
    decideAssignment(CandidatesOf(d, entries), Place[d].precision, findContainingBeats(d), nearest)

Decide(h) ==
    LET r == req[h] IN
    /\ r.pc = "decide"
    /\ Put(h, [pc |-> "apply", todo |-> r.todo, d |-> r.d, from |-> r.from,
               verdict |-> Verdict(r.d, r.entries, territoryPostmen(r.d))])
    /\ lapse' = [lapse EXCEPT !.moved = @ \ {r.d}]
    /\ UNCHANGED <<rows, directory, requests, knowingly, work, noticeVars>>

(* Nothing matches those again that it is a neighbour of.                  *)
NeighboursOf(d) == {e \in Deliveries : d \in DOMAIN Distance[e]}
Placed(verdict) == IF verdict.action = "ASSIGN" THEN PlacedIn(verdict.beat) ELSE Waiting
ApplyDecision(h) ==
    LET r == req[h]
        to == Placed(r.verdict)
    IN /\ r.pc = "apply"
       /\ parcel' = [parcel EXCEPT ![r.d] = to]
       /\ lapse' = IF CarrierOf(to) = CarrierOf(parcel[r.d]) THEN lapse
                   ELSE [lapse EXCEPT !.moved = @ \cup NeighboursOf(r.d)]
       /\ IF "notices" \in work THEN Owe(CarrierOf(parcel[r.d]), CarrierOf(to)) ELSE UNCHANGED due
       /\ Put(h, [pc |-> "announce", todo |-> r.todo, d |-> r.d, from |-> r.from, to |-> to])
       /\ UNCHANGED <<beat, list, directory, requests, knowingly, work, batch, told>>

(* The change is told as from the postman read at the start of the match.  *)
Announce(h) ==
    LET r == req[h] IN
    /\ r.pc = "announce"
    /\ IF "notices" \in work
         THEN announceAssignmentChanges(r.d, CarrierOf(r.from), CarrierOf(r.to))
         ELSE UNCHANGED <<batch, told>>
    /\ Put(h, [pc |-> "next", todo |-> r.todo])
    /\ UNCHANGED <<rows, directory, requests, history, work, due>>

-----------------------------------------------------------------------------
SendBatch(k, p) ==
    /\ Flush(k, p)
    /\ UNCHANGED <<rows, directory, req, requests, history, work>>

(* The server stops and starts again: what it had in memory is gone.       *)
Stop ==
    /\ "stop" \in work /\ \E h \in Slots : req[h] # Idle
    /\ directory' = NotCached
    /\ lapse' = [lapse EXCEPT !.cache = FALSE, !.sweep = TRUE]
    /\ req' = [h \in Slots |-> Idle]
    /\ ForgetBatches
    /\ UNCHANGED <<rows, requests, knowingly, work>>

Step(h) ==
    \/ InsertBeat(h) \/ StoreDrawing(h) \/ StoreVerified(h)
    \/ StoreMapping(h) \/ StoreCancelled(h) \/ ImportBeats(h)
    \/ Invalidate(h) \/ StartSweep(h) \/ NextParcel(h) \/ FillDirectory(h)
    \/ Decide(h) \/ ApplyDecision(h) \/ Announce(h)

NewRequest(h) ==
    \/ \E b \in Beats, s \in Shapes, n \in Names, ack \in BOOLEAN :
         CheckNew(h, b, s, n, ack)
    \/ \E b \in Beats, s \in Shapes, v, ack \in BOOLEAN : CheckDrawing(h, b, s, v, ack)
    \/ \E b \in Beats, n \in Names : Rename(h, b, n)
    \/ \E b \in Beats, ack \in BOOLEAN : CheckVerify(h, b, ack)
    \/ \E b \in Beats : Deactivate(h, b) \/ Activate(h, b)
    \/ UploadList(h) \/ StartCancel(h) \/ StartConfirm(h)
    \/ \E m \in Mappings : StartMapping(h, m)
    \/ \E d \in Deliveries : Arrive(h, d)

Next ==
    \/ \E h \in Slots : Step(h) \/ NewRequest(h)
    \/ \E k \in Kinds, p \in Postmen : SendBatch(k, p)
    \/ Expire \/ Stop

Spec == Init /\ [][Next]_vars

-----------------------------------------------------------------------------
(* Properties *)

(* What is owed: lapse.cache, the cached entries were read before an       *)
(* invalidation and cached after it (for 30 seconds at most); lapse.sweep, *)
(* a beat was taken out of use, or the server stopped in the middle of a   *)
(* sweep, and no sweep has come since; lapse.returned, beats that came     *)
(* back into use, for which overlaps are not looked at; lapse.moved,       *)
(* deliveries a neighbour of which went to another postman after they were *)
(* matched themselves: no sweep follows that.                              *)
Quiet  == \A h \in Slots : req[h] = Idle
Serial == "overlap" \notin work

(* "Any write that changes beats or their localities calls                 *)
(* invalidateDirectory()": cached entries are those of the beats, unless a *)
(* request is about to invalidate them or they were cached too late.       *)
CachedIsCurrent ==
    \A entries \in directory :
        \/ entries = DirectoryOf(beat) \/ lapse.cache
        \/ \E h \in Slots : req[h].pc = "invalidate"

(* "Deliveries waiting for a beat are matched against it now": with one    *)
(* request at a time, no delivery waits although its beat can be told from *)
(* its words and its place; nor although the deliveries the postmen have   *)
(* around it tell, unless one of those moved after the delivery had been   *)
(* matched.                                                                *)
Unknown(d) ==
    LET Tells(nearest) == Verdict(d, DirectoryOf(beat), nearest).action = "ASSIGN"
    IN  ~Tells(NotAsked) /\ (d \notin lapse.moved => ~Tells(Nearest(d)))
WaitingIsUnknown ==
    Serial /\ Quiet /\ ~lapse.sweep =>
        \A d \in Deliveries : parcel[d] = Waiting => Unknown(d)

(* "An overlap is a decision, never an accident": with one request at a    *)
(* time, two verified territories in use overlap only knowingly, or        *)
(* because one of the beats came back into use.                            *)
OverlapsAreDecided ==
    Serial => \A a, b \in Beats :
        (/\ a # b /\ Active(a) /\ Active(b) /\ {a, b} \cap lapse.returned = {}
         /\ beat[a].check = "VERIFIED" /\ beat[b].check = "VERIFIED"
         /\ Empty \notin {beat[a].shape, beat[b].shape}
         /\ Overlap[beat[a].shape][beat[b].shape] > 25)
        => {a, b} \in knowingly

(* A locality of several beats "scores the same for all of them until the  *)
(* main area tells them apart - reported as AMBIGUOUS, not guessed": for   *)
(* every directory that is read, a letter's words alone give it to no beat *)
(* whose localities in the letter are all another's too, unless the letter *)
(* mentions one of its main areas.                                         *)
Mentions(letter, phrase) ==
    \E t \in Range(phrase), word \in Range(letter.tokens) : Similar(t, word)
Mentioned(letter, b, entries) ==
    {l \in UNION {{e.locality, e.name} : e \in {n \in entries : n.beat = b}} : Mentions(letter, l)}
GuessesAmong(letter, entries) ==
    LET candidates == scoreEntries(letter, entries)
        winner == Best(candidates).beat
        Told == \E e \in entries : e.beat = winner /\ Mentions(letter, e.area)
    IN  /\ Level(candidates) \in {"HIGH", "MEDIUM"} /\ ~Told
        /\ \E o \in Beats \ {winner} :
              Mentioned(letter, winner, entries) \subseteq Mentioned(letter, o, entries)
Normalised == {normalizeAddress(l.segments, l.field, l.office, l.pincode) : l \in Letters}
SharedLocalityIsNotGuessed ==
    \A h \in Slots : req[h].pc = "fill" =>
        \A letter \in Normalised : ~GuessesAmong(letter, RowsOf(req[h].entries))

(* What waits and what is placed goes by the beats as they are.            *)
MatchesAreCurrent == CachedIsCurrent /\ WaitingIsUnknown

(* A postman is told of as many deliveries as came to him and left him,    *)
(* and of none that were not committed: with one request at a time, what   *)
(* was committed is told, in a batch, or about to be announced, and a stop *)
(* of the server can only lose some of it.                                 *)
Announcing(k, p) ==
    {h \in Slots : req[h].pc = "announce"
                     /\ <<k, p>> \in ChangesOf(CarrierOf(req[h].from), CarrierOf(req[h].to))}
ToldWhatHappened ==
    Serial /\ "notices" \in work => \A k \in Kinds, p \in WithLogin :
        LET known == told[k][p] + batch[k][p] + Cardinality(Announcing(k, p))
        IN IF "stop" \in work THEN known <= due[k][p] ELSE known = due[k][p]
=============================================================================
