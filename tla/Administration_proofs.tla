------------------------ MODULE Administration_proofs ------------------------
(* What holds of the beats of an office and of its staff whatever the       *)
(* beats, the list, the letters, the requests and what happens meanwhile.   *)
(* The office: the directory read from the beats, the territories, the      *)
(* parcels that wait and what the postmen are told; each needs what the     *)
(* requests in between have read and have still to do; and which beats a    *)
(* letter can be given to by its words. The staff: the pictures, the logins *)
(* and what names a postman. The wizard of the panel: what is shown of a    *)
(* list, and what becomes of its rows.                                      *)
EXTENDS MCAdministration, BeatListWizard, FiniteSetTheorems, WellFoundedInduction, TLAPS

-----------------------------------------------------------------------------
(* The requests of the office *)

BeatFields  == {"status", "check", "shape", "name", "records"}
MatchFields == {"pc", "todo", "d", "from", "entries", "late"}

RequestOK(r) == r.pc = "fill" => DOMAIN r = MatchFields

Shaped ==
    /\ DOMAIN beat = Beats /\ \A b \in Beats : DOMAIN beat[b] = BeatFields
    /\ DOMAIN parcel = Deliveries
    /\ DOMAIN req = Slots /\ \A h \in Slots : RequestOK(req[h])
    /\ DOMAIN lapse = {"cache", "sweep", "returned", "moved"}

(* A step of one request.                                                  *)
Only(h) == DOMAIN req' = Slots /\ \A g \in Slots \ {h} : req'[g] = req[g]

LEMMA PutDoes ==
    ASSUME DOMAIN req = Slots, NEW h \in Slots, NEW r, Put(h, r)
    PROVE  Only(h) /\ req'[h] = r
BY DEF Put, Only

LEMMA AcceptDoes ==
    ASSUME NEW h \in Slots, NEW kind, Accept(h, kind)
    PROVE  /\ req[h] = Idle
           /\ Serial => \A g \in Slots : req[g] = Idle
BY DEF Accept, Ready, Serial

LEMMA ShapedInit == ASSUME NEW w, InitIn(w) PROVE Shaped
BY DEF InitIn, Shaped, NoBeatRow, BeatFields, Idle, RequestOK

(* What a step does to the beats.                                          *)
LEMMA WriteKeepsRows ==
    ASSUME Shaped, NEW h \in Slots, Step(h) \/ NewRequest(h)
    PROVE  DOMAIN beat' = Beats /\ \A b \in Beats : DOMAIN beat'[b] = BeatFields
<1>1. DOMAIN beat = Beats /\ \A b \in Beats : DOMAIN beat[b] = BeatFields
  BY DEF Shaped
<1>2. CASE InsertBeat(h)
  BY <1>1, <1>2 DEF InsertBeat, BeatFields
<1>3. CASE StoreDrawing(h)
  BY <1>1, <1>3 DEF StoreDrawing, BeatFields
<1>4. CASE StoreVerified(h)
  BY <1>1, <1>4 DEF StoreVerified, BeatFields
<1>5. CASE ImportBeats(h)
  <2>1. ASSUME NEW b \in Beats, NEW w PROVE DOMAIN Imported(b, w) = BeatFields
    BY <1>1 DEF Imported, BeatFields
  <2>. QED
    BY <1>1, <1>5, <2>1 DEF ImportBeats
<1>6. CASE \E b \in Beats : Deactivate(h, b) \/ Activate(h, b)
  BY <1>1, <1>6 DEF Deactivate, Activate, BeatFields
<1>7. CASE \E b \in Beats, n \in Names : Rename(h, b, n)
  BY <1>1, <1>7 DEF Rename, BeatFields
<1>8. CASE ~(InsertBeat(h) \/ StoreDrawing(h) \/ StoreVerified(h) \/ ImportBeats(h)
             \/ (\E b \in Beats : Deactivate(h, b) \/ Activate(h, b))
             \/ (\E b \in Beats, n \in Names : Rename(h, b, n)))
  <2>1. beat' = beat
    BY <1>8 DEF Step, NewRequest, rows, StoreMapping, StoreCancelled, Invalidate, StartSweep, NextParcel,
       FillDirectory, Decide, ApplyDecision, Announce, CheckNew, CheckDrawing, CheckVerify, UploadList,
       StartCancel, StartConfirm, StartMapping, ReadList, Arrive
  <2>. QED
    BY <1>1, <2>1
<1>. QED
  BY <1>2, <1>3, <1>4, <1>5, <1>6, <1>7, <1>8

LEMMA LapseKeepsFields ==
    ASSUME Shaped, NEW h \in Slots, Step(h) \/ NewRequest(h)
    PROVE  DOMAIN lapse' = {"cache", "sweep", "returned", "moved"} /\ DOMAIN parcel' = Deliveries
BY DEF Shaped, Step, NewRequest, rows, history, InsertBeat, StoreDrawing, StoreVerified, ImportBeats,
       Rename, Deactivate, Activate, StoreMapping, StoreCancelled,
       Invalidate, StartSweep, NextParcel,
       FillDirectory, Decide, ApplyDecision, Announce, CheckNew, CheckDrawing, CheckVerify, UploadList,
       StartCancel, StartConfirm, StartMapping, ReadList, Arrive

LEMMA RequestsKeepShape ==
    ASSUME Shaped, NEW h \in Slots, Step(h) \/ NewRequest(h)
    PROVE  DOMAIN req' = Slots /\ \A g \in Slots : RequestOK(req'[g])
<1>1. DOMAIN req = Slots /\ \A g \in Slots : RequestOK(req[g])
  BY DEF Shaped
<1>2. ASSUME NEW r, Put(h, r), RequestOK(r)
      PROVE  DOMAIN req' = Slots /\ \A g \in Slots : RequestOK(req'[g])
  BY <1>1, <1>2 DEF Put
<1>3. CASE Invalidate(h)
  BY <1>1, <1>3 DEF Invalidate, RequestOK, MatchFields, Idle
<1>4. CASE NextParcel(h)
  <2>1. ASSUME NEW pc, NEW d, NEW entries
        PROVE  RequestOK(Matching(h, pc, d, entries)) /\ RequestOK(Idle)
    BY DEF RequestOK, Matching, MatchFields, Idle
  <2>. QED
    BY <1>2, <1>4, <2>1 DEF NextParcel
<1>5. CASE FillDirectory(h)
  <2>1. RequestOK([req[h] EXCEPT !.pc = "decide"])
    BY <1>1, <1>5 DEF FillDirectory, RequestOK, MatchFields
  <2>. QED
    BY <1>2, <1>5, <2>1 DEF FillDirectory
<1>6. CASE UploadList(h)
  BY <1>1, <1>6 DEF UploadList
<1>7. CASE Decide(h) \/ ApplyDecision(h) \/ Announce(h) \/ StartSweep(h)
  <2>1. \A r : r.pc \in {"apply", "announce", "next"} => RequestOK(r)
    BY DEF RequestOK
  <2>. QED
    BY <1>2, <1>7, <2>1 DEF Decide, ApplyDecision, Announce, StartSweep
<1>8. CASE InsertBeat(h) \/ StoreDrawing(h) \/ StoreVerified(h) \/ StoreMapping(h)
           \/ StoreCancelled(h) \/ ImportBeats(h)
  <2>1. /\ RequestOK(Idle) /\ \A s : RequestOK([pc |-> "invalidate", sweep |-> s])
        /\ \A s : RequestOK([pc |-> "sweep", sweep |-> s])
    BY DEF RequestOK, Idle
  <2>. QED
    BY <1>2, <1>8, <2>1 DEF InsertBeat, StoreDrawing, StoreVerified, StoreMapping, StoreCancelled,
       ImportBeats, Then
<1>9. CASE NewRequest(h) /\ ~UploadList(h)
  <2>1. ASSUME NEW r, Put(h, r), r.pc # "fill"
        PROVE  DOMAIN req' = Slots /\ \A g \in Slots : RequestOK(req'[g])
    BY <1>2, <2>1 DEF RequestOK
  <2>2. CASE \E b \in Beats, s \in Shapes, n \in Names, ack \in BOOLEAN :
               CheckNew(h, b, s, n, ack)
    BY <2>1, <2>2 DEF CheckNew
  <2>3. CASE \E b \in Beats, s \in Shapes, v, ack \in BOOLEAN : CheckDrawing(h, b, s, v, ack)
    BY <2>1, <2>3 DEF CheckDrawing
  <2>4. CASE \E b \in Beats, ack \in BOOLEAN : CheckVerify(h, b, ack)
    BY <2>1, <2>4 DEF CheckVerify
  <2>5. CASE (\E b \in Beats, n \in Names : Rename(h, b, n))
             \/ (\E b \in Beats : Deactivate(h, b) \/ Activate(h, b))
    BY <2>1, <2>5 DEF Rename, Deactivate, Activate, Then
  <2>6. CASE StartCancel(h) \/ StartConfirm(h) \/ (\E m \in Mappings : StartMapping(h, m))
    BY <2>1, <2>6 DEF StartCancel, StartConfirm, StartMapping, ReadList
  <2>7. CASE \E d \in Deliveries : Arrive(h, d)
    BY <2>1, <2>7 DEF Arrive
  <2>. QED
    BY <1>9, <2>2, <2>3, <2>4, <2>5, <2>6, <2>7 DEF NewRequest
<1>. QED
  BY <1>3, <1>4, <1>5, <1>6, <1>7, <1>8, <1>9 DEF Step

LEMMA ShapedNext == Shaped /\ [Next]_vars => Shaped'
<1> SUFFICES ASSUME Shaped, [Next]_vars PROVE Shaped'
  OBVIOUS
<1>1. ASSUME NEW h \in Slots, Step(h) \/ NewRequest(h)
      PROVE  Shaped'
  BY <1>1, WriteKeepsRows, LapseKeepsFields, RequestsKeepShape DEF Shaped
<1>2. CASE Expire \/ (\E k \in Kinds, p \in Postmen : SendBatch(k, p)) \/ UNCHANGED vars
  BY <1>2 DEF Shaped, Expire, SendBatch, vars, rows, history
<1>3. CASE Stop
  <2>1. RequestOK(Idle)
    BY DEF RequestOK, Idle
  <2>. QED
    BY <1>3, <2>1 DEF Shaped, Stop, rows
<1>. QED
  BY <1>1, <1>2, <1>3 DEF Next

-----------------------------------------------------------------------------
(* The cached directory *)

Invalidating == \E h \in Slots : req[h].pc = "invalidate"
Listing == DirectoryOf(beat)
Fresh(entries) == entries = Listing

(* What a request has read of the beats is current, or known not to be.    *)
Current ==
    /\ \A entries \in directory : Fresh(entries) \/ lapse.cache \/ Invalidating
    /\ \A h \in Slots : req[h].pc = "fill" =>
         Fresh(req[h].entries) \/ req[h].late \/ Invalidating

LEMMA DirectoryReads ==
    ASSUME NEW old, NEW new,
           \A b \in Beats : /\ new[b].status = old[b].status /\ new[b].name = old[b].name
                            /\ new[b].records = old[b].records
    PROVE  DirectoryOf(new) = DirectoryOf(old)
<1> DEFINE Listed(bs, b) == {<<b, l, bs[b].name>> : l \in IF bs[b].records # {} THEN bs[b].records
                             ELSE {<<bs[b].name, Empty>>} \ {<<Empty, Empty>>}}
<1>1. \A b \in Beats : Listed(new, b) = Listed(old, b)
  OBVIOUS
<1>2. {c \in Beats : new[c].status = "ACTIVE"} = {c \in Beats : old[c].status = "ACTIVE"}
  OBVIOUS
<1>3. /\ DirectoryOf(new) = UNION {Listed(new, b) : b \in {c \in Beats : new[c].status = "ACTIVE"}}
      /\ DirectoryOf(old) = UNION {Listed(old, b) : b \in {c \in Beats : old[c].status = "ACTIVE"}}
  BY DEF DirectoryOf
<1> HIDE DEF Listed
<1>. QED
  BY <1>1, <1>2, <1>3

(* A write of the beats is followed by an invalidation...                  *)
LEMMA InvalidatingIsCurrent == Invalidating' => Current'
BY DEF Current

LEMMA ThenInvalidates ==
    ASSUME Shaped, NEW h \in Slots, NEW sweep, Then(h, sweep)
    PROVE  Invalidating'
BY DEF Then, Put, Invalidating, Shaped

(* ... and nothing else changes what the directory would read.             *)
StaysCurrent(h) ==
    /\ req[h].pc # "invalidate" /\ Only(h)
    /\ req'[h].pc = "fill" => req'[h].entries = Listing
    /\ Listing' = Listing
    /\ directory' = directory /\ lapse'.cache = lapse.cache

LEMMA StaysCurrentIsCurrent ==
    ASSUME Shaped, Current, NEW h \in Slots, StaysCurrent(h)
    PROVE  Current'
<1>1. Invalidating => Invalidating'
  BY DEF StaysCurrent, Invalidating, Only
<1>. QED
  BY <1>1 DEF Current, StaysCurrent, Fresh, Only

LEMMA NewStaysCurrent ==
    ASSUME Shaped, NEW h \in Slots, NewRequest(h)
    PROVE  StaysCurrent(h) \/ Invalidating'
<1>1. DOMAIN req = Slots
  BY DEF Shaped
<1>2. ASSUME NEW kind, NEW r, Accept(h, kind), Put(h, r), r.pc # "fill",
             beat' = beat, directory' = directory, lapse' = lapse
      PROVE  StaysCurrent(h)
  BY <1>1, <1>2, PutDoes, AcceptDoes DEF StaysCurrent, Idle, Listing
<1>3. CASE \E b \in Beats, s \in Shapes, n \in Names, ack \in BOOLEAN :
             CheckNew(h, b, s, n, ack)
  BY <1>2, <1>3 DEF CheckNew, rows, history
<1>4. CASE \E b \in Beats, s \in Shapes, v, ack \in BOOLEAN : CheckDrawing(h, b, s, v, ack)
  BY <1>2, <1>4 DEF CheckDrawing, rows, history
<1>5. CASE \E b \in Beats, ack \in BOOLEAN : CheckVerify(h, b, ack)
  BY <1>2, <1>5 DEF CheckVerify, rows, history
<1>6. CASE (\E b \in Beats, n \in Names : Rename(h, b, n))
           \/ (\E b \in Beats : Deactivate(h, b) \/ Activate(h, b))
  BY <1>6, ThenInvalidates DEF Rename, Deactivate, Activate
<1>7. CASE StartCancel(h) \/ StartConfirm(h) \/ (\E m \in Mappings : StartMapping(h, m))
  BY <1>2, <1>7 DEF StartCancel, StartConfirm, StartMapping, ReadList, rows, history
<1>8. CASE \E d \in Deliveries : Arrive(h, d)
  BY <1>2, <1>8 DEF Arrive, rows, history
<1>9. CASE UploadList(h)
  BY <1>1, <1>9 DEF UploadList, Ready, StaysCurrent, Only, Idle, history, Listing
<1>. QED
  BY <1>3, <1>4, <1>5, <1>6, <1>7, <1>8, <1>9 DEF NewRequest

LEMMA StepStaysCurrent ==
    ASSUME Shaped, NEW h \in Slots, Step(h), ~Invalidate(h), ~FillDirectory(h)
    PROVE  StaysCurrent(h) \/ Invalidating'
<1>1. DOMAIN req = Slots
  BY DEF Shaped
<1>2. ASSUME NEW r, req[h].pc # "invalidate", Put(h, r), r.pc # "fill", beat' = beat \/ Listing' = Listing,
             directory' = directory, lapse'.cache = lapse.cache
      PROVE  StaysCurrent(h)
  BY <1>1, <1>2, PutDoes DEF StaysCurrent, Listing
<1>3. CASE InsertBeat(h)
  BY <1>2, <1>3, ThenInvalidates DEF InsertBeat, Idle
<1>4. CASE StoreDrawing(h)
  BY <1>4, ThenInvalidates DEF StoreDrawing
<1>5. CASE StoreVerified(h)
  <2>1. Listing' = Listing
    BY <1>5, DirectoryReads, ZenonT(40) DEF StoreVerified, Shaped, BeatFields, Listing
  <2>. QED
    BY <1>2, <1>5, <2>1 DEF StoreVerified
<1>6. CASE StoreMapping(h) \/ StoreCancelled(h)
  BY <1>2, <1>6 DEF StoreMapping, StoreCancelled, Idle, history
<1>7. CASE ImportBeats(h)
  BY <1>2, <1>7, ThenInvalidates DEF ImportBeats, Idle, history
<1>8. CASE StartSweep(h)
  <2>1. lapse'.cache = lapse.cache
    BY <1>8 DEF StartSweep, Shaped
  <2>. QED
    BY <1>2, <1>8, <2>1 DEF StartSweep, rows
<1>9. CASE NextParcel(h)
  <2>1. /\ beat' = beat /\ directory' = directory /\ lapse' = lapse
        /\ req[h].pc # "invalidate" /\ lapse'.cache = lapse.cache
    BY <1>9 DEF NextParcel, rows, history
  <2>2. ASSUME NEW d, Put(h, Matching(h, "fill", d, DirectoryOf(beat))) PROVE StaysCurrent(h)
    BY <1>1, <2>1, <2>2, PutDoes DEF StaysCurrent, Matching, Listing
  <2>3. ASSUME NEW d, NEW entries, Put(h, Matching(h, "decide", d, entries)) PROVE StaysCurrent(h)
    BY <1>2, <2>1, <2>3 DEF Matching
  <2>4. Put(h, Idle) => StaysCurrent(h)
    BY <1>2, <2>1 DEF Idle
  <2>. QED
    BY <1>9, <2>2, <2>3, <2>4 DEF NextParcel
<1>10. CASE Decide(h)
  BY <1>2, <1>10 DEF Decide, rows, history
<1>11. CASE ApplyDecision(h)
  BY <1>2, <1>11 DEF ApplyDecision, history
<1>12. CASE Announce(h)
  BY <1>2, <1>12 DEF Announce, rows, history
<1>. QED
  BY <1>3, <1>4, <1>5, <1>6, <1>7, <1>8, <1>9, <1>10, <1>11, <1>12 DEF Step

LEMMA CurrentNext == Shaped /\ Current /\ [Next]_vars => Current'
<1> SUFFICES ASSUME Shaped, Current, [Next]_vars PROVE Current'
  OBVIOUS
<1>1. ASSUME NEW h \in Slots, NewRequest(h) \/ (Step(h) /\ ~Invalidate(h) /\ ~FillDirectory(h))
      PROVE  Current'
  BY <1>1, NewStaysCurrent, StepStaysCurrent, StaysCurrentIsCurrent, InvalidatingIsCurrent
<1>2. ASSUME NEW h \in Slots, Invalidate(h) PROVE Current'
  <2>1. directory' = {}
    BY <1>2 DEF Invalidate, Dropped, NotCached
  <2>2. ASSUME NEW g \in Slots, req'[g].pc = "fill" PROVE req'[g].late
    <3>1. g # h /\ req[g].pc = "fill" /\ req'[g] = [req[g] EXCEPT !.late = TRUE]
      BY <1>2, <2>2 DEF Invalidate, Idle
    <3>. QED
      BY <3>1 DEF Shaped, RequestOK, MatchFields
  <2>. QED
    BY <2>1, <2>2 DEF Current
<1>3. ASSUME NEW h \in Slots, FillDirectory(h) PROVE Current'
  <2>1. /\ directory' = {req[h].entries} /\ lapse'.cache = req[h].late
        /\ beat' = beat /\ req[h].pc = "fill"
    BY <1>3 DEF FillDirectory, rows, Shaped
  <2>2. Only(h) /\ req'[h].pc = "decide"
    BY <1>3, <2>1 DEF FillDirectory, Put, Only, Shaped, RequestOK, MatchFields
  <2>3. Invalidating => Invalidating'
    BY <2>1, <2>2 DEF Invalidating, Only
  <2>. QED
    BY <2>1, <2>2, <2>3 DEF Current, Fresh, Listing, Only
<1>4. CASE Expire \/ Stop
  BY <1>4 DEF Current, Expire, Stop, rows, Idle, NotCached, Invalidating, Fresh, Listing
<1>5. CASE (\E k \in Kinds, p \in Postmen : SendBatch(k, p)) \/ UNCHANGED vars
  BY <1>5 DEF Current, SendBatch, vars, rows, history, Invalidating, Fresh, Listing
<1>. QED
  BY <1>1, <1>2, <1>3, <1>4, <1>5 DEF Next

LEMMA CurrentInit == ASSUME NEW w, InitIn(w) PROVE Current
BY DEF InitIn, Current, NotCached, Idle

(* A set of numbers has a least one: the sets 1 .. n are ordered as the    *)
(* numbers are, and being a strict subset is well-founded.                 *)
LEMMA HasLeast ==
    ASSUME NEW T \in SUBSET Nat, T # {}
    PROVE  \E n \in T : \A m \in T : n <= m
<1> DEFINE U == {1 .. n : n \in T}
<1>1. U \subseteq FiniteSubsetsOf(Nat) /\ U # {}
  <2>1. \A n \in T : IsFiniteSet(1 .. n)
    BY FS_Interval
  <2>2. \A n \in T : 1 .. n \in SUBSET Nat
    OBVIOUS
  <2>. QED
    BY <2>1, <2>2 DEF FiniteSubsetsOf
<1>2. IsWellFoundedOn(StrictSubsetOrdering(Nat), FiniteSubsetsOf(Nat))
  BY FS_StrictSubsetOrderingWellFounded
<1>3. PICK least \in U : \A other \in U : <<other, least>> \notin StrictSubsetOrdering(Nat)
  <2>. HIDE DEF U
  <2>. QED
    BY <1>1, <1>2, WFMin
<1>4. PICK n \in T : least = 1 .. n
  OBVIOUS
<1>5. ASSUME NEW m \in T, m < n
      PROVE  FALSE
  <2>1. 1 .. m \in U /\ 1 .. m \subseteq 1 .. n /\ n \in 1 .. n /\ n \notin 1 .. m
    BY <1>5
  <2>2. <<1 .. m, least>> \in StrictSubsetOrdering(Nat)
    BY <1>4, <2>1 DEF StrictSubsetOrdering
  <2>. QED
    BY <1>3, <2>1, <2>2
<1>. QED
  BY <1>4, <1>5

(* The rows of a list, taken one after the other.                          *)
IsRun(f, k, file, mapping, known) ==
    f = [r \in 0..k |-> IF r = 0 THEN <<>> ELSE AfterRow(file, mapping, known, f[r - 1], r)]

LEMMA RunExists ==
    ASSUME NEW n \in Nat, NEW file, NEW mapping, NEW known
    PROVE  \E f : IsRun(f, n, file, mapping, known)
<1> DEFINE After(b, r) == AfterRow(file, mapping, known, b, r)
           Run(f, k) == f = [r \in 0..k |-> IF r = 0 THEN <<>> ELSE After(f[r - 1], r)]
<1> SUFFICES \E f : Run(f, n)
  BY DEF IsRun
<1> HIDE DEF After
<1> SUFFICES ASSUME ~\E f : Run(f, n) PROVE FALSE
  OBVIOUS
<1> DEFINE bad == {k \in Nat : ~\E f : Run(f, k)}
<1>1. PICK k \in bad : \A m \in bad : k <= m
  <2>1. bad \in SUBSET Nat /\ bad # {}
    OBVIOUS
  <2>. HIDE DEF bad
  <2>. QED
    BY <2>1, HasLeast
<1>2. CASE k = 0
  <2>1. Run([r \in 0..0 |-> <<>>], 0)
    BY DEF Run
  <2>. QED
    BY <1>1, <1>2, <2>1
<1>3. CASE k # 0
  <2>1. k - 1 \in Nat /\ k - 1 \notin bad
    BY <1>1, <1>3
  <2>2. PICK f : Run(f, k - 1)
    BY <2>1
  <2> DEFINE g == [r \in 0..k |-> IF r = k THEN After(f[k - 1], k) ELSE f[r]]
  <2>3. ASSUME NEW r \in 0..k
        PROVE  g[r] = IF r = 0 THEN <<>> ELSE After(g[r - 1], r)
    <3>1. CASE r = k
      <4>1. k - 1 \in 0..k /\ k - 1 # k
        BY <2>1
      <4>. QED
        BY <1>3, <3>1, <4>1
    <3>2. CASE r # k
      <4>1. r \in 0..(k - 1) /\ g[r] = f[r]
        BY <3>2, <1>1
      <4>2. f[r] = IF r = 0 THEN <<>> ELSE After(f[r - 1], r)
        BY <2>2, <4>1
      <4>3. r # 0 => r - 1 \in 0..k /\ r - 1 # k
        BY <4>1, <1>1
      <4>. QED
        BY <4>1, <4>2, <4>3
    <3>. QED
      BY <3>1, <3>2
  <2>4. Run(g, k)
    <3>1. g = [r \in 0..k |-> g[r]]
      OBVIOUS
    <3>. HIDE DEF g
    <3>. QED
      BY <2>3, <3>1
  <2>. QED
    BY <1>1, <2>4
<1>. QED
  BY <1>2, <1>3

(* What a list gives a beat is written in the list.                        *)
Territories == Shapes \cup {Empty}
OfList(row) == /\ row.territory \in Territories /\ row.name \in Names
               /\ row.locality \in Names /\ row.mainArea \in Areas \cup {Empty}
FromList(adds) ==
    \A m \in DOMAIN adds : /\ adds[m].territory \in Territories /\ adds[m].name \in Names
                           /\ adds[m].records \subseteq Records

LEMMA RowGivesItsRecord ==
    ASSUME NEW row, OfList(row), NEW mapping
    PROVE  RecordOf(row, mapping) \subseteq Records
<1>1. Cell(row, "locality", mapping) \in Names /\ Cell(row, "mainArea", mapping) \in Areas \cup {Empty}
  BY DEF Cell, OfList, Names
<1>2. CASE Cell(row, "locality", mapping) = Empty
  BY <1>2 DEF RecordOf
<1>3. CASE Cell(row, "locality", mapping) # Empty
  <2>1. <<Cell(row, "locality", mapping), Cell(row, "mainArea", mapping)>> \in Records
    BY <1>1, <1>3 DEF Names, Records
  <2>. QED
    BY <1>3, <2>1 DEF RecordOf
<1>. QED
  BY <1>2, <1>3

LEMMA RowKeepsToTheList ==
    ASSUME NEW file, NEW mapping, NEW known, NEW adds, NEW r, OfList(file[r]), FromList(adds)
    PROVE  FromList(AfterRow(file, mapping, known, adds, r))
<1>1. /\ Cell(file[r], "territory", mapping) \in Territories /\ Cell(file[r], "name", mapping) \in Names
      /\ RecordOf(file[r], mapping) \subseteq Records
  BY RowGivesItsRecord DEF Cell, OfList, Territories, Names
<1>2. ASSUME NEW n PROVE FromList(Gather(adds, n, file[r], mapping))
  <2>1. \A m \in DOMAIN adds : /\ adds[m].territory \in Territories /\ adds[m].name \in Names
                               /\ adds[m].records \subseteq Records
    BY DEF FromList
  <2> DEFINE name == Cell(file[r], "name", mapping)
             shape == Cell(file[r], "territory", mapping)
             record == RecordOf(file[r], mapping)
             old == IF n \in DOMAIN adds THEN adds[n]
                    ELSE [name |-> Empty, territory |-> Empty, records |-> {}]
             new == [name |-> IF old.name = Empty THEN name ELSE old.name,
                     territory |-> IF old.territory = Empty THEN shape ELSE old.territory,
                     records |-> old.records \cup record]
             G == Gather(adds, n, file[r], mapping)
  <2>2. old.territory \in Territories /\ old.name \in Names /\ old.records \subseteq Records
    BY <2>1 DEF Territories, Names
  <2>3. G = [m \in DOMAIN adds \cup {n} |-> IF m = n THEN new ELSE adds[m]]
    BY DEF Gather
  <2> HIDE DEF name, shape, record, old, G
  <2>4. new.territory \in Territories /\ new.name \in Names /\ new.records \subseteq Records
    BY <1>1, <2>2 DEF name, shape, record
  <2> HIDE DEF new
  <2>5. \A m \in DOMAIN G : /\ G[m].territory \in Territories /\ G[m].name \in Names
                            /\ G[m].records \subseteq Records
    BY <2>1, <2>3, <2>4
  <2>. QED
    BY <2>5 DEF FromList, G
<1>. QED
  BY <1>2 DEF AfterRow

LEMMA ImportableFromList ==
    ASSUME NEW file, NEW mapping, NEW known, Len(file) \in Nat,
           \A r \in 1..Len(file) : OfList(file[r])
    PROVE  FromList(Importable(file, mapping, known))
<1> DEFINE n == Len(file)
           After(b, r) == AfterRow(file, mapping, known, b, r)
           upTo == CHOOSE f : f = [r \in 0..n |-> IF r = 0 THEN <<>> ELSE After(f[r - 1], r)]
<1>1. FromList(<<>>)
  BY DEF FromList
<1>2. upTo = [r \in 0..n |-> IF r = 0 THEN <<>> ELSE After(upTo[r - 1], r)]
  <2>1. \E f : f = [r \in 0..n |-> IF r = 0 THEN <<>> ELSE After(f[r - 1], r)]
    <3>1. PICK g : IsRun(g, n, file, mapping, known)
      BY RunExists
    <3>2. g = [r \in 0..n |-> IF r = 0 THEN <<>> ELSE After(g[r - 1], r)]
      BY <3>1 DEF IsRun
    <3> HIDE DEF After, n, upTo
    <3>. QED
      BY <3>2
  <2> HIDE DEF After, n
  <2>. QED
    BY <2>1, Zenon
<1>3. Importable(file, mapping, known) = IF fileProblems(file, mapping) THEN <<>> ELSE upTo[n]
  BY DEF Importable
<1>4. \A b : \A r \in 1..n : FromList(b) => FromList(After(b, r))
  BY RowKeepsToTheList
<1> HIDE DEF upTo, After
<1> DEFINE bad == {k \in 0..n : ~FromList(upTo[k])}
<1>5. ASSUME bad # {} PROVE FALSE
  <2>1. bad \in SUBSET Nat
    OBVIOUS
  <2>2. PICK k \in bad : \A m \in bad : k <= m
    <3>. HIDE DEF bad
    <3>. QED
      BY <1>5, <2>1, HasLeast
  <2>3. k # 0
    BY <1>1, <1>2, <2>2
  <2>4. k \in 1..n /\ k - 1 \in 0..n /\ k - 1 \notin bad
    BY <2>2, <2>3
  <2>5. upTo[k] = After(upTo[k - 1], k)
    BY <1>2, <2>2, <2>3
  <2>. QED
    BY <1>4, <2>2, <2>4, <2>5
<1>6. FromList(upTo[n])
  BY <1>5
<1>. QED
  BY <1>1, <1>3, <1>6

-----------------------------------------------------------------------------
(* One request at a time: overlaps *)

Lone == \A g, h \in Slots : req[g] # Idle /\ req[h] # Idle => g = h

(* Request h is the only one, before and after its step.                   *)
Alone(h) ==
    /\ Only(h)
    /\ \A g \in Slots \ {h} : req[g] = Idle /\ req'[g] = Idle

LEMMA AloneIsLone == ASSUME NEW h \in Slots, Alone(h) PROVE Lone'
BY DEF Alone, Lone

LEMMA BusyIsAlone ==
    ASSUME Lone, DOMAIN req = Slots, NEW h \in Slots, req[h] # Idle, NEW r, Put(h, r)
    PROVE  Alone(h) /\ req'[h] = r
BY DEF Lone, Put, Only, Alone

LEMMA AcceptedIsAlone ==
    ASSUME Serial, DOMAIN req = Slots, NEW h \in Slots, NEW kind, Accept(h, kind), NEW r, Put(h, r)
    PROVE  Alone(h) /\ req'[h] = r
BY DEF Serial, Accept, Ready, Put, Only, Alone

(* What a request has found out about the beats is still true.             *)
Checked(r) ==
    /\ r.pc \in {"insert", "redraw"} =>
         /\ r.beat \in Beats /\ r.shape \in Shapes
         /\ r.ack \/ Overlaps(r.beat, r.shape, 25) = {}
    /\ r.pc = "verify" =>
         /\ r.beat \in Beats /\ beat[r.beat].shape \in Shapes
         /\ r.ack \/ Overlaps(r.beat, beat[r.beat].shape, 1) = {}
    /\ r.pc = "import" => FromList(r.beats)

Drawn == \A b \in Beats : beat[b].shape \in Territories

Decided ==
    Serial => /\ Lone /\ Drawn
              /\ \A h \in Slots : Checked(req[h])
              /\ OverlapsAreDecided

LEMMA OverlapsAgree ==
    /\ \A s, t \in Shapes : Overlap[s][t] \in Nat /\ Overlap[s][t] = Overlap[t][s]
    /\ \A m, known : FromList(Importable(Rows, m, known))
<1>1. \A s, t \in Shapes : Overlap[s][t] \in Nat /\ Overlap[s][t] = Overlap[t][s]
  BY OfficeAssumption
<1>2. ASSUME NEW m, NEW known PROVE FromList(Importable(Rows, m, known))
  <2>1. Len(Rows) \in Nat /\ \A r \in 1..Len(Rows) : OfList(Rows[r])
    BY OfficeAssumption, WordsAssumption DEF OfficeAssumption, WordsAssumption, Territories, OfList
  <2>. QED
    BY <2>1, ImportableFromList
<1>. QED
  BY <1>1, <1>2

(* Whoever looks from 1 m2 sees what is beyond 25 m2.                      *)
LEMMA LooksCloser ==
    ASSUME Drawn, NEW b, NEW s \in Shapes
    PROVE  Overlaps(b, s, 25) \subseteq Overlaps(b, s, 1)
<1> SUFFICES ASSUME NEW o \in Overlaps(b, s, 25) PROVE o \in Overlaps(b, s, 1)
  OBVIOUS
<1>1. o \in Beats \ {b} /\ Active(o) /\ beat[o].shape # Empty /\ Overlap[s][beat[o].shape] > 25
  BY DEF Overlaps
<1>2. beat[o].shape \in Shapes
  BY <1>1 DEF Drawn, Territories
<1>3. Overlap[s][beat[o].shape] \in Nat
  BY <1>2, OverlapsAgree
<1>4. Overlap[s][beat[o].shape] > 1
  BY <1>1, <1>3
<1>. QED
  BY <1>1, <1>4 DEF Overlaps

(* A territory that was checked goes in, and its overlaps are noted.       *)
LEMMA TerritoryIsDecided ==
    ASSUME Serial, Serial', Drawn, OverlapsAreDecided,
           NEW b \in Beats, NEW s \in Shapes, NEW ack,
           ack \/ Overlaps(b, s, 25) = {},
           \A o \in Beats \ {b} : beat'[o] = beat[o],
           beat'[b].shape = s, lapse'.returned = lapse.returned,
           \A p \in knowingly : b \notin p => p \in knowingly',
           ack => Pairs(b, Overlaps(b, s, 1)) \subseteq knowingly'
    PROVE  OverlapsAreDecided'
<1>1. ASSUME NEW o \in Beats \ {b}, Active(o)', beat'[o].shape # Empty,
             Overlap[s][beat'[o].shape] > 25
      PROVE  {b, o} \in knowingly'
  <2>1. o \in Overlaps(b, s, 25)
    BY <1>1 DEF Overlaps, Active
  <2>2. ack /\ o \in Overlaps(b, s, 1)
    BY <2>1, LooksCloser
  <2>. QED
    BY <2>2 DEF Pairs
<1>2. ASSUME NEW o \in Beats, beat'[o].shape # Empty PROVE beat'[o].shape \in Shapes
  BY <1>2 DEF Drawn, Territories
<1> SUFFICES ASSUME NEW a \in Beats, NEW c \in Beats, a # c, Active(a)', Active(c)',
                    {a, c} \cap lapse'.returned = {},
                    beat'[a].check = "VERIFIED", beat'[c].check = "VERIFIED",
                    beat'[a].shape # Empty, beat'[c].shape # Empty,
                    Overlap[beat'[a].shape][beat'[c].shape] > 25
             PROVE  {a, c} \in knowingly'
  BY DEF OverlapsAreDecided
<1>3. CASE a = b
  BY <1>1, <1>3
<1>4. CASE c = b
  <2>1. Overlap[s][beat'[a].shape] = Overlap[beat'[a].shape][s]
    BY <1>2, OverlapsAgree
  <2>2. {b, a} = {a, c}
    BY <1>4
  <2>. QED
    BY <1>1, <1>4, <2>1, <2>2
<1>5. CASE a # b /\ c # b
  <2>1. beat'[a] = beat[a] /\ beat'[c] = beat[c]
    BY <1>5
  <2>2. {a, c} \in knowingly
    BY <2>1 DEF OverlapsAreDecided, Active
  <2>. QED
    BY <1>5, <2>2
<1>. QED
  BY <1>3, <1>4, <1>5

(* A beat counts only if it counted before.                                *)
LEMMA NothingNewIsDecided ==
    ASSUME Serial, Serial', OverlapsAreDecided,
           knowingly' = knowingly, lapse.returned \subseteq lapse'.returned,
           \A b \in Beats : /\ Active(b)' /\ b \notin lapse'.returned
                            /\ beat'[b].check = "VERIFIED" /\ beat'[b].shape # Empty
                            => Active(b) /\ beat[b].check = "VERIFIED" /\ beat[b].shape = beat'[b].shape
    PROVE  OverlapsAreDecided'
BY DEF OverlapsAreDecided

(* The others rest, and have nothing to find out.                          *)
LEMMA RestingIsChecked ==
    ASSUME NEW h \in Slots, Alone(h), Checked(req[h])'
    PROVE  \A g \in Slots : Checked(req[g])'
BY DEF Alone, Checked, Idle

(* The beats stay, and with them what was decided of them.                 *)
LEMMA SameBeatsAreDecided ==
    ASSUME Shaped, Serial, Decided, UNCHANGED <<beat, knowingly, lapse, work>>,
           NEW h \in Slots, Alone(h), Checked(req'[h])
    PROVE  Decided'
<1>1. /\ Checked(req[h])' = Checked(req'[h])
      /\ Drawn' = Drawn /\ OverlapsAreDecided' = OverlapsAreDecided /\ Serial' = Serial
  BY DEF Checked, Overlaps, Drawn, OverlapsAreDecided, Active, Serial
<1>. QED
  BY <1>1, AloneIsLone, RestingIsChecked DEF Decided

LEMMA NewIsDecided ==
    ASSUME Shaped, Serial, Decided, NEW h \in Slots, NewRequest(h)
    PROVE  Decided'
<1>1. DOMAIN req = Slots /\ Lone /\ Drawn /\ OverlapsAreDecided
      /\ \A g \in Slots : Checked(req[g])
  BY DEF Shaped, Decided
<1>2. ASSUME NEW kind, NEW r, Accept(h, kind), Put(h, r), Checked(r),
             UNCHANGED <<beat, knowingly, lapse, work>>
      PROVE  Decided'
  BY <1>1, <1>2, AcceptedIsAlone, SameBeatsAreDecided
<1>3. ASSUME NEW b \in Beats, NEW s \in Shapes, NEW n \in Names, NEW ack \in BOOLEAN,
             CheckNew(h, b, s, n, ack)
      PROVE  Decided'
  <2>1. Checked([pc |-> "insert", beat |-> b, shape |-> s, name |-> n, ack |-> ack])
    BY <1>3 DEF CheckNew, Sound, Checked
  <2>. QED
    BY <1>2, <1>3, <2>1 DEF CheckNew, rows, history
<1>4. ASSUME NEW b \in Beats, NEW s \in Shapes, NEW v \in BOOLEAN, NEW ack \in BOOLEAN,
             CheckDrawing(h, b, s, v, ack)
      PROVE  Decided'
  <2>1. Checked([pc |-> "redraw", beat |-> b, shape |-> s, check |-> Redrawn(v), ack |-> ack])
    BY <1>4 DEF CheckDrawing, Sound, Checked
  <2>. QED
    BY <1>2, <1>4, <2>1 DEF CheckDrawing, rows, history
<1>5. ASSUME NEW b \in Beats, NEW ack \in BOOLEAN, CheckVerify(h, b, ack)
      PROVE  Decided'
  <2>1. beat[b].shape \in Shapes
    BY <1>1, <1>5 DEF CheckVerify, Drawn, Territories
  <2>2. CASE beat[b].check = "VERIFIED"
    <3>1. Checked([pc |-> "sweep", sweep |-> "all"])
      BY DEF Checked
    <3>. QED
      BY <1>2, <1>5, <2>2, <3>1 DEF CheckVerify, rows, history
  <2>3. CASE beat[b].check # "VERIFIED"
    <3>1. Checked([pc |-> "verify", beat |-> b, ack |-> ack])
      BY <1>5, <2>1, <2>3 DEF CheckVerify, Checked
    <3>. QED
      BY <1>2, <1>5, <2>3, <3>1 DEF CheckVerify, rows, history
  <2>. QED
    BY <2>2, <2>3
<1>6. ASSUME NEW sweep PROVE Checked([pc |-> "invalidate", sweep |-> sweep])'
  BY DEF Checked
<1>7. ASSUME NEW b \in Beats, NEW n \in Names, Rename(h, b, n)
      PROVE  Decided'
  <2>1. Alone(h) /\ req'[h] = [pc |-> "invalidate", sweep |-> SweptAfterChange]
    BY <1>1, <1>7, AcceptedIsAlone DEF Rename, Then
  <2>2. /\ \A c \in Beats : /\ beat'[c].status = beat[c].status /\ beat'[c].check = beat[c].check
                            /\ beat'[c].shape = beat[c].shape
        /\ UNCHANGED <<knowingly, lapse, work>>
    BY <1>7 DEF Rename, Shaped, BeatFields, history
  <2>3. OverlapsAreDecided' /\ Drawn' /\ Serial'
    BY <1>1, <2>2, NothingNewIsDecided DEF Drawn, Active, Serial
  <2>. QED
    BY <1>6, <2>1, <2>3, AloneIsLone, RestingIsChecked DEF Decided
<1>8. ASSUME NEW b \in Beats, Deactivate(h, b)
      PROVE  Decided'
  <2>1. Alone(h) /\ req'[h] = [pc |-> "invalidate", sweep |-> "none"]
    BY <1>1, <1>8, AcceptedIsAlone DEF Deactivate, Then
  <2>2. /\ \A c \in Beats : /\ Active(c)' => Active(c)
                            /\ beat'[c].check = beat[c].check /\ beat'[c].shape = beat[c].shape
        /\ lapse'.returned = lapse.returned /\ UNCHANGED <<knowingly, work>>
    BY <1>8 DEF Deactivate, Shaped, BeatFields, Active
  <2>3. OverlapsAreDecided' /\ Drawn' /\ Serial'
    BY <1>1, <2>2, NothingNewIsDecided DEF Drawn, Serial
  <2>. QED
    BY <1>6, <2>1, <2>3, AloneIsLone, RestingIsChecked DEF Decided
<1>9. ASSUME NEW b \in Beats, Activate(h, b)
      PROVE  Decided'
  <2>1. Alone(h) /\ req'[h] = [pc |-> "invalidate", sweep |-> SweptAfterChange]
    BY <1>1, <1>9, AcceptedIsAlone DEF Activate, Then
  <2>2. \A c \in Beats : /\ c # b => beat'[c] = beat[c]
                         /\ beat'[c].check = beat[c].check /\ beat'[c].shape = beat[c].shape
    BY <1>9 DEF Activate, Shaped, BeatFields
  <2>3. lapse.returned \subseteq lapse'.returned /\ (Active(b) \/ b \in lapse'.returned)
        /\ UNCHANGED <<knowingly, work>>
    BY <1>9 DEF Activate, Shaped
  <2>4. OverlapsAreDecided' /\ Drawn' /\ Serial'
    BY <1>1, <2>2, <2>3, NothingNewIsDecided DEF Drawn, Serial, Active
  <2>. QED
    BY <1>6, <2>1, <2>4, AloneIsLone, RestingIsChecked DEF Decided
<1>10. ASSUME StartCancel(h) \/ StartConfirm(h) \/ (\E m \in Mappings : StartMapping(h, m))
       PROVE  Decided'
  <2>1. Checked([pc |-> "cancel"]) /\ \A m \in Mappings : Checked([pc |-> "mapping", mapping |-> m])
    BY DEF Checked
  <2>2. Checked([pc |-> "import", beats |-> Wanted, known |-> DOMAIN Known])
    BY OverlapsAgree DEF Checked, Wanted
  <2>. QED
    BY <1>2, <1>10, <2>1, <2>2 DEF StartCancel, StartConfirm, StartMapping, ReadList, rows, history
<1>11. ASSUME NEW d \in Deliveries, Arrive(h, d) PROVE Decided'
  <2>1. Checked([pc |-> "next", todo |-> {d}])
    BY DEF Checked
  <2>. QED
    BY <1>2, <1>11, <2>1 DEF Arrive, rows, history
<1>12. CASE UploadList(h)
  BY <1>12 DEF UploadList, history, Decided, Lone, Drawn, Checked, Overlaps, Active,
     OverlapsAreDecided, Serial
<1>. QED
  BY <1>3, <1>4, <1>5, <1>7, <1>8, <1>9, <1>10, <1>11, <1>12 DEF NewRequest

LEMMA StepIsDecided ==
    ASSUME Shaped, Serial, Decided, NEW h \in Slots, Step(h)
    PROVE  Decided'
<1>1. DOMAIN req = Slots /\ Lone /\ Drawn /\ OverlapsAreDecided
      /\ \A g \in Slots : Checked(req[g])
  BY DEF Shaped, Decided
<1>2. ASSUME NEW r, req[h] # Idle, Put(h, r), r.pc \notin {"insert", "redraw", "verify", "import"},
             UNCHANGED <<beat, knowingly, work>>, lapse'.returned = lapse.returned
      PROVE  Decided'
  <2>1. Alone(h) /\ req'[h] = r
    BY <1>1, <1>2, BusyIsAlone
  <2>2. Checked(req[h])' /\ Drawn' /\ OverlapsAreDecided' /\ Serial'
    BY <1>1, <1>2, <2>1 DEF Checked, Drawn, OverlapsAreDecided, Active, Serial
  <2>. QED
    BY <2>1, <2>2, AloneIsLone, RestingIsChecked DEF Decided
<1>3. ASSUME NEW sweep, req[h] # Idle, Then(h, sweep), Drawn', OverlapsAreDecided', work' = work
      PROVE  Decided'
  <2>1. Alone(h) /\ req'[h] = [pc |-> "invalidate", sweep |-> sweep]
    BY <1>1, <1>3, BusyIsAlone DEF Then
  <2>2. Checked(req[h])' /\ Serial'
    BY <1>3, <2>1 DEF Checked, Serial
  <2>. QED
    BY <1>3, <2>1, <2>2, AloneIsLone, RestingIsChecked DEF Decided
<1>4. CASE InsertBeat(h)
  <2> DEFINE r == req[h]
  <2>1. /\ r # Idle /\ r.beat \in Beats /\ r.shape \in Shapes
        /\ r.ack \/ Overlaps(r.beat, r.shape, 25) = {}
    BY <1>1, <1>4 DEF InsertBeat, Idle, Checked
  <2>2. UNCHANGED <<lapse, work>>
    BY <1>4 DEF InsertBeat
  <2>3. CASE Exists(r.beat)
    BY <1>2, <1>4, <2>1, <2>2, <2>3 DEF InsertBeat, Idle
  <2>4. CASE ~Exists(r.beat)
    <3>1. /\ \A o \in Beats \ {r.beat} : beat'[o] = beat[o]
          /\ beat'[r.beat].shape = r.shape
      BY <1>4, <2>1, <2>4 DEF InsertBeat, Shaped
    <3>2. /\ \A p \in knowingly : r.beat \notin p => p \in knowingly'
          /\ r.ack => Pairs(r.beat, Overlaps(r.beat, r.shape, 1)) \subseteq knowingly'
      BY <1>4, <2>4 DEF InsertBeat, Seen
    <3>3. Serial'
      BY <2>2 DEF Serial
    <3>4. OverlapsAreDecided'
      <4>. HIDE DEF r
      <4>. QED
        BY <1>1, <2>1, <2>2, <3>1, <3>2, <3>3, TerritoryIsDecided
    <3>5. Drawn'
      BY <1>1, <2>1, <3>1 DEF Drawn, Territories
    <3>. QED
      BY <1>3, <1>4, <2>1, <2>2, <2>4, <3>4, <3>5 DEF InsertBeat
  <2>. QED
    BY <2>3, <2>4
<1>5. CASE StoreDrawing(h)
  <2> DEFINE r == req[h]
  <2>1. /\ r # Idle /\ r.beat \in Beats /\ r.shape \in Shapes
        /\ r.ack \/ Overlaps(r.beat, r.shape, 25) = {}
    BY <1>1, <1>5 DEF StoreDrawing, Idle, Checked
  <2>2. UNCHANGED <<lapse, work>>
    BY <1>5 DEF StoreDrawing
  <2>3. /\ \A o \in Beats \ {r.beat} : beat'[o] = beat[o]
        /\ beat'[r.beat].shape = r.shape
    BY <1>5, <2>1 DEF StoreDrawing, Shaped, BeatFields
  <2>4. /\ \A p \in knowingly : r.beat \notin p => p \in knowingly'
        /\ r.ack => Pairs(r.beat, Overlaps(r.beat, r.shape, 1)) \subseteq knowingly'
    BY <1>5 DEF StoreDrawing, Seen
  <2>5. Serial'
    BY <2>2 DEF Serial
  <2>6. OverlapsAreDecided'
    <3>. HIDE DEF r
    <3>. QED
      BY <1>1, <2>1, <2>2, <2>3, <2>4, <2>5, TerritoryIsDecided
  <2>7. Drawn'
    BY <1>1, <2>1, <2>3 DEF Drawn, Territories
  <2>. QED
    BY <1>3, <1>5, <2>1, <2>2, <2>6, <2>7 DEF StoreDrawing
<1>6. CASE StoreVerified(h)
  <2> DEFINE r == req[h]
             s == beat[r.beat].shape
  <2>1. /\ r # Idle /\ r.beat \in Beats /\ s \in Shapes
        /\ r.ack \/ Overlaps(r.beat, s, 1) = {}
    BY <1>1, <1>6 DEF StoreVerified, Idle, Checked
  <2>2. r.ack \/ Overlaps(r.beat, s, 25) = {}
    <3>. HIDE DEF r, s
    <3>. QED
      BY <1>1, <2>1, LooksCloser
  <2>3. UNCHANGED <<lapse, work>>
    BY <1>6 DEF StoreVerified
  <2>4. /\ \A o \in Beats \ {r.beat} : beat'[o] = beat[o]
        /\ beat'[r.beat].shape = s
    BY <1>6, <2>1 DEF StoreVerified, Shaped, BeatFields
  <2>5. /\ \A p \in knowingly : p \in knowingly'
        /\ r.ack => Pairs(r.beat, Overlaps(r.beat, s, 1)) \subseteq knowingly'
    BY <1>6 DEF StoreVerified
  <2>6. Serial'
    BY <2>3 DEF Serial
  <2>7. OverlapsAreDecided'
    <3>. HIDE DEF r, s
    <3>. QED
      BY <1>1, <2>1, <2>2, <2>3, <2>4, <2>5, <2>6, TerritoryIsDecided
  <2>8. Drawn'
    BY <1>1, <2>1, <2>4 DEF Drawn, Territories
  <2>9. Alone(h) /\ req'[h] = [pc |-> "sweep", sweep |-> "all"]
    BY <1>1, <1>6, <2>1, BusyIsAlone DEF StoreVerified
  <2>10. Checked(req[h])'
    BY <2>9 DEF Checked
  <2>. QED
    BY <2>6, <2>7, <2>8, <2>9, <2>10, AloneIsLone, RestingIsChecked DEF Decided
<1>7. CASE ImportBeats(h)
  <2> DEFINE r == req[h]
  <2>1. r # Idle /\ FromList(r.beats)
    BY <1>1, <1>7 DEF ImportBeats, Idle, Checked
  <2>2. UNCHANGED <<knowingly, lapse, work>>
    BY <1>7 DEF ImportBeats, history
  <2>3. CASE \E b \in DOMAIN r.beats \ r.known : Exists(b)
    BY <1>2, <1>7, <2>1, <2>2, <2>3 DEF ImportBeats, Idle
  <2>4. CASE ~\E b \in DOMAIN r.beats \ r.known : Exists(b)
    <3>1. \A b \in Beats : beat'[b] = IF b \in DOMAIN r.beats THEN Imported(b, r.beats[b]) ELSE beat[b]
      BY <1>7, <2>4 DEF ImportBeats
    <3>2. ASSUME NEW b \in Beats, b \in DOMAIN r.beats
          PROVE  /\ Imported(b, r.beats[b]).shape \in Territories
                 /\ \/ /\ Imported(b, r.beats[b]).status = beat[b].status
                       /\ Imported(b, r.beats[b]).check = beat[b].check
                       /\ Imported(b, r.beats[b]).shape = beat[b].shape
                    \/ Imported(b, r.beats[b]).check # "VERIFIED"
      <4>1. r.beats[b].territory \in Territories /\ beat[b].shape \in Territories
        BY <1>1, <2>1, <3>2 DEF FromList, Drawn
      <4>2. DOMAIN beat[b] = BeatFields
        BY DEF Shaped
      <4> HIDE DEF r
      <4>. QED
        BY <4>1, <4>2 DEF Imported, BeatFields
    <3>3. Drawn'
      BY <1>1, <3>1, <3>2 DEF Drawn
    <3>4. Serial'
      BY <2>2 DEF Serial
    <3>5. \A b \in Beats : beat'[b].check = "VERIFIED" =>
             /\ beat'[b].status = beat[b].status /\ beat'[b].check = beat[b].check
             /\ beat'[b].shape = beat[b].shape
      BY <3>1, <3>2
    <3>6. OverlapsAreDecided'
      BY <1>1, <2>2, <3>4, <3>5, NothingNewIsDecided DEF Active
    <3>. QED
      BY <1>3, <1>7, <2>1, <2>2, <2>4, <3>3, <3>6 DEF ImportBeats
  <2>. QED
    BY <2>3, <2>4
<1>8. CASE StoreMapping(h) \/ StoreCancelled(h)
  BY <1>2, <1>8 DEF StoreMapping, StoreCancelled, Idle, history
<1>9. CASE Invalidate(h)
  <2>1. req[h] # Idle
    BY <1>9 DEF Invalidate, Idle
  <2>2. \A g \in Slots \ {h} : req[g] = Idle
    BY <1>1, <2>1 DEF Lone
  <2>3. Alone(h) /\ req'[h].pc \in {"idle", "sweep"}
    BY <1>9, <2>2 DEF Invalidate, Alone, Only, Idle
  <2>4. UNCHANGED <<beat, knowingly, work>> /\ lapse'.returned = lapse.returned
    BY <1>9 DEF Invalidate, rows, Shaped
  <2>5. Checked(req[h])' /\ Drawn' /\ OverlapsAreDecided' /\ Serial'
    BY <1>1, <2>3, <2>4 DEF Checked, Drawn, OverlapsAreDecided, Active, Serial
  <2>. QED
    BY <2>3, <2>5, AloneIsLone, RestingIsChecked DEF Decided
<1>10. CASE StartSweep(h)
  <2>1. lapse'.returned = lapse.returned
    BY <1>10 DEF StartSweep, Shaped
  <2>. QED
    BY <1>2, <1>10, <2>1 DEF StartSweep, rows, Idle
<1>11. CASE NextParcel(h)
  <2>1. UNCHANGED <<beat, knowingly, lapse, work>> /\ req[h] # Idle
    BY <1>11 DEF NextParcel, rows, history, Idle
  <2>2. ASSUME NEW pc \in {"fill", "decide"}, NEW d, NEW entries, Put(h, Matching(h, pc, d, entries))
        PROVE  Decided'
    <3>1. Matching(h, pc, d, entries).pc \notin {"insert", "redraw", "verify", "import"}
      BY DEF Matching
    <3>. QED
      BY <1>2, <2>1, <2>2, <3>1
  <2>3. Put(h, Idle) => Decided'
    BY <1>2, <2>1 DEF Idle
  <2>. QED
    BY <1>11, <2>2, <2>3 DEF NextParcel
<1>12. CASE FillDirectory(h)
  <2>1. lapse'.returned = lapse.returned
    BY <1>12 DEF FillDirectory, Shaped
  <2>2. UNCHANGED <<beat, knowingly, work>> /\ req[h] # Idle /\ req[h].pc = "fill"
    BY <1>12 DEF FillDirectory, rows, Idle
  <2>3. PICK r : Put(h, r) /\ r = [req[h] EXCEPT !.pc = "decide"]
    BY <1>12 DEF FillDirectory
  <2>4. r.pc = "decide"
    BY <2>2, <2>3 DEF Shaped, RequestOK, MatchFields
  <2>. QED
    BY <1>2, <2>1, <2>2, <2>3, <2>4
<1>13. CASE Decide(h) \/ ApplyDecision(h) \/ Announce(h)
  <2>1. lapse'.returned = lapse.returned
    BY <1>13 DEF Decide, ApplyDecision, Announce, Shaped, history
  <2>2. UNCHANGED <<beat, knowingly, work>> /\ req[h] # Idle
    BY <1>13 DEF Decide, ApplyDecision, Announce, rows, history, Idle
  <2>3. \E r : Put(h, r) /\ r.pc \in {"apply", "announce", "next"}
    BY <1>13 DEF Decide, ApplyDecision, Announce
  <2>. QED
    BY <1>2, <2>1, <2>2, <2>3
<1>. QED
  BY <1>4, <1>5, <1>6, <1>7, <1>8, <1>9, <1>10, <1>11, <1>12, <1>13 DEF Step

LEMMA SerialStays == [Next]_vars => work' = work /\ Serial' = Serial
<1> SUFFICES ASSUME [Next]_vars PROVE work' = work
  BY SMTT(20) DEF Serial
<1>1. ASSUME NEW h \in Slots, Step(h) PROVE work' = work
  BY <1>1 DEF Step, InsertBeat, StoreDrawing, StoreVerified, StoreMapping, StoreCancelled, ImportBeats,
     Invalidate, StartSweep, NextParcel, FillDirectory, Decide, ApplyDecision, Announce
<1>2. ASSUME NEW h \in Slots, NewRequest(h) PROVE work' = work
  BY <1>2 DEF NewRequest, CheckNew, CheckDrawing, CheckVerify, Rename, Deactivate, Activate, UploadList,
     StartCancel, StartConfirm, StartMapping, ReadList, Arrive
<1>. QED
  BY <1>1, <1>2 DEF Next, Expire, Stop, SendBatch, vars

LEMMA DecidedNext == Shaped /\ Decided /\ [Next]_vars => Decided'
<1> SUFFICES ASSUME Shaped, Decided, [Next]_vars PROVE Decided'
  OBVIOUS
<1>1. Serial' => Serial
  BY SerialStays
<1>2. ASSUME Serial, NEW h \in Slots, Step(h) \/ NewRequest(h)
      PROVE  Decided'
  BY <1>2, StepIsDecided, NewIsDecided
<1>3. CASE Expire \/ (\E k \in Kinds, p \in Postmen : SendBatch(k, p)) \/ UNCHANGED vars
  <2>1. UNCHANGED <<beat, req, knowingly, work>> /\ lapse'.returned = lapse.returned
    BY <1>3 DEF Shaped, Expire, SendBatch, vars, rows, history
  <2>. QED
    BY <2>1 DEF Decided, Lone, Drawn, Checked, Overlaps, Active, OverlapsAreDecided, Serial
<1>4. CASE Stop
  <2>1. UNCHANGED <<beat, knowingly, work>> /\ lapse'.returned = lapse.returned
        /\ req' = [h \in Slots |-> Idle]
    BY <1>4 DEF Shaped, Stop, rows
  <2>2. Lone' /\ \A h \in Slots : Checked(req[h])'
    BY <2>1 DEF Lone, Checked, Idle
  <2>. QED
    BY <2>1, <2>2 DEF Decided, Drawn, Active, OverlapsAreDecided, Serial
<1>. QED
  BY <1>1, <1>2, <1>3, <1>4 DEF Next, Decided

LEMMA DecidedInit == ASSUME NEW w, InitIn(w) PROVE Decided
BY DEF InitIn, Decided, Lone, Drawn, Territories, Checked, Idle, NoBeatRow, OverlapsAreDecided, Active

-----------------------------------------------------------------------------
(* One request at a time: no delivery waits although its beat can be told *)

Tells(d) == Verdict(d, Listing, territoryPostmen(d))

(* Delivery d is still to be matched by the request.                       *)
Coming(r, d) ==
    \/ r.pc \in {"invalidate", "sweep"} /\ r.sweep # "none"
    \/ r.pc \in {"next", "fill", "decide", "apply", "announce"} /\ d \in r.todo
    \/ r.pc \in {"fill", "decide", "apply"} /\ d = r.d

(* What a request has read or decided is still so, and only a beat that    *)
(* was taken out of use is not followed by a sweep.                        *)
UpToDate(r) ==
    /\ r.pc = "invalidate" /\ r.sweep = "none" => lapse.sweep
    /\ r.pc = "fill" => ~r.late
    /\ r.pc \in {"fill", "decide"} => r.entries = Listing
    /\ r.pc = "apply" => r.verdict = Tells(r.d)

WaitsFor(d, r) == parcel[d] = Waiting => Unknown(d) \/ Coming(r, d)

Matched ==
    Serial => /\ Lone /\ ~lapse.cache
              /\ \A h \in Slots : UpToDate(req[h])
              /\ ~lapse.sweep => \A d \in Deliveries :
                   parcel[d] = Waiting =>
                     Unknown(d) \/ \E h \in Slots : Coming(req[h], d)

LEMMA MatchedInit == ASSUME NEW w, InitIn(w) PROVE Matched
<1>1. New # Waiting
  BY DEF New, Waiting
<1>. QED
  BY <1>1 DEF InitIn, Matched, Lone, UpToDate, Idle

(* The neighbours are looked at only for a delivery whose own have not     *)
(* changed hands since.                                                    *)
LEMMA SameNeighbours ==
    ASSUME NEW d, \A e \in DOMAIN Distance[d] : CarrierOf(parcel'[e]) = CarrierOf(parcel[e])
    PROVE  Nearest(d)' = Nearest(d)
<1>1. \A p : HeldBy(p, d)' = HeldBy(p, d)
  BY DEF HeldBy
<1>2. \A p : nearestActiveDeliveryDistanceM(p, d)' = nearestActiveDeliveryDistanceM(p, d)
  BY <1>1 DEF nearestActiveDeliveryDistanceM
<1>. QED
  BY <1>1, <1>2 DEF Nearest

LEMMA SameBeatsTellTheSame ==
    ASSUME beat' = beat
    PROVE  /\ Listing' = Listing
           /\ \A d : findContainingBeats(d)' = findContainingBeats(d)
           /\ \A d, entries, n : Verdict(d, entries, n)' = Verdict(d, entries, n)
BY DEF Listing, Verdict, findContainingBeats, Active

StaysMoved(d) == d \in lapse.moved => d \in lapse'.moved

LEMMA SameNeighboursTellTheSame ==
    ASSUME beat' = beat, NEW d, Nearest(d)' = Nearest(d)
    PROVE  /\ Tells(d)' = Tells(d)
           /\ StaysMoved(d) /\ Unknown(d) => Unknown(d)'
<1>1. /\ DirectoryOf(beat)' = DirectoryOf(beat) /\ Listing' = Listing
      /\ NotAsked' = NotAsked /\ findContainingBeats(d)' = findContainingBeats(d)
  BY SameBeatsTellTheSame DEF NotAsked, Listing
<1>2. territoryPostmen(d)' = territoryPostmen(d)
  BY <1>1 DEF territoryPostmen
<1>3. \A entries, n : Verdict(d, entries, n)' = Verdict(d, entries, n)
  BY SameBeatsTellTheSame
<1>. QED
  BY <1>1, <1>2, <1>3 DEF Tells, Unknown, StaysMoved

LEMMA SameParcelsTellTheSame ==
    ASSUME beat' = beat, parcel' = parcel
    PROVE  \A d : Tells(d)' = Tells(d) /\ (StaysMoved(d) /\ Unknown(d) => Unknown(d)')
BY SameNeighbours, SameNeighboursTellTheSame

LEMMA VerdictIsOneOfTwo == \A d, entries, n : Verdict(d, entries, n).action \in {"ASSIGN", "EXCEPTION"}
<1>1. \A b, method, reason : /\ Assign(b, method).action = "ASSIGN"
                             /\ Exception(reason).action = "EXCEPTION"
  BY DEF Assign, Exception
<1>2. \A t, n : TieBreak(t, n).action \in {"ASSIGN", "EXCEPTION"}
  BY <1>1 DEF TieBreak
<1>3. \A c, p, t, n : DecideByPlace(c, p, t, n).action \in {"ASSIGN", "EXCEPTION"}
  BY <1>1, <1>2 DEF DecideByPlace
<1>4. ASSUME NEW c, NEW p, NEW f, NEW n
      PROVE  decideAssignment(c, p, f, n).action \in {"ASSIGN", "EXCEPTION"}
  BY <1>1, <1>3 DEF decideAssignment
<1>. QED
  BY <1>4 DEF Verdict

(* The postmen make a difference only where they are asked, and only the   *)
(* difference between a beat and none.                                     *)
LEMMA PostmenDecide ==
    ASSUME NEW d, NEW entries
    PROVE  /\ Verdict(d, entries, territoryPostmen(d)) = Verdict(d, entries, Nearest(d))
           /\ Verdict(d, entries, NotAsked).action = "ASSIGN" =>
                 \A n : Verdict(d, entries, n) = Verdict(d, entries, NotAsked)
<1> DEFINE found == findContainingBeats(d)
           place == Place[d].precision
           Asked == Cardinality(found) > 1 /\ isStrong(place)
           candidates == CandidatesOf(d, entries)
<1>1. IsFiniteSet(found)
  BY WordsAssumption, FS_Subset DEF findContainingBeats
<1>2. Cardinality(found) \in Nat /\ (Cardinality(found) = 0 <=> found = {})
  BY <1>1, FS_CardinalityType, FS_EmptySet
<1>3. TieBreak(found, NotAsked) = Exception("MULTIPLE_BEAT_MATCH")
  <2>1. {b \in found \cap DOMAIN NotAsked : NotAsked[b] <= NearbyM} = {}
    BY DEF NotAsked
  <2>. QED
    BY <2>1, FS_EmptySet DEF TieBreak
<1>4. isStrong(place) => isUsable(place)
  BY DEF isStrong, isUsable
<1> HIDE DEF found, place, candidates
<1>5. ASSUME ~Asked, NEW n, NEW m
      PROVE  DecideByPlace(candidates, place, found, n) = DecideByPlace(candidates, place, found, m)
  BY <1>2, <1>5 DEF DecideByPlace
<1>6. ASSUME NEW t, NEW n, NEW m, DecideByPlace(candidates, place, t, n) = DecideByPlace(candidates, place, t, m)
      PROVE  t = (IF isUsable(place) THEN found ELSE {}) =>
               decideAssignment(candidates, place, found, n) = decideAssignment(candidates, place, found, m)
  BY <1>6 DEF decideAssignment
<1>7. ASSUME NEW n, NEW m, ~isUsable(place)
      PROVE  DecideByPlace(candidates, place, {}, n) = DecideByPlace(candidates, place, {}, m)
  BY <1>4, <1>7 DEF DecideByPlace
<1>8. ASSUME ~Asked, NEW n, NEW m
      PROVE  decideAssignment(candidates, place, found, n) = decideAssignment(candidates, place, found, m)
  BY <1>5, <1>6, <1>7, <1>8
<1>9. ASSUME Asked, DecideByPlace(candidates, place, found, NotAsked).action = "ASSIGN" PROVE FALSE
  <2>1. DecideByPlace(candidates, place, found, NotAsked) = Exception("MULTIPLE_BEAT_MATCH")
    BY <1>2, <1>3, <1>9 DEF DecideByPlace
  <2>. QED
    BY <1>9, <2>1 DEF Exception
<1>10. ASSUME Asked, NEW n, decideAssignment(candidates, place, found, NotAsked).action = "ASSIGN"
       PROVE  decideAssignment(candidates, place, found, n) = decideAssignment(candidates, place, found, NotAsked)
  <2>1. isUsable(place) /\ DecideByPlace(candidates, place, found, NotAsked).action # "ASSIGN"
    BY <1>4, <1>9, <1>10
  <2>. QED
    BY <1>10, <2>1 DEF decideAssignment
<1>11. ASSUME NEW n
       PROVE  Verdict(d, entries, n) = decideAssignment(candidates, place, found, n)
  BY DEF Verdict, candidates, place, found
<1>12. territoryPostmen(d) = IF Asked THEN Nearest(d) ELSE NotAsked
  BY DEF territoryPostmen, found, place
<1>13. CASE Asked
  BY <1>10, <1>11, <1>12, <1>13
<1>14. CASE ~Asked
  BY <1>8, <1>11, <1>12, <1>14
<1>. QED
  BY <1>13, <1>14

(* What the neighbours do not tell, nothing tells.                         *)
LEMMA NothingTells ==
    ASSUME NEW d, Tells(d).action = "EXCEPTION" PROVE Unknown(d)
<1>1. /\ Verdict(d, Listing, Nearest(d)).action = "EXCEPTION"
      /\ Verdict(d, Listing, NotAsked).action # "ASSIGN"
  BY PostmenDecide, VerdictIsOneOfTwo DEF Tells
<1>. QED
  BY <1>1 DEF Unknown, Listing

(* Of a request that is alone.                                             *)
LEMMA AloneWaits ==
    ASSUME Matched, Serial, NEW h \in Slots, Alone(h), ~lapse.sweep
    PROVE  \A d \in Deliveries : WaitsFor(d, req[h])
<1>1. \A d : ~Coming(Idle, d)
  BY DEF Coming, Idle
<1>. QED
  BY <1>1 DEF Matched, Alone, WaitsFor

LEMMA AloneIsMatched ==
    ASSUME NEW h \in Slots, Alone(h), ~lapse'.cache, UpToDate(req[h])',
           ~lapse'.sweep => \A d \in Deliveries : WaitsFor(d, req[h])'
    PROVE  Matched'
<1>1. \A g \in Slots \ {h} : UpToDate(req[g])'
  BY DEF Alone, UpToDate, Idle
<1>. QED
  BY <1>1, AloneIsLone DEF Matched, WaitsFor

(* Nothing changes for the deliveries that wait.                           *)
LEMMA SameWait ==
    ASSUME Matched, Serial, NEW h \in Slots, Alone(h), beat' = beat, parcel' = parcel,
           lapse'.cache = lapse.cache \/ ~lapse'.cache, lapse'.sweep = lapse.sweep, UpToDate(req[h])',
           \A d \in Deliveries : Coming(req[h], d) => Coming(req'[h], d),
           \A d \in Deliveries : StaysMoved(d) \/ Coming(req'[h], d)
    PROVE  Matched'
<1>1. ASSUME ~lapse'.sweep, NEW d \in Deliveries PROVE WaitsFor(d, req[h])'
  <2>1. WaitsFor(d, req[h]) /\ Coming(req[h], d)' = Coming(req'[h], d)
    BY <1>1, AloneWaits DEF Coming
  <2>2. StaysMoved(d) /\ Unknown(d) => Unknown(d)'
    BY SameParcelsTellTheSame
  <2>. QED
    BY <2>1, <2>2 DEF WaitsFor
<1>2. ~lapse'.cache
  BY DEF Matched
<1>. QED
  BY <1>1, <1>2, AloneIsMatched

(* A sweep is to come.                                                     *)
LEMMA SweepComes ==
    ASSUME Matched, Serial, NEW h \in Slots, Alone(h), NEW pc \in {"invalidate", "sweep"}, NEW sweep,
           req'[h] = [pc |-> pc, sweep |-> sweep], lapse'.cache = lapse.cache \/ ~lapse'.cache,
           sweep = "none" => lapse'.sweep
    PROVE  Matched'
<1>1. UpToDate(req[h])' /\ ~lapse'.cache
  BY DEF UpToDate, Matched
<1>2. ~lapse'.sweep => \A d \in Deliveries : WaitsFor(d, req[h])'
  BY DEF WaitsFor, Coming
<1>. QED
  BY <1>1, <1>2, AloneIsMatched

LEMMA NewIsMatched ==
    ASSUME Shaped, Serial, Matched, NEW h \in Slots, NewRequest(h)
    PROVE  Matched'
<1>1. DOMAIN req = Slots
  BY DEF Shaped
<1>2. \A d : ~Coming(Idle, d)
  BY DEF Coming, Idle
<1>3. ASSUME NEW kind, NEW r, Accept(h, kind), Put(h, r), UNCHANGED <<beat, parcel, lapse>>,
             r.pc \in {"insert", "redraw", "verify", "cancel", "mapping", "import", "next"}
      PROVE  Matched'
  <2>1. Alone(h) /\ req'[h] = r /\ req[h] = Idle
    BY <1>1, <1>3, AcceptedIsAlone, AcceptDoes
  <2>2. UpToDate(req[h])'
    BY <1>3, <2>1 DEF UpToDate
  <2>. QED
    BY <1>2, <1>3, <2>1, <2>2, SameWait DEF StaysMoved
<1>4. ASSUME NEW kind, NEW sweep, Accept(h, kind), Then(h, sweep), lapse'.cache = lapse.cache,
             sweep = "none" => lapse'.sweep
      PROVE  Matched'
  <2>1. Alone(h) /\ req'[h] = [pc |-> "invalidate", sweep |-> sweep]
    BY <1>1, <1>4, AcceptedIsAlone DEF Then
  <2>. QED
    BY <1>4, <2>1, SweepComes
<1>5. CASE \E b \in Beats, s \in Shapes, n \in Names, ack \in BOOLEAN :
             CheckNew(h, b, s, n, ack)
  BY <1>3, <1>5 DEF CheckNew, rows, history
<1>6. CASE \E b \in Beats, s \in Shapes, v, ack \in BOOLEAN : CheckDrawing(h, b, s, v, ack)
  BY <1>3, <1>6 DEF CheckDrawing, rows, history
<1>7. ASSUME NEW b \in Beats, NEW ack \in BOOLEAN, CheckVerify(h, b, ack)
      PROVE  Matched'
  <2>1. UNCHANGED <<beat, parcel, lapse>>
    BY <1>7 DEF CheckVerify, rows, history
  <2>2. CASE beat[b].check = "VERIFIED"
    <3>1. Accept(h, "verify") /\ Put(h, [pc |-> "sweep", sweep |-> "all"])
      BY <1>7, <2>2 DEF CheckVerify
    <3>2. Alone(h) /\ req'[h] = [pc |-> "sweep", sweep |-> "all"]
      BY <1>1, <3>1, AcceptedIsAlone
    <3>. QED
      BY <2>1, <3>2, SweepComes
  <2>3. CASE beat[b].check # "VERIFIED"
    BY <1>3, <1>7, <2>1, <2>3 DEF CheckVerify
  <2>. QED
    BY <2>2, <2>3
<1>8. CASE \E b \in Beats, n \in Names : Rename(h, b, n)
  BY <1>4, <1>8 DEF Rename, history, SweptAfterChange
<1>9. CASE \E b \in Beats : Deactivate(h, b)
  BY <1>4, <1>9 DEF Deactivate, Shaped
<1>10. ASSUME NEW b \in Beats, Activate(h, b) PROVE Matched'
  <2>1. lapse'.cache = lapse.cache
    BY <1>10 DEF Activate, Shaped
  <2>. QED
    BY <1>4, <1>10, <2>1 DEF Activate, SweptAfterChange
<1>11. CASE StartCancel(h) \/ StartConfirm(h) \/ (\E m \in Mappings : StartMapping(h, m))
  BY <1>3, <1>11 DEF StartCancel, StartConfirm, StartMapping, ReadList, rows, history
<1>12. CASE \E d \in Deliveries : Arrive(h, d)
  BY <1>3, <1>12 DEF Arrive, rows, history
<1>13. CASE UploadList(h)
  <2>1. UNCHANGED <<beat, parcel, lapse, req, work>>
    BY <1>13 DEF UploadList, history
  <2>2. \A d : Tells(d)' = Tells(d) /\ (Unknown(d) => Unknown(d)')
    BY <2>1, SameParcelsTellTheSame DEF StaysMoved
  <2>3. Listing' = Listing
    BY <2>1 DEF Listing
  <2>. QED
    BY <2>1, <2>2, <2>3 DEF Matched, Lone, UpToDate, Coming, Serial
<1>. QED
  BY <1>5, <1>6, <1>7, <1>8, <1>9, <1>10, <1>11, <1>12, <1>13 DEF NewRequest

LEMMA StepIsMatched ==
    ASSUME Shaped, Serial, Current, Matched, NEW h \in Slots, Step(h)
    PROVE  Matched'
<1>1. DOMAIN req = Slots /\ Lone /\ UpToDate(req[h]) /\ ~lapse.cache
  BY SMTT(20) DEF Shaped, Matched
<1>2. req[h] # Idle
  BY DEF Step, InsertBeat, StoreDrawing, StoreVerified, StoreMapping, StoreCancelled, ImportBeats,
     Invalidate, StartSweep, NextParcel, FillDirectory, Decide, ApplyDecision, Announce, Idle
<1>3. ASSUME NEW r, Put(h, r), UNCHANGED <<beat, parcel, lapse>>,
             UpToDate(r), \A d \in Deliveries : Coming(req[h], d) => Coming(r, d)
      PROVE  Matched'
  <2>1. Alone(h) /\ req'[h] = r
    BY <1>1, <1>2, <1>3, BusyIsAlone
  <2>2. UpToDate(req[h])'
    <3>1. Listing' = Listing /\ \A d : Tells(d)' = Tells(d)
      BY <1>3, SameParcelsTellTheSame DEF Listing
    <3>. QED
      BY <1>3, <2>1, <3>1 DEF UpToDate
  <2>. QED
    BY <1>3, <2>1, <2>2, SameWait DEF StaysMoved
<1>4. ASSUME NEW pc \in {"invalidate", "sweep"}, NEW sweep, Put(h, [pc |-> pc, sweep |-> sweep]),
             lapse'.cache = lapse.cache \/ ~lapse'.cache, sweep # "none"
      PROVE  Matched'
  <2>1. Alone(h) /\ req'[h] = [pc |-> pc, sweep |-> sweep]
    BY <1>1, <1>2, <1>4, BusyIsAlone
  <2>. QED
    BY <1>4, <2>1, SweepComes
<1>5. /\ UpToDate(Idle)
      /\ req[h].pc \in {"insert", "mapping", "cancel", "import"} => \A d : ~Coming(req[h], d)
  BY DEF UpToDate, Coming, Idle
<1>6. CASE InsertBeat(h)
  <2>1. Exists(req[h].beat) => Matched'
    BY <1>3, <1>5, <1>6 DEF InsertBeat
  <2>2. ~Exists(req[h].beat) => Matched'
    BY <1>4, <1>6 DEF InsertBeat, Then, SweptAfterChange
  <2>. QED
    BY <2>1, <2>2
<1>7. CASE StoreDrawing(h)
  BY <1>4, <1>7 DEF StoreDrawing, Then, SweptAfterChange
<1>8. CASE StoreVerified(h)
  BY <1>4, <1>8 DEF StoreVerified
<1>9. CASE StoreMapping(h) \/ StoreCancelled(h)
  BY <1>3, <1>5, <1>9 DEF StoreMapping, StoreCancelled, history
<1>10. CASE ImportBeats(h)
  <2>1. CASE \E b \in DOMAIN req[h].beats \ req[h].known : Exists(b)
    BY <1>3, <1>5, <1>10, <2>1 DEF ImportBeats, history
  <2>2. CASE ~\E b \in DOMAIN req[h].beats \ req[h].known : Exists(b)
    BY <1>4, <1>10, <2>2 DEF ImportBeats, Then, history
  <2>. QED
    BY <2>1, <2>2
<1>11. CASE Invalidate(h)
  <2>1. \A g \in Slots \ {h} : req[g] = Idle
    BY <1>1, <1>2 DEF Lone
  <2>2. Alone(h)
    BY <1>11, <2>1 DEF Invalidate, Alone, Only, Idle
  <2>3. ~lapse'.cache /\ lapse'.sweep = lapse.sweep
    BY <1>11 DEF Invalidate, Shaped
  <2>4. CASE req[h].sweep = "none"
    <3>1. req'[h] = Idle /\ lapse.sweep
      BY <1>1, <1>11, <2>4 DEF Invalidate, UpToDate
    <3>2. UpToDate(req[h])'
      BY <3>1 DEF UpToDate, Idle
    <3>. QED
      BY <2>2, <2>3, <3>1, <3>2, AloneIsMatched
  <2>5. CASE req[h].sweep # "none"
    <3>1. req'[h] = [pc |-> "sweep", sweep |-> req[h].sweep]
      BY <1>11, <2>5 DEF Invalidate
    <3>. QED
      BY <2>2, <2>3, <2>5, <3>1, SweepComes
  <2>. QED
    BY <2>4, <2>5
<1>12. CASE StartSweep(h)
  <2>1. Alone(h) /\ req'[h] = [pc |-> "next", todo |-> Candidates(req[h].sweep)]
    BY <1>1, <1>2, <1>12, BusyIsAlone DEF StartSweep
  <2>2. parcel' = parcel /\ ~lapse'.cache
    BY <1>1, <1>12 DEF StartSweep, rows, Shaped
  <2>3. \A d \in Deliveries : parcel[d] = Waiting => d \in Candidates(req[h].sweep)
    BY DEF Candidates
  <2>4. UpToDate(req[h])'
    BY <2>1 DEF UpToDate
  <2>5. \A d \in Deliveries : WaitsFor(d, req[h])'
    BY <2>1, <2>2, <2>3 DEF WaitsFor, Coming
  <2>. QED
    BY <2>1, <2>2, <2>4, <2>5, AloneIsMatched
<1>13. CASE NextParcel(h)
  <2>1. req[h].pc = "next" /\ UNCHANGED <<beat, parcel, lapse>>
    BY <1>13 DEF NextParcel, rows, history
  <2>2. CASE req[h].todo = {}
    <3>1. \A d : ~Coming(req[h], d)
      BY <2>1, <2>2 DEF Coming
    <3>. QED
      BY <1>3, <1>5, <1>13, <2>1, <2>2, <3>1 DEF NextParcel
  <2>3. ASSUME NEW pc \in {"fill", "decide"}, NEW d \in req[h].todo, NEW entries,
               entries = Listing, Put(h, Matching(h, pc, d, entries))
        PROVE  Matched'
    <3>1. UpToDate(Matching(h, pc, d, entries))
      BY <2>3 DEF UpToDate, Matching
    <3>2. \A c \in Deliveries : Coming(req[h], c) => Coming(Matching(h, pc, d, entries), c)
      BY <2>1 DEF Coming, Matching
    <3>. QED
      BY <1>3, <2>1, <2>3, <3>1, <3>2
  <2>4. \A entries \in directory : entries = Listing
    <3>1. ~Invalidating
      BY <1>1, <1>2, <2>1 DEF Invalidating, Lone, Idle
    <3>. QED
      BY <1>1, <3>1 DEF Current, Fresh
  <2>. QED
    BY <1>13, <2>2, <2>3, <2>4 DEF NextParcel, Listing
<1>14. CASE FillDirectory(h)
  <2>1. DOMAIN req[h] = MatchFields /\ req[h].pc = "fill" /\ UNCHANGED <<beat, parcel>>
    BY <1>14 DEF FillDirectory, Shaped, RequestOK, rows
  <2>2. PICK r : Put(h, r) /\ r = [req[h] EXCEPT !.pc = "decide"]
    BY <1>14 DEF FillDirectory
  <2>3. /\ r.pc = "decide" /\ r.todo = req[h].todo /\ r.d = req[h].d
        /\ r.entries = req[h].entries
    BY <2>1, <2>2 DEF MatchFields
  <2>4. Alone(h) /\ req'[h] = r
    BY <1>1, <1>2, <2>2, BusyIsAlone
  <2>5. ~lapse'.cache /\ lapse'.sweep = lapse.sweep /\ lapse'.moved = lapse.moved
    <3>1. lapse'.cache = req[h].late /\ lapse'.sweep = lapse.sweep /\ lapse'.moved = lapse.moved
      BY <1>14 DEF FillDirectory, Shaped
    <3>2. ~req[h].late
      BY <1>1, <2>1 DEF UpToDate
    <3>. QED
      BY <3>1, <3>2
  <2>6. UpToDate(req[h])'
    <3>1. Listing' = Listing
      BY <2>1 DEF Listing
    <3>. QED
      BY <1>1, <2>1, <2>3, <2>4, <3>1 DEF UpToDate
  <2>7. \A d \in Deliveries : Coming(req[h], d) => Coming(req'[h], d)
    BY <2>1, <2>3, <2>4 DEF Coming
  <2>. QED
    BY <2>1, <2>4, <2>5, <2>6, <2>7, SameWait DEF StaysMoved
<1>15. CASE Decide(h)
  <2> DEFINE r == [pc |-> "apply", todo |-> req[h].todo, d |-> req[h].d, from |-> req[h].from,
                   verdict |-> Verdict(req[h].d, req[h].entries, territoryPostmen(req[h].d))]
  <2>1. /\ req[h].pc = "decide" /\ Put(h, r) /\ UNCHANGED <<beat, parcel>>
        /\ lapse' = [lapse EXCEPT !.moved = @ \ {req[h].d}]
    BY <1>15 DEF Decide, rows
  <2>2. /\ r.pc = "apply" /\ r.d = req[h].d /\ r.todo = req[h].todo /\ r.verdict = Tells(req[h].d)
    BY <1>1, <2>1 DEF UpToDate, Tells
  <2> HIDE DEF r
  <2>3. Alone(h) /\ req'[h] = r
    BY <1>1, <1>2, <2>1, BusyIsAlone
  <2>4. \A d \in Deliveries : Coming(req[h], d) => Coming(req'[h], d)
    BY <2>1, <2>2, <2>3 DEF Coming
  <2>5. UpToDate(req[h])'
    <3>1. \A d : Tells(d)' = Tells(d)
      BY <2>1, SameParcelsTellTheSame
    <3>. QED
      BY <2>2, <2>3, <3>1 DEF UpToDate
  <2>6. /\ lapse'.cache = lapse.cache /\ lapse'.sweep = lapse.sweep
        /\ \A d \in Deliveries : StaysMoved(d) \/ Coming(req'[h], d)
    BY <2>1, <2>2, <2>3 DEF Shaped, StaysMoved, Coming
  <2>. QED
    BY <2>1, <2>3, <2>4, <2>5, <2>6, SameWait
<1>16. CASE ApplyDecision(h)
  <2> DEFINE to == Placed(req[h].verdict)
             at == req[h].d
  <2>1. /\ req[h].pc = "apply" /\ beat' = beat
        /\ parcel' = [parcel EXCEPT ![at] = to]
        /\ lapse' = IF CarrierOf(to) = CarrierOf(parcel[at]) THEN lapse
                    ELSE [lapse EXCEPT !.moved = @ \cup NeighboursOf(at)]
        /\ Put(h, [pc |-> "announce", todo |-> req[h].todo, d |-> at, from |-> req[h].from, to |-> to])
    BY <1>16 DEF ApplyDecision
  <2>2. to = Waiting => Unknown(at)
    <3>1. req[h].verdict = Tells(at)
      BY <1>1, <2>1 DEF UpToDate
    <3>2. PlacedIn(req[h].verdict.beat) # Waiting
      BY DEF PlacedIn, Waiting
    <3>3. to = Waiting => Tells(at).action = "EXCEPTION"
      BY <3>1, <3>2, VerdictIsOneOfTwo DEF Placed, Tells
    <3>. QED
      BY <3>3, NothingTells
  <2> HIDE DEF to, at
  <2>3. /\ Alone(h) /\ req'[h].pc = "announce" /\ req'[h].todo = req[h].todo
    BY <1>1, <1>2, <2>1, BusyIsAlone
  <2>4. UpToDate(req[h])' /\ ~lapse'.cache
    BY <1>1, <2>1, <2>3 DEF UpToDate, Shaped
  <2>5. /\ lapse'.sweep = lapse.sweep
        /\ \A d : StaysMoved(d)
        /\ \A d \in NeighboursOf(at) : d \in lapse'.moved \/ CarrierOf(to) = CarrierOf(parcel[at])
    BY <2>1 DEF Shaped, StaysMoved
  <2>6. ASSUME NEW d \in Deliveries, Unknown(d) PROVE Unknown(d)'
    <3>1. CASE d \in lapse'.moved
      <4>1. DirectoryOf(beat)' = DirectoryOf(beat) /\ NotAsked' = NotAsked
        BY <2>1, SameBeatsTellTheSame DEF Listing, NotAsked
      <4>. QED
        BY <2>1, <2>6, <3>1, <4>1, SameBeatsTellTheSame DEF Unknown
    <3>2. CASE d \notin lapse'.moved
      <4>1. ASSUME NEW e \in DOMAIN Distance[d] PROVE CarrierOf(parcel'[e]) = CarrierOf(parcel[e])
        <5>1. e = at => CarrierOf(to) = CarrierOf(parcel[at])
          BY <2>5, <3>2 DEF NeighboursOf
        <5>2. e \in Deliveries
          BY OfficeAssumption
        <5>. QED
          BY <2>1, <5>1, <5>2 DEF Shaped
      <4>. QED
        BY <2>1, <2>5, <2>6, <4>1, SameNeighbours, SameNeighboursTellTheSame
    <3>. QED
      BY <3>1, <3>2
  <2>7. ASSUME ~lapse'.sweep, NEW d \in Deliveries PROVE WaitsFor(d, req[h])'
    <3>1. WaitsFor(d, req[h])
      BY <2>3, <2>5, <2>7, AloneWaits
    <3>2. d = at => parcel'[d] = to
      BY <2>1, <2>7 DEF Shaped
    <3>3. d # at => parcel'[d] = parcel[d] /\ (Coming(req[h], d) => Coming(req'[h], d))
      BY <2>1, <2>3, <2>7 DEF Shaped, Coming, at
    <3>. QED
      BY <2>2, <2>6, <3>1, <3>2, <3>3 DEF WaitsFor
  <2>. QED
    BY <2>3, <2>4, <2>7, AloneIsMatched
<1>17. CASE Announce(h)
  <2>1. req[h].pc = "announce" /\ Put(h, [pc |-> "next", todo |-> req[h].todo]) /\ UNCHANGED <<beat, parcel, lapse>>
    BY <1>17 DEF Announce, rows, history
  <2>2. /\ UpToDate([pc |-> "next", todo |-> req[h].todo])
        /\ \A d \in Deliveries : Coming(req[h], d) => Coming([pc |-> "next", todo |-> req[h].todo], d)
    BY <2>1 DEF UpToDate, Coming
  <2>. QED
    BY <1>3, <2>1, <2>2
<1>. QED
  BY <1>6, <1>7, <1>8, <1>9, <1>10, <1>11, <1>12, <1>13, <1>14, <1>15, <1>16, <1>17 DEF Step

LEMMA MatchedNext == Shaped /\ Current /\ Matched /\ [Next]_vars => Matched'
<1> SUFFICES ASSUME Shaped, Current, Matched, [Next]_vars PROVE Matched'
  OBVIOUS
<1>1. Serial' = Serial
  BY SerialStays
<1>2. ASSUME Serial, NEW h \in Slots, Step(h) \/ NewRequest(h)
      PROVE  Matched'
  BY <1>2, StepIsMatched, NewIsMatched
<1>3. CASE Expire \/ (\E k \in Kinds, p \in Postmen : SendBatch(k, p)) \/ UNCHANGED vars
  <2>1. /\ UNCHANGED <<beat, parcel, req>> /\ lapse'.sweep = lapse.sweep
        /\ lapse'.cache = lapse.cache \/ ~lapse'.cache
        /\ lapse'.moved = lapse.moved
    BY <1>3 DEF Shaped, Expire, SendBatch, vars, rows, history
  <2>2. Listing' = Listing /\ \A d : Tells(d)' = Tells(d) /\ (Unknown(d) => Unknown(d)')
    BY <2>1, SameParcelsTellTheSame DEF Listing, StaysMoved
  <2>. QED
    BY <1>1, <2>1, <2>2 DEF Matched, Lone, UpToDate, Coming
<1>4. CASE Stop
  <2>1. lapse'.sweep /\ ~lapse'.cache /\ req' = [h \in Slots |-> Idle]
    BY <1>4 DEF Shaped, Stop
  <2>. QED
    BY <2>1 DEF Matched, Lone, UpToDate, Idle
<1>. QED
  BY <1>1, <1>2, <1>3, <1>4 DEF Next, Matched

LEMMA MatchedIsUnknown == Matched => WaitingIsUnknown
<1> SUFFICES ASSUME Matched, Serial, Quiet, ~lapse.sweep, NEW d \in Deliveries, parcel[d] = Waiting
             PROVE  Unknown(d)
  BY DEF WaitingIsUnknown
<1>1. \A h \in Slots : ~Coming(req[h], d)
  BY DEF Quiet, Coming, Idle
<1>. QED
  BY <1>1 DEF Matched

-----------------------------------------------------------------------------
(* One request at a time: a postman is told what happened *)

Counts == [Kinds -> [Postmen -> Nat]]

(* Whether the request has still to announce this change.                  *)
Untold(r, k, p) ==
    IF r.pc = "announce" /\ <<k, p>> \in ChangesOf(CarrierOf(r.from), CarrierOf(r.to)) THEN 1 ELSE 0

(* What a match read of its delivery before it decided is still so.        *)
Remembers(r) == r.pc \in {"fill", "decide", "apply"} => parcel[r.d] = r.from

Balanced(known, owed) == IF "stop" \in work THEN known <= owed ELSE known = owed

Announced ==
    /\ batch \in Counts /\ told \in Counts /\ due \in Counts
    /\ Serial /\ "notices" \in work =>
         /\ Lone /\ \A h \in Slots : Remembers(req[h])
         /\ ToldWhatHappened

LEMMA CarrierIsAPostman == \A q : CarrierOf(q) \in Postmen \cup {Nobody}
<1> SUFFICES ASSUME NEW b \in Beats PROVE Carrier[PlacedIn(b).beat] \in Postmen \cup {Nobody}
  BY DEF CarrierOf
<1>. QED
  BY OfficeAssumption DEF PlacedIn

LEMMA PlusCounts ==
    ASSUME NEW c \in Counts, NEW changes
    PROVE  /\ Plus(c, changes) \in Counts
           /\ \A k \in Kinds, p \in Postmen :
                Plus(c, changes)[k][p] = c[k][p] + (IF <<k, p>> \in changes THEN 1 ELSE 0)
BY DEF Plus, Counts

LEMMA NoAnnouncement ==
    ASSUME \A h \in Slots : req[h].pc # "announce"
    PROVE  \A k, p : Cardinality(Announcing(k, p)) = 0
<1>1. \A k, p : Announcing(k, p) = {}
  BY DEF Announcing
<1>. QED
  BY <1>1, FS_EmptySet

LEMMA OneAnnouncement ==
    ASSUME NEW h \in Slots, \A g \in Slots \ {h} : req[g] = Idle
    PROVE  \A k, p : Cardinality(Announcing(k, p)) = Untold(req[h], k, p)
<1> SUFFICES ASSUME NEW k, NEW p PROVE Cardinality(Announcing(k, p)) = Untold(req[h], k, p)
  OBVIOUS
<1>1. Announcing(k, p) = IF Untold(req[h], k, p) = 1 THEN {h} ELSE {}
  BY DEF Announcing, Untold, Idle
<1>2. Cardinality({h}) = 1 /\ Cardinality({}) = 0
  BY FS_Singleton, FS_EmptySet
<1>. QED
  BY <1>1, <1>2 DEF Untold

LEMMA OneAnnouncementAfter ==
    ASSUME NEW h \in Slots, \A g \in Slots \ {h} : req'[g] = Idle
    PROVE  \A k, p : Cardinality(Announcing(k, p))' = Untold(req'[h], k, p)
<1> SUFFICES ASSUME NEW k, NEW p PROVE Cardinality(Announcing(k, p)') = Untold(req'[h], k, p)
  OBVIOUS
<1>1. Announcing(k, p)' = IF Untold(req'[h], k, p) = 1 THEN {h} ELSE {}
  BY DEF Announcing, Untold, Idle
<1>2. Cardinality({h}) = 1 /\ Cardinality({}) = 0
  BY FS_Singleton, FS_EmptySet
<1>. QED
  BY <1>1, <1>2 DEF Untold

LEMMA KnownAndOwed ==
    \A n, m \in Nat, i, j \in {0, 1} : Balanced(n + i, m) => Balanced(n + i + j, m + j)
BY DEF Balanced

(* What a step adds to what is told or about to be told of a change, it    *)
(* adds to what is owed.                                                   *)
LEMMA AloneIsAnnounced ==
    ASSUME Announced, Serial, "notices" \in work, work' = work,
           NEW h \in Slots, Alone(h), Remembers(req[h])',
           batch' \in Counts, told' \in Counts, due' \in Counts,
           \A k \in Kinds, p \in WithLogin :
             \E more \in {0, 1} :
               /\ due'[k][p] = due[k][p] + more
               /\ told'[k][p] + batch'[k][p] + Untold(req'[h], k, p)
                    = told[k][p] + batch[k][p] + Untold(req[h], k, p) + more
    PROVE  Announced'
<1>1. \A g \in Slots : Remembers(req[g])'
  BY DEF Alone, Remembers, Idle
<1>2. ASSUME NEW k \in Kinds, NEW p \in WithLogin
      PROVE  Balanced(told[k][p] + batch[k][p] + Cardinality(Announcing(k, p)), due[k][p])'
  <2>1. Balanced(told[k][p] + batch[k][p] + Untold(req[h], k, p), due[k][p])
    BY <1>2, OneAnnouncement DEF Announced, ToldWhatHappened, Balanced, Alone
  <2>2. PICK more \in {0, 1} :
            /\ due'[k][p] = due[k][p] + more
            /\ told'[k][p] + batch'[k][p] + Untold(req'[h], k, p)
                 = told[k][p] + batch[k][p] + Untold(req[h], k, p) + more
    BY <1>2
  <2>3. /\ told[k][p] \in Nat /\ batch[k][p] \in Nat /\ due[k][p] \in Nat
        /\ Untold(req[h], k, p) \in {0, 1}
    BY <1>2, NoticesAssumption DEF Announced, Counts, Untold
  <2>4. Balanced(told[k][p] + batch[k][p] + Untold(req[h], k, p) + more, due[k][p] + more)
    BY <2>1, <2>3, KnownAndOwed
  <2>5. Cardinality(Announcing(k, p))' = Untold(req'[h], k, p)
    BY OneAnnouncementAfter DEF Alone
  <2>. QED
    BY <2>2, <2>4, <2>5 DEF Balanced
<1>3. ToldWhatHappened'
  BY <1>2 DEF ToldWhatHappened, Balanced
<1>. QED
  BY <1>1, <1>3, AloneIsLone DEF Announced

(* A step that tells nobody anything.                                      *)
LEMMA QuietIsAnnounced ==
    ASSUME Announced, Serial, "notices" \in work, work' = work,
           NEW h \in Slots, Alone(h), UNCHANGED <<parcel, batch, told, due>>,
           req[h].pc # "announce", req'[h].pc # "announce", Remembers(req'[h])
    PROVE  Announced'
<1>1. \A k, p : Untold(req[h], k, p) = 0 /\ Untold(req'[h], k, p) = 0
  BY DEF Untold
<1>2. Remembers(req[h])' /\ batch' \in Counts /\ told' \in Counts /\ due' \in Counts
  BY DEF Remembers, Announced
<1>3. \A k \in Kinds, p \in WithLogin :
         /\ due'[k][p] = due[k][p] + 0
         /\ told'[k][p] + batch'[k][p] + Untold(req'[h], k, p)
              = told[k][p] + batch[k][p] + Untold(req[h], k, p) + 0
  BY <1>1, NoticesAssumption DEF Announced, Counts
<1>. QED
  BY <1>2, <1>3, AloneIsAnnounced

LEMMA CountsStay ==
    ASSUME Announced, [Next]_vars
    PROVE  batch' \in Counts /\ told' \in Counts /\ due' \in Counts
<1>1. batch \in Counts /\ told \in Counts /\ due \in Counts
  BY DEF Announced
<1>2. ASSUME NEW h \in Slots, ApplyDecision(h) PROVE batch' \in Counts /\ told' \in Counts /\ due' \in Counts
  BY <1>1, <1>2, PlusCounts DEF ApplyDecision, Owe
<1>3. ASSUME NEW h \in Slots, Announce(h) PROVE batch' \in Counts /\ told' \in Counts /\ due' \in Counts
  BY <1>1, <1>3, PlusCounts DEF Announce, announceAssignmentChanges, AddToBatch
<1>4. ASSUME NEW k \in Kinds, NEW p \in Postmen, SendBatch(k, p)
      PROVE  batch' \in Counts /\ told' \in Counts /\ due' \in Counts
  BY <1>1, <1>4 DEF SendBatch, Flush, Counted, Counts
<1>5. ASSUME Stop PROVE batch' \in Counts /\ told' \in Counts /\ due' \in Counts
  BY <1>1, <1>5 DEF Stop, ForgetBatches, NoChanges, Counts
<1>6. ASSUME Expire \/ UNCHANGED vars PROVE UNCHANGED noticeVars
  BY <1>6 DEF Expire, vars, noticeVars
<1>7. ASSUME NEW h \in Slots, Step(h), ~ApplyDecision(h), ~Announce(h) PROVE UNCHANGED noticeVars
  BY <1>7 DEF Step, InsertBeat, StoreDrawing, StoreVerified, StoreMapping, StoreCancelled, ImportBeats,
     Invalidate, StartSweep, NextParcel, FillDirectory, Decide
<1>8. ASSUME NEW h \in Slots, NewRequest(h) PROVE UNCHANGED noticeVars
  BY <1>8 DEF NewRequest, CheckNew, CheckDrawing, CheckVerify, Rename, Deactivate, Activate, UploadList,
     StartCancel, StartConfirm, StartMapping, ReadList, Arrive
<1>. QED
  BY <1>1, <1>2, <1>3, <1>4, <1>5, <1>6, <1>7, <1>8 DEF Next, noticeVars

(* The other steps of a request, by what it is doing before and after.     *)
LEMMA NewIsAnnounced ==
    ASSUME Shaped, Serial, "notices" \in work, Announced, NEW h \in Slots, NewRequest(h)
    PROVE  Announced'
<1>1. DOMAIN req = Slots
  BY DEF Shaped
<1>2. ASSUME NEW kind, NEW r, Accept(h, kind), Put(h, r), r.pc \notin {"announce", "fill", "decide", "apply"},
             UNCHANGED <<parcel, noticeVars, work>>
      PROVE  Announced'
  <2>1. Alone(h) /\ req'[h] = r /\ req[h] = Idle
    BY <1>1, <1>2, AcceptedIsAlone, AcceptDoes
  <2>. QED
    BY <1>2, <2>1, QuietIsAnnounced DEF Remembers, Idle, noticeVars
<1>3. CASE \E b \in Beats, s \in Shapes, n \in Names, ack \in BOOLEAN :
             CheckNew(h, b, s, n, ack)
  BY <1>2, <1>3 DEF CheckNew, rows
<1>4. CASE \E b \in Beats, s \in Shapes, v, ack \in BOOLEAN : CheckDrawing(h, b, s, v, ack)
  BY <1>2, <1>4 DEF CheckDrawing, rows
<1>5. CASE \E b \in Beats, ack \in BOOLEAN : CheckVerify(h, b, ack)
  BY <1>2, <1>5 DEF CheckVerify, rows
<1>6. CASE (\E b \in Beats, n \in Names : Rename(h, b, n))
           \/ (\E b \in Beats : Deactivate(h, b) \/ Activate(h, b))
  BY <1>2, <1>6 DEF Rename, Deactivate, Activate, Then
<1>7. CASE StartCancel(h) \/ StartConfirm(h) \/ (\E m \in Mappings : StartMapping(h, m))
  BY <1>2, <1>7 DEF StartCancel, StartConfirm, StartMapping, ReadList, rows
<1>8. CASE \E d \in Deliveries : Arrive(h, d)
  BY <1>2, <1>8 DEF Arrive, rows
<1>9. CASE UploadList(h)
  BY <1>9 DEF UploadList, noticeVars, Announced, Lone, Remembers, ToldWhatHappened, Announcing, Serial
<1>. QED
  BY <1>3, <1>4, <1>5, <1>6, <1>7, <1>8, <1>9 DEF NewRequest

LEMMA StepIsAnnounced ==
    ASSUME Shaped, Serial, "notices" \in work, Announced, NEW h \in Slots, Step(h), [Next]_vars
    PROVE  Announced'
<1>1. /\ DOMAIN req = Slots /\ Lone /\ Remembers(req[h]) /\ work' = work
      /\ batch \in Counts /\ told \in Counts /\ due \in Counts
      /\ batch' \in Counts /\ told' \in Counts /\ due' \in Counts
  BY CountsStay, SerialStays DEF Shaped, Announced
<1>2. req[h] # Idle
  BY DEF Step, InsertBeat, StoreDrawing, StoreVerified, StoreMapping, StoreCancelled, ImportBeats,
     Invalidate, StartSweep, NextParcel, FillDirectory, Decide, ApplyDecision, Announce, Idle
<1>3. ASSUME NEW r, Put(h, r), r.pc # "announce", req[h].pc # "announce",
             UNCHANGED <<parcel, noticeVars>>, Remembers(r)
      PROVE  Announced'
  <2>1. Alone(h) /\ req'[h] = r
    BY <1>1, <1>2, <1>3, BusyIsAlone
  <2>. QED
    BY <1>1, <1>3, <2>1, QuietIsAnnounced DEF noticeVars
<1>4. \A r : r.pc \notin {"fill", "decide", "apply"} => Remembers(r)
  BY DEF Remembers
<1>5. CASE InsertBeat(h)
  BY <1>3, <1>4, <1>5 DEF InsertBeat, Then, Idle
<1>6. CASE StoreDrawing(h)
  BY <1>3, <1>4, <1>6 DEF StoreDrawing, Then
<1>7. CASE StoreVerified(h)
  BY <1>3, <1>4, <1>7 DEF StoreVerified
<1>8. CASE StoreMapping(h) \/ StoreCancelled(h)
  BY <1>3, <1>4, <1>8 DEF StoreMapping, StoreCancelled, Idle
<1>9. CASE ImportBeats(h)
  BY <1>3, <1>4, <1>9 DEF ImportBeats, Then, Idle
<1>10. CASE Invalidate(h)
  <2>1. \A g \in Slots \ {h} : req[g] = Idle
    BY <1>1, <1>2 DEF Lone
  <2>2. Alone(h) /\ req'[h].pc \in {"idle", "sweep"} /\ req[h].pc = "invalidate"
    BY <1>10, <2>1 DEF Invalidate, Alone, Only, Idle
  <2>3. UNCHANGED <<parcel, batch, told, due>>
    BY <1>10 DEF Invalidate, rows, noticeVars
  <2>. QED
    BY <1>1, <1>4, <2>2, <2>3, QuietIsAnnounced
<1>11. CASE StartSweep(h)
  BY <1>3, <1>4, <1>11 DEF StartSweep, rows
<1>12. CASE NextParcel(h)
  <2>1. req[h].pc = "next" /\ UNCHANGED <<parcel, noticeVars>>
    BY <1>12 DEF NextParcel, rows
  <2>2. ASSUME NEW pc \in {"fill", "decide"}, NEW d, NEW entries, Put(h, Matching(h, pc, d, entries))
        PROVE  Announced'
    <3>1. Remembers(Matching(h, pc, d, entries)) /\ Matching(h, pc, d, entries).pc = pc
      BY DEF Remembers, Matching
    <3>. QED
      BY <1>3, <2>1, <2>2, <3>1
  <2>3. Put(h, Idle) => Announced'
    BY <1>3, <1>4, <2>1 DEF Idle
  <2>. QED
    BY <1>12, <2>2, <2>3 DEF NextParcel
<1>13. CASE FillDirectory(h)
  <2>1. DOMAIN req[h] = MatchFields /\ req[h].pc = "fill" /\ UNCHANGED <<parcel, noticeVars>>
    BY <1>13 DEF FillDirectory, Shaped, RequestOK, rows
  <2>2. PICK r : Put(h, r) /\ r = [req[h] EXCEPT !.pc = "decide"]
    BY <1>13 DEF FillDirectory
  <2>3. r.pc = "decide" /\ r.d = req[h].d /\ r.from = req[h].from
    BY <2>1, <2>2 DEF MatchFields
  <2>4. Remembers(r)
    BY <1>1, <2>1, <2>3 DEF Remembers
  <2>. QED
    BY <1>3, <2>1, <2>2, <2>3, <2>4
<1>14. CASE Decide(h)
  <2> DEFINE r == [pc |-> "apply", todo |-> req[h].todo, d |-> req[h].d, from |-> req[h].from,
                   verdict |-> Verdict(req[h].d, req[h].entries, territoryPostmen(req[h].d))]
  <2>1. req[h].pc = "decide" /\ Put(h, r) /\ UNCHANGED <<parcel, noticeVars>>
    BY <1>14 DEF Decide, rows
  <2>2. Remembers(r) /\ r.pc = "apply"
    BY <1>1, <2>1 DEF Remembers
  <2> HIDE DEF r
  <2>. QED
    BY <1>3, <2>1, <2>2
<1>15. CASE ApplyDecision(h)
  <2> DEFINE from == req[h].from
             to == Placed(req[h].verdict)
             changes == ChangesOf(CarrierOf(from), CarrierOf(to))
  <2>1. /\ req[h].pc = "apply" /\ UNCHANGED <<batch, told>>
        /\ Put(h, [pc |-> "announce", todo |-> req[h].todo, d |-> req[h].d, from |-> from, to |-> to])
        /\ Owe(CarrierOf(parcel[req[h].d]), CarrierOf(to))
    BY <1>15 DEF ApplyDecision
  <2>2. due' = Plus(due, changes)
    BY <1>1, <2>1 DEF Remembers, Owe
  <2>3. /\ Alone(h) /\ req'[h].pc = "announce" /\ req'[h].from = from /\ req'[h].to = to
    BY <1>1, <1>2, <2>1, BusyIsAlone
  <2>4. Remembers(req[h])'
    BY <2>3 DEF Remembers
  <2>5. ASSUME NEW k \in Kinds, NEW p \in WithLogin
        PROVE  \E more \in {0, 1} :
                 /\ due'[k][p] = due[k][p] + more
                 /\ told'[k][p] + batch'[k][p] + Untold(req'[h], k, p)
                      = told[k][p] + batch[k][p] + Untold(req[h], k, p) + more
    <3> DEFINE more == IF <<k, p>> \in changes THEN 1 ELSE 0
    <3>1. more \in {0, 1} /\ due'[k][p] = due[k][p] + more
      <4>1. p \in Postmen
        BY NoticesAssumption
      <4>. QED
        BY <1>1, <2>2, <4>1, PlusCounts
    <3>2. Untold(req[h], k, p) = 0 /\ Untold(req'[h], k, p) = more
      BY <2>1, <2>3 DEF Untold
    <3>3. told[k][p] \in Nat /\ batch[k][p] \in Nat
      BY <1>1, NoticesAssumption DEF Counts
    <3> HIDE DEF more, changes
    <3>. QED
      BY <2>1, <3>1, <3>2, <3>3
  <2>. QED
    BY <1>1, <2>3, <2>4, <2>5, AloneIsAnnounced
<1>16. CASE Announce(h)
  <2> DEFINE changes == ChangesOf(CarrierOf(req[h].from), CarrierOf(req[h].to))
             now == AtOnce(req[h].d, changes)
  <2>1. /\ req[h].pc = "announce" /\ due' = due
        /\ Put(h, [pc |-> "next", todo |-> req[h].todo])
        /\ batch' = Plus(batch, changes \ now)
        /\ told' = Plus(told, Tellable(now))
    BY <1>16 DEF Announce, announceAssignmentChanges, AddToBatch
  <2>2. Alone(h) /\ req'[h].pc = "next"
    BY <1>1, <1>2, <2>1, BusyIsAlone
  <2>3. Remembers(req[h])'
    BY <2>2 DEF Remembers
  <2>4. ASSUME NEW k \in Kinds, NEW p \in WithLogin
        PROVE  \E more \in {0, 1} :
                 /\ due'[k][p] = due[k][p] + more
                 /\ told'[k][p] + batch'[k][p] + Untold(req'[h], k, p)
                      = told[k][p] + batch[k][p] + Untold(req[h], k, p) + more
    <3>1. p \in Postmen
      BY NoticesAssumption
    <3>2. /\ batch'[k][p] = batch[k][p] + (IF <<k, p>> \in changes \ now THEN 1 ELSE 0)
          /\ told'[k][p] = told[k][p] + (IF <<k, p>> \in Tellable(now) THEN 1 ELSE 0)
      BY <1>1, <2>1, <3>1, PlusCounts
    <3>3. (<<k, p>> \in Tellable(now)) <=> (<<k, p>> \in now)
      BY DEF Tellable
    <3>4. now \subseteq changes
      BY DEF AtOnce
    <3>5. /\ Untold(req[h], k, p) = IF <<k, p>> \in changes THEN 1 ELSE 0
          /\ Untold(req'[h], k, p) = 0
      BY <2>1, <2>2 DEF Untold
    <3>6. told[k][p] \in Nat /\ batch[k][p] \in Nat /\ due[k][p] \in Nat
      BY <1>1, <3>1 DEF Counts
    <3> HIDE DEF changes, now
    <3>7. told'[k][p] + batch'[k][p] + Untold(req'[h], k, p)
            = told[k][p] + batch[k][p] + Untold(req[h], k, p) + 0
      <4>1. CASE <<k, p>> \in now
        BY <3>2, <3>3, <3>4, <3>5, <3>6, <4>1
      <4>2. CASE <<k, p>> \notin now
        BY <3>2, <3>3, <3>4, <3>5, <3>6, <4>2
      <4>. QED
        BY <4>1, <4>2
    <3>8. due'[k][p] = due[k][p] + 0
      BY <2>1, <3>6
    <3>. QED
      BY <3>7, <3>8
  <2>. QED
    BY <1>1, <2>2, <2>3, <2>4, AloneIsAnnounced
<1>. QED
  BY <1>5, <1>6, <1>7, <1>8, <1>9, <1>10, <1>11, <1>12, <1>13, <1>14, <1>15, <1>16 DEF Step

LEMMA AnnouncedNext == Shaped /\ Announced /\ [Next]_vars => Announced'
<1> SUFFICES ASSUME Shaped, Announced, [Next]_vars PROVE Announced'
  OBVIOUS
<1>1. /\ Serial' = Serial /\ work' = work
      /\ batch' \in Counts /\ told' \in Counts /\ due' \in Counts
  BY SerialStays, CountsStay
<1> SUFFICES ASSUME Serial, "notices" \in work PROVE Announced'
  BY <1>1 DEF Announced
<1>2. ASSUME NEW h \in Slots, Step(h) \/ NewRequest(h)
      PROVE  Announced'
  BY <1>2, StepIsAnnounced, NewIsAnnounced
<1>3. CASE Expire \/ UNCHANGED vars
  BY <1>3 DEF Expire, vars, rows, history, noticeVars, Announced, Lone, Remembers, ToldWhatHappened, Announcing,
     Serial
<1>4. ASSUME NEW k \in Kinds, NEW p \in Postmen, SendBatch(k, p)
      PROVE  Announced'
  <2>1. UNCHANGED <<parcel, req, due>>
    BY <1>4 DEF SendBatch, rows, Flush
  <2>2. Lone' /\ \A h \in Slots : Remembers(req[h])'
    BY <2>1 DEF Announced, Lone, Remembers
  <2>3. ASSUME NEW j \in Kinds, NEW q \in WithLogin
        PROVE  told'[j][q] + batch'[j][q] = told[j][q] + batch[j][q]
    <3>1. /\ batch' = [batch EXCEPT ![k][p] = 0]
          /\ told' = IF p \in WithLogin THEN [told EXCEPT ![k][p] = @ + batch[k][p]] ELSE told
      BY <1>4 DEF SendBatch, Flush, Counted
    <3>2. /\ batch \in Counts /\ told \in Counts /\ q \in Postmen
          /\ told[j][q] \in Nat /\ batch[j][q] \in Nat
      BY NoticesAssumption DEF Announced, Counts
    <3>3. CASE j = k /\ q = p
      BY <3>1, <3>2, <3>3 DEF Counts
    <3>4. CASE ~(j = k /\ q = p)
      BY <3>1, <3>2, <3>4 DEF Counts
    <3>. QED
      BY <3>3, <3>4
  <2>4. ToldWhatHappened'
    <3>1. \A j \in Kinds, q \in WithLogin : Announcing(j, q)' = Announcing(j, q)
      BY <2>1 DEF Announcing
    <3>. QED
      BY <1>1, <2>1, <2>3, <3>1 DEF Announced, ToldWhatHappened
  <2>. QED
    BY <1>1, <2>2, <2>4 DEF Announced
<1>5. CASE Stop
  <2>1. /\ req' = [h \in Slots |-> Idle] /\ batch' = NoChanges /\ UNCHANGED <<told, due>> /\ "stop" \in work
    BY <1>5 DEF Stop, ForgetBatches
  <2>2. Lone' /\ \A h \in Slots : Remembers(req[h])' /\ req'[h].pc # "announce"
    BY <2>1 DEF Lone, Remembers, Idle
  <2>3. ASSUME NEW k \in Kinds, NEW p \in WithLogin
        PROVE  told'[k][p] + batch'[k][p] + Cardinality(Announcing(k, p)') <= due'[k][p]
    <3>1. Announcing(k, p)' = {}
      BY <2>2 DEF Announcing
    <3>2. told[k][p] + batch[k][p] + Cardinality(Announcing(k, p)) <= due[k][p]
      BY <2>1 DEF Announced, ToldWhatHappened
    <3>3. Cardinality(Announcing(k, p)) \in Nat
      <4>1. CASE \E h \in Slots : req[h].pc = "announce"
        <5>1. PICK h \in Slots : req[h].pc = "announce"
          BY <4>1
        <5>2. \A g \in Slots \ {h} : req[g] = Idle
          BY <5>1 DEF Announced, Lone, Idle
        <5>3. Cardinality(Announcing(k, p)) = Untold(req[h], k, p)
          BY <5>2, OneAnnouncement
        <5>4. Untold(req[h], k, p) \in {0, 1}
          BY DEF Untold
        <5>. QED
          BY <5>3, <5>4
      <4>2. CASE ~\E h \in Slots : req[h].pc = "announce"
        BY <4>2, NoAnnouncement
      <4>. QED
        BY <4>1, <4>2
    <3>4. /\ told[k][p] \in Nat /\ batch[k][p] \in Nat /\ due[k][p] \in Nat
          /\ batch'[k][p] = 0 /\ Cardinality({}) = 0
      BY <2>1, NoticesAssumption, FS_EmptySet DEF Announced, Counts, NoChanges
    <3>. QED
      BY <2>1, <3>1, <3>2, <3>3, <3>4
  <2>4. ToldWhatHappened'
    BY <1>1, <2>1, <2>3 DEF ToldWhatHappened
  <2>. QED
    BY <1>1, <2>2, <2>4 DEF Announced
<1>. QED
  BY <1>2, <1>3, <1>4, <1>5 DEF Next

LEMMA AnnouncedInit == ASSUME NEW w, InitIn(w) PROVE Announced
<1>1. batch = NoChanges /\ told = NoChanges /\ due = NoChanges /\ req = [h \in Slots |-> Idle]
  BY DEF InitIn, NoticesInit
<1>2. Lone /\ \A h \in Slots : Remembers(req[h]) /\ req[h].pc # "announce"
  BY <1>1 DEF Lone, Remembers, Idle
<1>3. \A k \in Kinds, p \in WithLogin :
         told[k][p] = 0 /\ batch[k][p] = 0 /\ due[k][p] = 0 /\ Cardinality(Announcing(k, p)) = 0
  BY <1>1, <1>2, NoAnnouncement, NoticesAssumption DEF NoChanges
<1>4. ToldWhatHappened
  BY <1>3 DEF ToldWhatHappened
<1>. QED
  BY <1>1, <1>2, <1>4 DEF Announced, Counts, NoChanges

(* Induction, with a set for what is to be shown.                          *)
LEMMA ByInduction ==
    ASSUME NEW T, NEW m \in Nat, NEW n \in Nat, m \in T,
           \A k \in (m + 1) .. n : k - 1 \in T => k \in T
    PROVE  m .. n \subseteq T
<1> DEFINE bad == {k \in m .. n : k \notin T}
<1> SUFFICES ASSUME bad # {} PROVE FALSE
  OBVIOUS
<1>1. bad \in SUBSET Nat
  OBVIOUS
<1>2. PICK k \in bad : \A j \in bad : k <= j
  <2>. HIDE DEF bad
  <2>. QED
    BY <1>1, HasLeast
<1>3. k # m
  BY <1>2
<1>4. k \in (m + 1) .. n /\ k - 1 \in m .. n /\ k - 1 \notin bad
  BY <1>2, <1>3
<1>. QED
  BY <1>2, <1>4

(* A function that is defined along m .. n from one value to the next.     *)
IsAlong(f, m, n, base, step) == f = [k \in m .. n |-> IF k = m THEN base ELSE step[k][f[k - 1]]]

(* Such a function exists, and its values stay in the set.                 *)
LEMMA AlongExists ==
    ASSUME NEW S, NEW base \in S, NEW m \in Nat, NEW n \in Nat,
           NEW step \in [(m + 1) .. n -> [S -> S]]
    PROVE  \E f \in [m .. n -> S] : IsAlong(f, m, n, base, step)
<1> DEFINE Reaches(k) == \E f \in [m .. k -> S] : IsAlong(f, m, k, base, step)
           T == {k \in m .. n : Reaches(k)}
<1>1. CASE n < m
  <2>1. m .. n = {}
    BY <1>1
  <2> DEFINE f == [k \in m .. n |-> base]
  <2>2. f \in [m .. n -> S] /\ IsAlong(f, m, n, base, step)
    BY <2>1 DEF IsAlong
  <2>. QED
    BY <2>2
<1>2. CASE m <= n
  <2>1. Reaches(m)
    <3> DEFINE f == [k \in m .. m |-> base]
    <3>1. f \in [m .. m -> S] /\ IsAlong(f, m, m, base, step)
      BY DEF IsAlong
    <3>. QED
      BY <3>1
  <2>2. ASSUME NEW k \in (m + 1) .. n, Reaches(k - 1) PROVE Reaches(k)
    <3>1. PICK f \in [m .. (k - 1) -> S] : IsAlong(f, m, k - 1, base, step)
      BY <2>2
    <3> DEFINE g == [r \in m .. k |-> IF r = k THEN step[k][f[k - 1]] ELSE f[r]]
    <3>2. k - 1 \in m .. (k - 1) /\ step[k] \in [S -> S] /\ k # m
      OBVIOUS
    <3>3. g \in [m .. k -> S]
      <4>1. \A r \in m .. k : r # k => r \in m .. (k - 1)
        OBVIOUS
      <4>. QED
        BY <3>2, <4>1
    <3>4. ASSUME NEW r \in m .. k
          PROVE  g[r] = IF r = m THEN base ELSE step[r][g[r - 1]]
      <4>1. CASE r = k
        <5>1. k - 1 \in m .. k /\ k - 1 # k
          BY <3>2
        <5>. QED
          BY <3>2, <4>1, <5>1
      <4>2. CASE r # k
        <5>1. r \in m .. (k - 1) /\ g[r] = f[r]
          BY <4>2
        <5>2. f[r] = IF r = m THEN base ELSE step[r][f[r - 1]]
          BY <3>1, <5>1 DEF IsAlong
        <5>3. r # m => r - 1 \in m .. k /\ r - 1 # k
          BY <5>1
        <5>. QED
          BY <5>1, <5>2, <5>3
      <4>. QED
        BY <4>1, <4>2
    <3>5. g = [r \in m .. k |-> g[r]]
      OBVIOUS
    <3> HIDE DEF g
    <3>. QED
      BY <3>3, <3>4, <3>5 DEF IsAlong
  <2> HIDE DEF Reaches
  <2>3. m \in T /\ \A k \in (m + 1) .. n : k - 1 \in T => k \in T
    BY <1>2, <2>1, <2>2
  <2>4. n \in T
    <3> HIDE DEF T
    <3>1. m .. n \subseteq T
      BY <2>3, ByInduction
    <3>. QED
      BY <1>2, <3>1
  <2>. QED
    BY <2>4 DEF Reaches
<1>. QED
  BY <1>1, <1>2

(* One sequence after another.                                             *)
LEMMA ConcatFacts ==
    ASSUME NEW X, NEW u \in Seq(X), NEW v \in Seq(X)
    PROVE  u \o v \in Seq(X) /\ Range(u) \subseteq Range(u \o v) /\ Range(v) \subseteq Range(u \o v)
<1>1. u \o v \in Seq(X)
  OBVIOUS
<1>2. \A k \in 1 .. Len(u) : k \in DOMAIN (u \o v) /\ (u \o v)[k] = u[k]
  OBVIOUS
<1>3. \A k \in 1 .. Len(v) : Len(u) + k \in DOMAIN (u \o v) /\ (u \o v)[Len(u) + k] = v[k]
  OBVIOUS
<1>4. DOMAIN u = 1 .. Len(u) /\ DOMAIN v = 1 .. Len(v)
  OBVIOUS
<1> DEFINE w == u \o v
<1>5. Range(u) \subseteq Range(w)
  <2>1. \A k \in DOMAIN u : k \in DOMAIN w /\ w[k] = u[k]
    BY <1>2, <1>4
  <2>. HIDE DEF w
  <2>. QED
    BY <2>1 DEF Range
<1>6. Range(v) \subseteq Range(w)
  <2>1. \A k \in DOMAIN v : \E i \in DOMAIN w : w[i] = v[k]
    BY <1>3, <1>4
  <2>. HIDE DEF w
  <2>. QED
    BY <2>1 DEF Range
<1>. QED
  BY <1>1, <1>5, <1>6

(* A list joined to another: what is where.                                *)
LEMMA JoinFacts ==
    ASSUME NEW X, NEW u \in Seq(X), NEW v \in Seq(X)
    PROVE  /\ u \o v \in Seq(X) /\ Len(u \o v) = Len(u) + Len(v)
           /\ Range(u \o v) = Range(u) \cup Range(v)
           /\ Len(u) \in Nat /\ Len(v) \in Nat
           /\ \A k \in 1 .. Len(u) : (u \o v)[k] = u[k]
           /\ \A k \in 1 .. Len(v) : (u \o v)[Len(u) + k] = v[k]
<1>1. u \o v \in Seq(X) /\ Len(u \o v) = Len(u) + Len(v) /\ Len(u) \in Nat /\ Len(v) \in Nat
  OBVIOUS
<1>2. \A k \in 1 .. Len(u) : (u \o v)[k] = u[k]
  OBVIOUS
<1>3. \A k \in 1 .. Len(v) : (u \o v)[Len(u) + k] = v[k]
  OBVIOUS
<1>4. Range(u \o v) \subseteq Range(u) \cup Range(v)
  <2> DEFINE w == u \o v
  <2> SUFFICES ASSUME NEW k \in DOMAIN w PROVE w[k] \in Range(u) \cup Range(v)
    BY DEF Range
  <2>1. k \in 1 .. (Len(u) + Len(v))
    BY <1>1
  <2>2. CASE k <= Len(u)
    <3>1. k \in 1 .. Len(u) /\ k \in DOMAIN u
      BY <1>1, <2>1, <2>2
    <3>2. w[k] = u[k]
      BY <1>2, <3>1
    <3>. QED
      BY <3>1, <3>2 DEF Range
  <2>3. CASE k > Len(u)
    <3>1. k - Len(u) \in 1 .. Len(v) /\ k - Len(u) \in DOMAIN v /\ Len(u) + (k - Len(u)) = k
      BY <1>1, <2>1, <2>3
    <3>2. w[k] = v[k - Len(u)]
      BY <1>3, <3>1
    <3>. QED
      BY <3>1, <3>2 DEF Range
  <2>. QED
    BY <1>1, <2>1, <2>2, <2>3
<1>5. Range(u) \cup Range(v) \subseteq Range(u \o v)
  BY ConcatFacts
<1>. QED
  BY <1>1, <1>2, <1>3, <1>4, <1>5

(* Lists put together, one after the other.                                *)
IsFlat(f, seqs, X) ==
    /\ f \in [0 .. Len(seqs) -> Seq(X)]
    /\ f[0] = <<>>
    /\ \A k \in 1 .. Len(seqs) : f[k] = f[k - 1] \o seqs[k]

LEMMA FlatRun ==
    ASSUME NEW X, NEW seqs \in Seq(Seq(X))
    PROVE  \E f : IsFlat(f, seqs, X) /\ FlattenSeq(seqs) = f[Len(seqs)]
<1> DEFINE n == Len(seqs)
<1>1. n \in Nat /\ DOMAIN seqs = 1 .. n /\ \A i \in 1 .. n : seqs[i] \in Seq(X)
  OBVIOUS
<1>2. CASE n = 0
  <2>1. FlattenSeq(seqs) = seqs
    BY <1>2 DEF FlattenSeq
  <2>2. seqs = <<>> /\ <<>> \in Seq(X)
    BY <1>2
  <2> DEFINE f == [k \in 0 .. 0 |-> <<>>]
  <2>3. f \in [0 .. n -> Seq(X)] /\ f[0] = <<>> /\ 1 .. n = {}
    BY <1>2, <2>2
  <2>. QED
    BY <1>2, <2>1, <2>2, <2>3 DEF IsFlat
<1>3. CASE n # 0
  <2> DEFINE IsUp(g) == g = [i \in 1 .. n |-> IF i = 1 THEN seqs[i] ELSE g[i - 1] \o seqs[i]]
             up == CHOOSE g : IsUp(g)
             step == [i \in 2 .. n |-> [u \in Seq(X) |-> u \o seqs[i]]]
  <2>1. n \in Nat /\ 1 \in 1 .. n /\ n \in 1 .. n /\ seqs[1] \in Seq(X)
    BY <1>1, <1>3
  <2>2. step \in [(1 + 1) .. n -> [Seq(X) -> Seq(X)]]
    <3>1. \A i \in 2 .. n : i \in 1 .. n
      BY <2>1
    <3>2. \A i \in 2 .. n : \A u \in Seq(X) : u \o seqs[i] \in Seq(X)
      BY <1>1, <3>1
    <3>. QED
      BY <3>2
  <2>3. PICK f \in [1 .. n -> Seq(X)] : IsAlong(f, 1, n, seqs[1], step)
    <3>. HIDE DEF step, n
    <3>. QED
      BY <2>1, <2>2, AlongExists
  <2>4. IsUp(f)
    <3>1. \A i \in 2 .. n : i - 1 \in 1 .. n
      BY <2>1
    <3>2. \A i \in 2 .. n : step[i][f[i - 1]] = f[i - 1] \o seqs[i]
      BY <3>1
    <3>3. \A i \in 1 .. n : f[i] = IF i = 1 THEN seqs[1] ELSE step[i][f[i - 1]]
      BY <2>3 DEF IsAlong
    <3>. HIDE DEF step
    <3>4. \A i \in 1 .. n : f[i] = IF i = 1 THEN seqs[i] ELSE f[i - 1] \o seqs[i]
      <4> TAKE i \in 1 .. n
      <4>1. CASE i = 1
        BY <3>3, <4>1
      <4>2. CASE i # 1
        <5>1. i \in 2 .. n
          BY <2>1, <4>2
        <5>. QED
          BY <3>2, <3>3, <4>2, <5>1
      <4>. QED
        BY <4>1, <4>2
    <3>5. f = [i \in 1 .. n |-> f[i]]
      OBVIOUS
    <3>. QED
      BY <3>4, <3>5
  <2>5. IsUp(up)
    BY <2>4, Zenon
  <2>6. FlattenSeq(seqs) = up[n]
    BY <1>3 DEF FlattenSeq
  <2>. HIDE DEF up
  <2>7. up[1] = seqs[1] /\ \A i \in 2 .. n : up[i] = up[i - 1] \o seqs[i]
    <3>1. \A i \in 1 .. n : up[i] = IF i = 1 THEN seqs[i] ELSE up[i - 1] \o seqs[i]
      BY <2>5
    <3>2. \A i \in 2 .. n : i \in 1 .. n /\ i # 1
      BY <2>1
    <3>. QED
      BY <2>1, <3>1, <3>2
  <2> DEFINE T == {i \in 1 .. n : up[i] \in Seq(X)}
  <2>8. 1 \in T
    BY <2>1, <2>7
  <2>9. ASSUME NEW i \in (1 + 1) .. n, i - 1 \in T PROVE i \in T
    <3>1. i \in 2 .. n /\ i \in 1 .. n /\ seqs[i] \in Seq(X) /\ up[i - 1] \in Seq(X)
      BY <1>1, <2>9
    <3>2. up[i] = up[i - 1] \o seqs[i]
      BY <2>7, <3>1
    <3>3. up[i] \in Seq(X)
      BY <3>1, <3>2
    <3>. QED
      BY <3>1, <3>3
  <2>10. 1 .. n \subseteq T
    <3>. HIDE DEF T, n
    <3>. QED
      BY <2>1, <2>8, <2>9, ByInduction
  <2> DEFINE h == [i \in 0 .. n |-> IF i = 0 THEN <<>> ELSE up[i]]
  <2>11. <<>> \in Seq(X) /\ 0 \in 0 .. n /\ n \in 0 .. n /\ \A i \in 0 .. n : i # 0 => i \in 1 .. n
    BY <2>1
  <2>12. h \in [0 .. n -> Seq(X)] /\ h[0] = <<>> /\ h[n] = up[n]
    BY <1>3, <2>10, <2>11
  <2>13. ASSUME NEW i \in 1 .. n PROVE h[i] = h[i - 1] \o seqs[i]
    <3>1. i \in 0 .. n /\ i # 0 /\ h[i] = up[i] /\ seqs[i] \in Seq(X)
      BY <1>1, <2>1
    <3>2. CASE i = 1
      <4>1. h[i - 1] = <<>>
        BY <2>12, <3>2
      <4>2. <<>> \o seqs[i] = seqs[i]
        BY <3>1
      <4>. QED
        BY <2>7, <3>1, <3>2, <4>1, <4>2
    <3>3. CASE i # 1
      <4>1. i \in 2 .. n /\ i - 1 \in 0 .. n /\ i - 1 # 0
        BY <2>1, <3>3
      <4>2. h[i - 1] = up[i - 1]
        BY <4>1
      <4>. QED
        BY <2>7, <3>1, <4>1, <4>2
    <3>. QED
      BY <3>2, <3>3
  <2>. HIDE DEF h
  <2>. QED
    BY <2>6, <2>12, <2>13 DEF IsFlat
<1>. QED
  BY <1>2, <1>3

(* What is in one of the parts is in their concatenation, and nothing else.*)
LEMMA FlatFacts ==
    ASSUME NEW X, NEW seqs \in Seq(Seq(X))
    PROVE  /\ FlattenSeq(seqs) \in Seq(X)
           /\ \A i \in DOMAIN seqs : Range(seqs[i]) \subseteq Range(FlattenSeq(seqs))
           /\ \A w \in Range(FlattenSeq(seqs)) : \E i \in DOMAIN seqs : w \in Range(seqs[i])
<1> DEFINE n == Len(seqs)
<1>1. n \in Nat /\ DOMAIN seqs = 1 .. n /\ \A i \in 1 .. n : seqs[i] \in Seq(X)
  OBVIOUS
<1>2. PICK f : IsFlat(f, seqs, X) /\ FlattenSeq(seqs) = f[n]
  BY FlatRun
<1>3. /\ \A i \in 0 .. n : f[i] \in Seq(X)
      /\ f[0] = <<>> /\ \A k \in 1 .. n : f[k] = f[k - 1] \o seqs[k]
  BY <1>2 DEF IsFlat
<1> DEFINE T == {i \in 0 .. n : /\ \A k \in 1 .. i : Range(seqs[k]) \subseteq Range(f[i])
                                /\ \A w \in Range(f[i]) : \E k \in 1 .. i : w \in Range(seqs[k])}
<1>4. 0 \in T
  <2>1. Range(<<>>) = {} /\ 1 .. 0 = {} /\ 0 \in 0 .. n
    BY <1>1 DEF Range
  <2>. QED
    BY <1>3, <2>1
<1>5. ASSUME NEW i \in (0 + 1) .. n, i - 1 \in T PROVE i \in T
  <2>1. i \in 1 .. n /\ i \in 0 .. n /\ i - 1 \in 0 .. n /\ i \in 1 .. i
    BY <1>1
  <2>2. f[i - 1] \in Seq(X) /\ seqs[i] \in Seq(X) /\ f[i] = f[i - 1] \o seqs[i]
    BY <1>1, <1>3, <2>1
  <2>3. Range(f[i]) = Range(f[i - 1]) \cup Range(seqs[i])
    BY <2>2, JoinFacts
  <2>4. \A k \in 1 .. i : k = i \/ k \in 1 .. (i - 1)
    BY <2>1
  <2>5. \A k \in 1 .. (i - 1) : k \in 1 .. i
    BY <2>1
  <2>6. /\ \A k \in 1 .. (i - 1) : Range(seqs[k]) \subseteq Range(f[i - 1])
        /\ \A w \in Range(f[i - 1]) : \E k \in 1 .. (i - 1) : w \in Range(seqs[k])
    BY <1>5
  <2>7. \A k \in 1 .. i : Range(seqs[k]) \subseteq Range(f[i])
    BY <2>3, <2>4, <2>6
  <2>8. \A w \in Range(f[i]) : \E k \in 1 .. i : w \in Range(seqs[k])
    BY <2>1, <2>3, <2>5, <2>6
  <2>. QED
    BY <2>1, <2>7, <2>8
<1>6. n \in T
  <2>. HIDE DEF T, n
  <2>1. 0 .. n \subseteq T
    BY <1>1, <1>4, <1>5, ByInduction
  <2>. QED
    BY <1>1, <2>1
<1>7. n \in 0 .. n
  BY <1>1
<1>8. /\ \A k \in 1 .. n : Range(seqs[k]) \subseteq Range(f[n])
      /\ \A w \in Range(f[n]) : \E k \in 1 .. n : w \in Range(seqs[k])
  BY <1>6
<1>. QED
  BY <1>1, <1>2, <1>3, <1>7, <1>8

-----------------------------------------------------------------------------
(* The words of a letter *)

LEMMA SimilarityIs == ASSUME NEW a, NEW b PROVE tokenSimilarity(a, b) \in 0..100
BY MatchingAssumption DEF MatchingAssumption, tokenSimilarity

(* A set of numbers with a bound has a greatest one.                       *)
LEMMA HasGreatest ==
    ASSUME NEW T \in SUBSET (0 .. 100), T # {}
    PROVE  \E n \in T : \A m \in T : m <= n
<1> DEFINE U == {100 - m : m \in T}
<1>1. U \in SUBSET Nat /\ U # {}
  <2>1. \A m \in T : 100 - m \in Nat
    OBVIOUS
  <2>. QED
    BY <2>1
<1>2. PICK u \in U : \A v \in U : u <= v
  <2>. HIDE DEF U
  <2>. QED
    BY <1>1, HasLeast
<1>3. PICK n \in T : u = 100 - n
  OBVIOUS
<1>4. ASSUME NEW m \in T PROVE m <= n
  <2>1. u <= 100 - m
    BY <1>2
  <2>2. m \in 0 .. 100 /\ n \in 0 .. 100
    OBVIOUS
  <2>. QED
    BY <1>3, <2>1, <2>2
<1>. QED
  BY <1>4

(* Some word of a phrase is nearly one of these.                           *)
ShareWord(phrase, tokens) == \E t \in Range(phrase), word \in Range(tokens) : Similar(t, word)

LEMMA BestSpellingFacts ==
    ASSUME NEW t, NEW tokens
    PROVE  /\ BestSpelling(t, tokens) \in Nat
           /\ BestSpelling(t, tokens) > 0 => \E a \in Range(tokens) : Similar(t, a)
<1> DEFINE T == {tokenSimilarity(t, a) : a \in Range(tokens)} \cup {0}
           Tops(s) == \A a \in Range(tokens) : tokenSimilarity(t, a) <= s
           s == BestSpelling(t, tokens)
<1>1. T \in SUBSET (0 .. 100) /\ T # {}
  BY SimilarityIs
<1>2. \E n \in T : Tops(n)
  <2>1. PICK n \in T : \A m \in T : m <= n
    <3>. HIDE DEF T
    <3>. QED
      BY <1>1, HasGreatest
  <2>. QED
    BY <2>1
<1>3. s = CHOOSE n \in T : Tops(n)
  BY DEF BestSpelling
<1>4. s \in T
  <2>. HIDE DEF T, Tops, s
  <2>. QED
    BY <1>2, <1>3
<1>6. s \in 0 .. 100
  <2>. HIDE DEF T, s
  <2>. QED
    BY <1>1, <1>4
<1>7. s \in Nat
  <2>. HIDE DEF s
  <2>. QED
    BY <1>6
<1>5. ASSUME s > 0 PROVE \E a \in Range(tokens) : Similar(t, a)
  <2>. HIDE DEF s
  <2>1. s # 0
    BY <1>1, <1>4, <1>5
  <2>2. PICK a \in Range(tokens) : s = tokenSimilarity(t, a)
    BY <1>4, <2>1
  <2>. QED
    BY <1>5, <2>2 DEF Similar
<1>. QED
  BY <1>5, <1>7

(* A sum of numbers is a number, and of nothing but zeros is zero.         *)
LEMMA TotalFacts ==
    ASSUME NEW numbers \in Seq(Nat)
    PROVE  /\ Total(numbers) \in Nat
           /\ (\A i \in DOMAIN numbers : numbers[i] = 0) => Total(numbers) = 0
<1> DEFINE n == Len(numbers)
           IsUp(g) == g = [i \in 0 .. n |-> IF i = 0 THEN 0 ELSE g[i - 1] + numbers[i]]
           up == CHOOSE g : IsUp(g)
           step == [i \in 1 .. n |-> [u \in Nat |-> u + numbers[i]]]
<1>1. n \in Nat /\ DOMAIN numbers = 1 .. n /\ \A i \in 1 .. n : numbers[i] \in Nat
  OBVIOUS
<1>2. step \in [(0 + 1) .. n -> [Nat -> Nat]]
  BY <1>1
<1>3. PICK f \in [0 .. n -> Nat] : IsAlong(f, 0, n, 0, step)
  <2>. HIDE DEF step, n
  <2>. QED
    BY <1>1, <1>2, AlongExists
<1>4. IsUp(f)
  <2>1. \A i \in 1 .. n : f[i - 1] \in Nat
    BY <1>1
  <2>2. \A i \in 1 .. n : step[i][f[i - 1]] = f[i - 1] + numbers[i]
    BY <2>1
  <2>3. \A i \in 0 .. n : f[i] = IF i = 0 THEN 0 ELSE step[i][f[i - 1]]
    BY <1>3 DEF IsAlong
  <2>. HIDE DEF step
  <2>4. \A i \in 0 .. n : i # 0 => i \in 1 .. n
    BY <1>1
  <2>5. \A i \in 0 .. n : f[i] = IF i = 0 THEN 0 ELSE f[i - 1] + numbers[i]
    BY <2>2, <2>3, <2>4
  <2>6. f = [i \in 0 .. n |-> f[i]]
    OBVIOUS
  <2>. QED
    BY <2>5, <2>6
<1>5. IsUp(up)
  BY <1>4, Zenon
<1>6. Total(numbers) = up[n]
  BY DEF Total
<1>. HIDE DEF up
<1>7. up[0] = 0 /\ \A i \in 1 .. n : up[i] = up[i - 1] + numbers[i]
  <2>1. \A i \in 0 .. n : up[i] = IF i = 0 THEN 0 ELSE up[i - 1] + numbers[i]
    BY <1>5
  <2>. QED
    BY <1>1, <2>1
<1> DEFINE None == \A i \in DOMAIN numbers : numbers[i] = 0
           T == {i \in 0 .. n : up[i] \in Nat /\ (None => up[i] = 0)}
<1>8. 0 \in T
  BY <1>1, <1>7
<1>9. ASSUME NEW i \in (0 + 1) .. n, i - 1 \in T PROVE i \in T
  <2>1. i \in 1 .. n /\ i \in 0 .. n /\ up[i - 1] \in Nat /\ (None => up[i - 1] = 0)
    BY <1>1, <1>9
  <2>2. up[i] = up[i - 1] + numbers[i] /\ numbers[i] \in Nat /\ (None => numbers[i] = 0)
    BY <1>1, <1>7, <2>1
  <2>. HIDE DEF None
  <2>3. up[i] \in Nat /\ (None => up[i] = 0)
    BY <2>1, <2>2
  <2>. QED
    BY <2>1, <2>3
<1>10. n \in T
  <2>. HIDE DEF T, n
  <2>1. 0 .. n \subseteq T
    BY <1>1, <1>8, <1>9, ByInduction
  <2>. QED
    BY <1>1, <2>1
<1>. QED
  BY <1>6, <1>10

(* A directory has no more rows than the weights go for.                   *)
MostRows == Cardinality(Beats \X (Records \cup ({Empty} \X Localities)))
FitsTable(index) == IsFiniteSet(index) /\ Cardinality(index) \in Nat /\ Cardinality(index) <= MostRows

LEMMA WeightIsNumber ==
    ASSUME NEW index, FitsTable(index), MostRows \in Nat, NEW t
    PROVE  Weight(index, t) \in Nat
<1> DEFINE with == {e \in index : t \in Range(e.locality)}
           n == Cardinality(index)
           k == Cardinality(with)
<1>1. IsFiniteSet(with) /\ k \in Nat /\ k <= n
  <2>1. with \subseteq index
    OBVIOUS
  <2>. HIDE DEF with
  <2>. QED
    BY <2>1, FS_Subset, FS_CardinalityType DEF FitsTable
<1>2. ASSUME with # {} PROVE Idf[n][k] \in Nat
  <2>1. k # 0
    <3>. HIDE DEF with
    <3>. QED
      BY <1>1, <1>2, FS_EmptySet
  <2>2. n \in 1..MostRows /\ k \in 1..n
    <3>1. n \in Nat /\ n <= MostRows
      BY DEF FitsTable
    <3>. HIDE DEF n, k
    <3>. QED
      BY <1>1, <2>1, <3>1
  <2>. HIDE DEF n, k
  <2>. QED
    BY <2>2, WordsAssumption DEF WordsAssumption, MostRows
<1>3. Weight(index, t) = IF t \in GENERIC_ADDRESS_WORDS THEN GENERIC_WORD
                         ELSE IF with = {} THEN UNKNOWN_WORD ELSE Idf[n][k]
  BY DEF Weight
<1>. HIDE DEF with, n, k
<1>. QED
  BY <1>2, <1>3 DEF GENERIC_WORD, UNKNOWN_WORD

(* What is covered of a phrase.                                            *)
LEMMA CoverageFacts ==
    ASSUME NEW index, FitsTable(index), MostRows \in Nat, NEW X, NEW phrase \in Seq(X), NEW tokens
    PROVE  LET bag == bagCoverage(phrase, tokens, index)
           IN  /\ bag.coverage \in Nat
               /\ bag.coverage # 0 => ShareWord(phrase, tokens)
               /\ bag.allPresent /\ phrase # <<>> => ShareWord(phrase, tokens)
<1> DEFINE bag == bagCoverage(phrase, tokens, index)
           weight == [i \in DOMAIN phrase |-> Weight(index, phrase[i])]
           got == [i \in DOMAIN phrase |-> weight[i] * BestSpelling(phrase[i], tokens)]
           n == Len(phrase)
<1>1. n \in Nat /\ DOMAIN phrase = 1 .. n /\ \A i \in 1 .. n : phrase[i] \in Range(phrase)
  BY DEF Range
<1>2. \A i \in 1 .. n : weight[i] \in Nat /\ BestSpelling(phrase[i], tokens) \in Nat
  <2>1. \A i \in 1 .. n : Weight(index, phrase[i]) \in Nat
    BY WeightIsNumber
  <2>2. \A i \in 1 .. n : BestSpelling(phrase[i], tokens) \in Nat
    BY BestSpellingFacts
  <2>3. \A i \in 1 .. n : weight[i] = Weight(index, phrase[i])
    BY <1>1
  <2>. HIDE DEF weight
  <2>. QED
    BY <2>1, <2>2, <2>3
<1>3. weight \in Seq(Nat)
  <2>1. weight \in [1 .. n -> Nat]
    BY <1>1, <1>2
  <2>. HIDE DEF weight, n
  <2>. QED
    BY <1>1, <2>1
<1>4. got \in Seq(Nat)
  <2>1. ASSUME NEW i \in 1 .. n PROVE weight[i] * BestSpelling(phrase[i], tokens) \in Nat
    <3>1. weight[i] \in Nat /\ BestSpelling(phrase[i], tokens) \in Nat
      BY <1>2
    <3>. HIDE DEF weight
    <3>. QED
      BY <3>1
  <2>2. got \in [1 .. n -> Nat]
    <3>. HIDE DEF weight
    <3>. QED
      BY <1>1, <2>1
  <2>. HIDE DEF got, n
  <2>. QED
    BY <1>1, <2>2
<1>5. Total(weight) \in Nat /\ Total(got) \in Nat
  <2>. HIDE DEF weight, got
  <2>. QED
    BY <1>3, <1>4, TotalFacts
<1>6. /\ bag.coverage = IF Total(weight) = 0 THEN 0 ELSE Total(got) \div Total(weight)
      /\ bag.allPresent <=> \A t \in Range(phrase) : BestSpelling(t, tokens) > 0
  BY DEF bagCoverage
<1>7. bag.coverage \in Nat
  <2>. HIDE DEF weight, got, bag
  <2>. QED
    BY <1>5, <1>6
<1>8. ASSUME ~ShareWord(phrase, tokens) PROVE bag.coverage = 0 /\ (phrase = <<>> \/ ~bag.allPresent)
  <2>1. ASSUME NEW i \in 1 .. n PROVE BestSpelling(phrase[i], tokens) = 0
    <3>1. phrase[i] \in Range(phrase)
      BY <1>1
    <3>2. ~(BestSpelling(phrase[i], tokens) > 0)
      BY <1>8, <3>1, BestSpellingFacts DEF ShareWord
    <3>. HIDE DEF weight
    <3>3. BestSpelling(phrase[i], tokens) \in Nat
      BY <1>2
    <3>. QED
      BY <3>2, <3>3
  <2>2. ASSUME NEW i \in DOMAIN got PROVE got[i] = 0
    <3>1. i \in 1 .. n /\ got[i] = weight[i] * BestSpelling(phrase[i], tokens) /\ weight[i] \in Nat
      BY <1>1, <1>2
    <3>2. BestSpelling(phrase[i], tokens) = 0
      BY <2>1, <3>1
    <3>. HIDE DEF weight, got
    <3>. QED
      BY <3>1, <3>2
  <2>3. Total(got) = 0
    <3>. HIDE DEF got
    <3>. QED
      BY <1>4, <2>2, TotalFacts
  <2>4. bag.coverage = 0
    <3>. HIDE DEF weight, got, bag
    <3>. QED
      BY <1>5, <1>6, <2>3
  <2>5. ASSUME phrase # <<>> PROVE ~bag.allPresent
    <3>1. 1 \in 1 .. n
      BY <1>1, <2>5
    <3>2. phrase[1] \in Range(phrase) /\ ~(BestSpelling(phrase[1], tokens) > 0)
      BY <1>1, <2>1, <3>1
    <3>. HIDE DEF bag
    <3>. QED
      BY <1>6, <3>2
  <2>. QED
    BY <2>4, <2>5
<1>. HIDE DEF bag
<1>9. /\ bag.coverage \in Nat
      /\ bag.coverage # 0 => ShareWord(phrase, tokens)
      /\ bag.allPresent /\ phrase # <<>> => ShareWord(phrase, tokens)
  BY <1>7, <1>8
<1>. QED
  BY <1>9 DEF bag

(* Part of a list.                                                         *)
LEMMA PartFacts ==
    ASSUME NEW X, NEW s \in Seq(X), NEW a \in 1 .. Len(s), NEW b \in 0 .. Len(s)
    PROVE  SubSeq(s, a, b) \in Seq(X) /\ Range(SubSeq(s, a, b)) \subseteq Range(s)
<1> DEFINE w == SubSeq(s, a, b)
<1>1. w \in Seq(X)
  OBVIOUS
<1>2. \A k \in DOMAIN w : a + k - 1 \in DOMAIN s /\ w[k] = s[a + k - 1]
  OBVIOUS
<1>. HIDE DEF w
<1>3. Range(w) \subseteq Range(s)
  BY <1>2 DEF Range
<1>. QED
  BY <1>1, <1>3 DEF w

LEMMA LocalityIs ==
    ASSUME NEW X, NEW words \in Seq(X)
    PROVE  localityTokens(words) \in Seq(X) /\ Range(localityTokens(words)) \subseteq Range(words)
<1> DEFINE n == Len(words)
           o == Len(OfficeArea)
           short == SubSeq(words, 1, n - o)
           front == SubSeq(words, 1, n - 1)
           Part(s) == s \in Seq(X) /\ Range(s) \subseteq Range(words)
<1>1. n \in Nat /\ o \in Nat
  BY MatchingAssumption DEF MatchingAssumption
<1>2. ASSUME n > o PROVE Part(short)
  <2>1. 1 \in 1 .. n /\ n - o \in 0 .. n
    BY <1>1, <1>2
  <2>. QED
    BY <2>1, PartFacts
<1>3. ASSUME n > 1 PROVE Part(front)
  <2>1. 1 \in 1 .. n /\ n - 1 \in 0 .. n
    BY <1>1, <1>3
  <2>. QED
    BY <2>1, PartFacts
<1>4. Part(words)
  OBVIOUS
<1>5. \/ localityTokens(words) = words
      \/ n > o /\ localityTokens(words) = short
      \/ n > 1 /\ localityTokens(words) = front
  <2>1. Len(<<OfficeArea[1]>>) = 1
    OBVIOUS
  <2>. QED
    BY <2>1 DEF localityTokens, Front
<1>. HIDE DEF short, front
<1>. QED
  BY <1>2, <1>3, <1>4, <1>5

(* Of the numbers 1 .. n that qualify, n or another, the first and, from   *)
(* one of them on, the last.                                               *)
LEMMA HasFirst ==
    ASSUME NEW n \in Nat \ {0}, NEW S
    PROVE  \E i \in 1 .. n : (i = n \/ i \in S) /\ \A j \in 1 .. (i - 1) : j \notin S
<1> DEFINE T == {i \in 1 .. n : i = n \/ i \in S}
<1>1. T \in SUBSET Nat /\ n \in T
  OBVIOUS
<1>2. PICK i \in T : \A j \in T : i <= j
  <2>. HIDE DEF T
  <2>. QED
    BY <1>1, HasLeast
<1>3. i \in 1 .. n /\ (i = n \/ i \in S)
  BY <1>2
<1>4. ASSUME NEW j \in 1 .. (i - 1) PROVE j \notin S
  <2>1. j \in 1 .. n /\ ~(i <= j)
    BY <1>3
  <2>. QED
    BY <1>2, <2>1
<1>. QED
  BY <1>3, <1>4

LEMMA HasLast ==
    ASSUME NEW n \in Nat, NEW a \in 1 .. n, NEW S
    PROVE  \E k \in a .. n : (k = a \/ k \in S) /\ \A j \in (k + 1) .. n : j \notin S
<1> DEFINE T == {m \in 0 .. (n - a) : n - m = a \/ n - m \in S}
<1>1. T \in SUBSET Nat /\ n - a \in T
  <2>1. n - a \in 0 .. (n - a) /\ n - (n - a) = a
    OBVIOUS
  <2>. QED
    BY <2>1
<1>2. PICK m \in T : \A j \in T : m <= j
  <2>. HIDE DEF T
  <2>. QED
    BY <1>1, HasLeast
<1> DEFINE k == n - m
<1>3. k \in a .. n /\ (k = a \/ k \in S) /\ m \in 0 .. (n - a)
  BY <1>2
<1>4. ASSUME NEW j \in (k + 1) .. n PROVE j \notin S
  <2>1. n - j \in 0 .. (n - a) /\ n - (n - j) = j /\ ~(m <= n - j)
    BY <1>3
  <2>2. n - j \notin T
    BY <1>2, <2>1
  <2>. QED
    BY <2>1, <2>2
<1>. QED
  BY <1>3, <1>4

LEMMA WithoutTailIs ==
    ASSUME NEW X, NEW segment \in Seq(X), segment # <<>>
    PROVE  LET w == withoutOfficeTail(segment) IN w \in Seq(X) /\ Range(w) \subseteq Range(segment)
<1> DEFINE n == Len(segment)
           S == {i \in 1 .. n : segment[i] \notin Numbers}
           E == {i \in 1 .. n : segment[i] \notin Numbers \cup GENERIC_ADDRESS_WORDS}
           IsFrom(i) == (i = n \/ segment[i] \notin Numbers) /\ \A j \in 1 .. (i - 1) : ~(segment[j] \notin Numbers)
           from == CHOOSE i \in 1 .. n : IsFrom(i)
           IsTo(k) == (k = from \/ segment[k] \notin Numbers \cup GENERIC_ADDRESS_WORDS)
                      /\ \A j \in (k + 1) .. n : ~(segment[j] \notin Numbers \cup GENERIC_ADDRESS_WORDS)
           to == CHOOSE k \in from .. n : IsTo(k)
           part == SubSeq(segment, from, to)
<1>1. n \in Nat \ {0}
  OBVIOUS
<1>2. from \in 1 .. n
  <2>1. \E i \in 1 .. n : (i = n \/ i \in S) /\ \A j \in 1 .. (i - 1) : j \notin S
    <3>. HIDE DEF S, n
    <3>. QED
      BY <1>1, HasFirst
  <2>2. \E i \in 1 .. n : IsFrom(i)
    <3>1. PICK i \in 1 .. n : (i = n \/ i \in S) /\ \A j \in 1 .. (i - 1) : j \notin S
      BY <2>1
    <3>2. \A j \in 1 .. (i - 1) : j \in 1 .. n
      BY <1>1, <3>1
    <3>3. IsFrom(i)
      <4>. HIDE DEF n
      <4>. QED
        BY <3>1, <3>2
    <3>. QED
      BY <3>3
  <2>. HIDE DEF IsFrom
  <2>. QED
    BY <2>2
<1>. HIDE DEF from
<1>3. to \in from .. n
  <2>1. \E k \in from .. n : (k = from \/ k \in E) /\ \A j \in (k + 1) .. n : j \notin E
    <3>. HIDE DEF E, n
    <3>. QED
      BY <1>1, <1>2, HasLast, ZenonT(40)
  <2>2. \E k \in from .. n : IsTo(k)
    <3>1. PICK k \in from .. n : (k = from \/ k \in E) /\ \A j \in (k + 1) .. n : j \notin E
      BY <2>1
    <3>2. k \in 1 .. n /\ \A j \in (k + 1) .. n : j \in 1 .. n
      BY <1>1, <1>2, <3>1
    <3>3. IsTo(k)
      <4>. HIDE DEF n
      <4>. QED
        BY <3>1, <3>2
    <3>. QED
      BY <3>3
  <2>. HIDE DEF IsTo
  <2>. QED
    BY <2>2
<1>. HIDE DEF to
<1>4. to \in 0 .. n
  BY <1>1, <1>2, <1>3
<1>5. part \in Seq(X) /\ Range(part) \subseteq Range(segment)
  BY <1>2, <1>4, PartFacts
<1>6. withoutOfficeTail(segment) = localityTokens(part)
  BY DEF withoutOfficeTail, from, to
<1>. HIDE DEF part
<1>7. localityTokens(part) \in Seq(X) /\ Range(localityTokens(part)) \subseteq Range(part)
  BY <1>5, LocalityIs
<1>. QED
  BY <1>5, <1>6, <1>7

(* What is read of an address is words of it.                              *)
IsAddress(addr) ==
    \E X : /\ addr.tokens \in Seq(X) /\ addr.readings \in Seq(Seq(X))
           /\ \A i \in DOMAIN addr.readings : Range(addr.readings[i]) \subseteq Range(addr.tokens)

LEMMA NormalisedIs == ASSUME NEW addr \in Normalised PROVE IsAddress(addr)
<1>1. PICK l \in Letters : addr = normalizeAddress(l.segments, l.field, l.office, l.pincode)
  BY DEF Normalised
<1> DEFINE X == UNION {Range(l.segments[i]) : i \in DOMAIN l.segments}
           segments == l.segments
           pair == [i \in DOMAIN segments |-> <<segments[i], withoutOfficeTail(segments[i])>>]
           n == Len(segments)
<1>2. addr.tokens = FlattenSeq(segments) /\ addr.readings = FlattenSeq(pair)
  BY <1>1 DEF normalizeAddress
<1>3. segments \in Seq(Seq(X) \ {<<>>})
  BY WordsAssumption DEF WordsAssumption
<1>. HIDE DEF X, segments
<1>4. n \in Nat /\ DOMAIN segments = 1 .. n /\ \A i \in 1 .. n : segments[i] \in Seq(X) /\ segments[i] # <<>>
  BY <1>3
<1>5. segments \in Seq(Seq(X))
  BY <1>3
<1>6. ASSUME NEW i \in 1 .. n
      PROVE  LET w == withoutOfficeTail(segments[i]) IN w \in Seq(X) /\ Range(w) \subseteq Range(segments[i])
  BY <1>4, WithoutTailIs
<1>7. pair \in Seq(Seq(Seq(X)))
  <2>1. \A i \in 1 .. n : <<segments[i], withoutOfficeTail(segments[i])>> \in Seq(Seq(X))
    BY <1>4, <1>6
  <2>2. pair \in [1 .. n -> Seq(Seq(X))]
    BY <1>4, <2>1
  <2>. HIDE DEF pair, n
  <2>. QED
    BY <1>4, <2>2
<1>8. /\ FlattenSeq(segments) \in Seq(X)
      /\ \A i \in DOMAIN segments : Range(segments[i]) \subseteq Range(FlattenSeq(segments))
  BY <1>5, FlatFacts
<1>9. /\ FlattenSeq(pair) \in Seq(Seq(X))
      /\ \A reading \in Range(FlattenSeq(pair)) : \E i \in DOMAIN pair : reading \in Range(pair[i])
  <2>. HIDE DEF pair
  <2>. QED
    BY <1>7, FlatFacts
<1>10. ASSUME NEW k \in DOMAIN FlattenSeq(pair)
       PROVE  Range(FlattenSeq(pair)[k]) \subseteq Range(FlattenSeq(segments))
  <2> DEFINE reading == FlattenSeq(pair)[k]
  <2>1. reading \in Range(FlattenSeq(pair))
    BY <1>10 DEF Range
  <2>2. PICK i \in DOMAIN pair : reading \in Range(pair[i])
    <3>. HIDE DEF reading, pair
    <3>. QED
      BY <1>9, <2>1
  <2>3. i \in 1 .. n /\ pair[i] = <<segments[i], withoutOfficeTail(segments[i])>>
    BY <1>4, <2>2
  <2>4. reading = segments[i] \/ reading = withoutOfficeTail(segments[i])
    <3>. HIDE DEF reading, pair
    <3>. QED
      BY <2>2, <2>3 DEF Range
  <2>5. Range(reading) \subseteq Range(segments[i])
    <3>. HIDE DEF reading, pair
    <3>. QED
      BY <1>6, <2>3, <2>4
  <2>. HIDE DEF reading
  <2>. QED
    BY <1>4, <1>8, <2>3, <2>5 DEF reading
<1>. HIDE DEF pair
<1>. QED
  BY <1>2, <1>8, <1>9, <1>10 DEF IsAddress

(* What matches has a word that the letter has, or nearly has.             *)
IsFit(match, phrase, addr) ==
    /\ match.share \in Nat
    /\ match.kind = "NONE" => match.share = 0
    /\ match.kind # "NONE" => ShareWord(phrase, addr.tokens)

LEMMA MatchFacts ==
    ASSUME NEW kind \in DOMAIN FACTOR, NEW coverage \in Nat
    PROVE  Match(kind, coverage).kind = kind /\ kind # "NONE" /\ Match(kind, coverage).share \in Nat
<1>1. FACTOR[kind] \in Nat /\ kind # "NONE"
  BY DEF FACTOR
<1>2. Match(kind, coverage).kind = kind /\ Match(kind, coverage).share = (FACTOR[kind] * coverage) \div 100
  BY DEF Match
<1> DEFINE f == FACTOR[kind]
<1>. HIDE DEF f
<1>3. f * coverage \in Nat
  BY <1>1 DEF f
<1>4. (f * coverage) \div 100 \in Nat
  BY <1>3
<1>. QED
  BY <1>1, <1>2, <1>4 DEF f

LEMMA MatchFits ==
    ASSUME NEW kind \in DOMAIN FACTOR, NEW coverage \in Nat, NEW phrase, NEW addr, ShareWord(phrase, addr.tokens)
    PROVE  IsFit(Match(kind, coverage), phrase, addr)
BY MatchFacts DEF IsFit

LEMMA NoMatchFits == ASSUME NEW phrase, NEW addr PROVE IsFit(NoMatch, phrase, addr)
BY DEF IsFit, NoMatch

(* A row of words, read from some place on, that is nearly the phrase.     *)
LEMMA RowIsAlike ==
    ASSUME NEW X, NEW tokens \in Seq(X), NEW Y, NEW phrase \in Seq(Y), phrase # <<>>,
           NEW s \in 1 .. (Len(tokens) - Len(phrase) + 1), AlikeAt(tokens, phrase, s)
    PROVE  ShareWord(phrase, tokens)
<1>1. Len(tokens) \in Nat /\ Len(phrase) \in Nat /\ Len(phrase) # 0 /\ DOMAIN phrase = 1 .. Len(phrase)
      /\ DOMAIN tokens = 1 .. Len(tokens)
  OBVIOUS
<1>2. 1 \in DOMAIN phrase /\ s \in DOMAIN tokens /\ s + 1 - 1 = s
  BY <1>1
<1>3. Similar(phrase[1], tokens[s])
  BY <1>2 DEF AlikeAt
<1>. QED
  BY <1>2, <1>3 DEF ShareWord, Range

LEMMA SegmentFits ==
    ASSUME NEW addr, IsAddress(addr), NEW Y, NEW phrase \in Seq(Y), phrase # <<>>
    PROVE  IsFit(SegmentMatch(phrase, addr), phrase, addr)
<1> DEFINE Fits(i) == Len(addr.readings[i]) = Len(phrase) /\ AlikeAt(addr.readings[i], phrase, 1)
           fitting == {i \in DOMAIN addr.readings : Fits(i)}
           first == CHOOSE i \in fitting : \A k \in fitting : i <= k
           kind == IF addr.readings[first] = phrase THEN "SEGMENT_EXACT" ELSE "SEGMENT_FUZZY"
<1>1. SegmentMatch(phrase, addr) = IF fitting = {} THEN NoMatch ELSE Match(kind, 100)
  BY DEF SegmentMatch
<1>2. kind \in DOMAIN FACTOR /\ 100 \in Nat
  BY DEF FACTOR
<1>. HIDE DEF kind
<1>3. ASSUME NEW i \in fitting PROVE ShareWord(phrase, addr.tokens)
  <2>1. PICK X : /\ addr.tokens \in Seq(X) /\ addr.readings \in Seq(Seq(X))
                 /\ \A k \in DOMAIN addr.readings : Range(addr.readings[k]) \subseteq Range(addr.tokens)
    BY DEF IsAddress
  <2> DEFINE r == addr.readings[i]
  <2>2. i \in DOMAIN addr.readings /\ Len(r) = Len(phrase) /\ AlikeAt(r, phrase, 1)
    OBVIOUS
  <2>3. r \in Seq(X) /\ Range(r) \subseteq Range(addr.tokens)
    BY <2>1, <2>2
  <2>. HIDE DEF r
  <2>4. 1 \in 1 .. (Len(r) - Len(phrase) + 1)
    BY <2>2, <2>3
  <2>5. ShareWord(phrase, r)
    BY <2>2, <2>3, <2>4, RowIsAlike
  <2>. QED
    BY <2>3, <2>5 DEF ShareWord
<1>. HIDE DEF fitting
<1>4. CASE fitting = {}
  BY <1>1, <1>4, NoMatchFits
<1>5. CASE fitting # {}
  BY <1>1, <1>2, <1>3, <1>5, MatchFits
<1>. QED
  BY <1>4, <1>5

LEMMA TextFits ==
    ASSUME NEW addr, IsAddress(addr), NEW Y, NEW phrase \in Seq(Y), phrase # <<>>,
           NEW index, FitsTable(index), MostRows \in Nat
    PROVE  IsFit(TextMatch(phrase, addr, index, bagCoverage(phrase, addr.tokens, index)), phrase, addr)
<1> DEFINE tokens == addr.tokens
           bag == bagCoverage(phrase, tokens, index)
           starts == PhraseStarts(tokens, phrase)
           first == CHOOSE s \in starts : \A k \in starts : s <= k
           inOneSegment == \E i \in DOMAIN addr.segments : bagCoverage(phrase, addr.segments[i], index).allPresent
           missing == \E t \in Range(phrase) : Weight(index, t) >= INFORMATIVE /\ \A a \in Range(tokens) : ~Similar(t, a)
           kind == IF SubSeq(tokens, first, first + Len(phrase) - 1) = phrase THEN "PHRASE" ELSE "FUZZY_PHRASE"
           together == bag.allPresent /\ inOneSegment
           partly == bag.coverage >= 50 /\ ~missing
           m == TextMatch(phrase, addr, index, bag)
<1>1. m = IF starts # {} THEN Match(kind, 100)
          ELSE IF together THEN Match("TOKENS", bag.coverage)
          ELSE IF partly THEN Match("PARTIAL", bag.coverage)
          ELSE NoMatch
  BY DEF TextMatch
<1>2. {kind, "TOKENS", "PARTIAL"} \subseteq DOMAIN FACTOR /\ 100 \in Nat
  BY DEF FACTOR
<1>3. /\ bag.coverage \in Nat
      /\ bag.coverage # 0 => ShareWord(phrase, tokens)
      /\ bag.allPresent => ShareWord(phrase, tokens)
  BY CoverageFacts
<1>4. ASSUME NEW s \in starts PROVE ShareWord(phrase, tokens)
  <2>1. PICK X : tokens \in Seq(X)
    BY DEF IsAddress
  <2>2. s \in 1 .. (Len(tokens) - Len(phrase) + 1) /\ AlikeAt(tokens, phrase, s)
    BY DEF PhraseStarts
  <2>. QED
    BY <2>1, <2>2, RowIsAlike
<1>5. together => ShareWord(phrase, tokens)
  BY <1>3
<1>6. partly => ShareWord(phrase, tokens)
  <2>. HIDE DEF bag
  <2>. QED
    BY <1>3
<1>. HIDE DEF kind, bag, starts, together, partly, m
<1>7. \/ starts # {} /\ m = Match(kind, 100)
      \/ together /\ m = Match("TOKENS", bag.coverage)
      \/ partly /\ m = Match("PARTIAL", bag.coverage)
      \/ m = NoMatch
  BY <1>1
<1>8. IsFit(m, phrase, addr)
  <2>1. CASE starts # {} /\ m = Match(kind, 100)
    BY <1>2, <1>4, <2>1, MatchFits
  <2>2. CASE together /\ m = Match("TOKENS", bag.coverage)
    BY <1>2, <1>3, <1>5, <2>2, MatchFits
  <2>3. CASE partly /\ m = Match("PARTIAL", bag.coverage)
    BY <1>2, <1>3, <1>6, <2>3, MatchFits
  <2>4. CASE m = NoMatch
    BY <2>4, NoMatchFits
  <2>. QED
    BY <1>7, <2>1, <2>2, <2>3, <2>4
<1>. QED
  BY <1>8 DEF m, bag

LEMMA FieldFits ==
    ASSUME NEW addr, IsAddress(addr), NEW Y, NEW phrase \in Seq(Y), NEW index, FitsTable(index), MostRows \in Nat
    PROVE  IsFit(matchField(phrase, addr, index), phrase, addr)
<1>1. CASE phrase = <<>>
  <2>1. matchField(phrase, addr, index) = NoMatch
    BY <1>1 DEF matchField
  <2>. QED
    BY <2>1, NoMatchFits
<1>2. CASE phrase # <<>>
  <2> DEFINE a == SegmentMatch(phrase, addr)
             b == TextMatch(phrase, addr, index, bagCoverage(phrase, addr.tokens, index))
  <2>1. matchField(phrase, addr, index) = IF a # NoMatch THEN a ELSE b
    BY <1>2 DEF matchField
  <2>2. IsFit(a, phrase, addr) /\ IsFit(b, phrase, addr)
    BY <1>2, SegmentFits, TextFits
  <2>. HIDE DEF a, b
  <2>. QED
    BY <2>1, <2>2
<1>. QED
  BY <1>1, <1>2

-----------------------------------------------------------------------------
(* The rows of a directory *)

IsListing(entries) == entries \subseteq Beats \X Records \X Names

LEMMA MostIsNumber ==
    LET P == Beats \X (Records \cup ({Empty} \X Localities)) IN IsFiniteSet(P) /\ MostRows \in Nat
<1> DEFINE P == Beats \X (Records \cup ({Empty} \X Localities))
<1>1. IsFiniteSet(Beats) /\ IsFiniteSet(Localities) /\ IsFiniteSet(Areas)
  BY WordsAssumption DEF WordsAssumption
<1>2. IsFiniteSet({Empty}) /\ IsFiniteSet(Areas \cup {Empty})
  BY <1>1, FS_Singleton, FS_Union
<1>3. IsFiniteSet(Records) /\ IsFiniteSet({Empty} \X Localities)
  BY <1>1, <1>2, FS_Product DEF Records
<1>4. IsFiniteSet(Records \cup ({Empty} \X Localities))
  BY <1>3, FS_Union
<1>5. IsFiniteSet(P)
  BY <1>1, <1>4, FS_Product
<1>6. MostRows \in Nat
  BY <1>5, FS_CardinalityType DEF MostRows
<1>. QED
  BY <1>5, <1>6

(* The phrases of a row.                                                   *)
IsRow(d) == IsPhrase(d.locality) /\ IsPhrase(d.area) /\ IsPhrase(d.name)

LEMMA RowsAre ==
    ASSUME NEW entries, IsListing(entries)
    PROVE  \A d \in RowsOf(entries) : IsRow(d)
<1> SUFFICES ASSUME NEW e \in entries
             PROVE  IsRow([beat |-> e[1], locality |-> Words[e[2][1]], area |-> Words[e[2][2]], name |-> Words[e[3]]])
  BY DEF RowsOf
<1>1. e[2][1] \in Localities /\ e[2][2] \in Areas \cup {Empty} /\ e[3] \in Localities \cup {Empty}
  BY DEF IsListing, Records, Names
<1>2. DOMAIN Words = Localities \cup Areas \cup {Empty} /\ \A p \in DOMAIN Words : IsPhrase(Words[p])
  BY OfficeAssumption, WordsAssumption DEF OfficeAssumption, WordsAssumption
<1>. QED
  BY <1>1, <1>2 DEF IsRow

(* An entry of the index has the words of a row, and every row has one.    *)
LEMMA IndexIs ==
    ASSUME NEW listed, \A d \in listed : IsRow(d), NEW e \in buildIndex(listed)
    PROVE  /\ e.locality # <<>>
           /\ \E d, phrase : /\ d \in listed /\ d.beat = e.beat /\ phrase \in {d.locality, d.name}
                             /\ e.locality = localityTokens(phrase)
                             /\ IsPhrase(phrase) /\ IsPhrase(d.area) /\ e.area \in {d.area, <<>>}
<1> DEFINE Own(d) == [beat |-> d.beat, locality |-> localityTokens(d.locality), area |-> d.area, byName |-> FALSE]
           Named(d) == [beat |-> d.beat, locality |-> localityTokens(d.name), area |-> <<>>, byName |-> TRUE]
<1>1. e.locality # <<>> /\ \E d \in listed : e = Own(d) \/ e = Named(d)
  BY DEF buildIndex
<1>2. PICK d \in listed : e = Own(d) \/ e = Named(d)
  BY <1>1
<1>3. IsPhrase(d.locality) /\ IsPhrase(d.area) /\ IsPhrase(d.name)
  BY DEF IsRow
<1>4. CASE e = Own(d)
  <2>1. e.beat = d.beat /\ e.locality = localityTokens(d.locality) /\ e.area = d.area
    BY <1>4
  <2>. QED
    BY <1>1, <1>3, <2>1
<1>5. CASE e = Named(d)
  <2>1. e.beat = d.beat /\ e.locality = localityTokens(d.name) /\ e.area = <<>>
    BY <1>5
  <2>. QED
    BY <1>1, <1>3, <2>1
<1>. QED
  BY <1>2, <1>4, <1>5

LEMMA RowIsIndexed ==
    ASSUME NEW listed, \A d \in listed : IsRow(d), NEW d \in listed, NEW phrase \in {d.locality, d.name},
           localityTokens(phrase) # <<>>
    PROVE  \E e \in buildIndex(listed) : /\ e.beat = d.beat /\ e.locality = localityTokens(phrase)
                                         /\ IsPhrase(e.area)
<1> DEFINE own == [beat |-> d.beat, locality |-> localityTokens(d.locality), area |-> d.area, byName |-> FALSE]
           other == [beat |-> d.beat, locality |-> localityTokens(d.name), area |-> <<>>, byName |-> TRUE]
<1>1. IsPhrase(d.locality) /\ IsPhrase(d.area) /\ IsPhrase(d.name) /\ IsPhrase(<<>>)
  BY DEF IsRow, IsPhrase
<1>2. phrase # <<>>
  <2>1. localityTokens(<<>>) = <<>>
    <3>1. <<>> \in Seq({})
      OBVIOUS
    <3>2. localityTokens(<<>>) \in Seq({})
      BY <3>1, LocalityIs
    <3>. QED
      BY <3>2
  <2>. QED
    BY <2>1
<1>3. CASE phrase = d.locality
  <2>1. own.locality # <<>> /\ own.beat = d.beat /\ own.locality = localityTokens(phrase) /\ own.area = d.area
    BY <1>3
  <2>2. own \in buildIndex(listed)
    BY <2>1 DEF buildIndex
  <2>. HIDE DEF own
  <2>. QED
    BY <1>1, <2>1, <2>2
<1>4. CASE phrase = d.name
  <2>1. other.locality # <<>> /\ other.beat = d.beat /\ other.locality = localityTokens(phrase) /\ other.area = <<>>
        /\ d \in {n \in listed : n.name # <<>>}
    BY <1>2, <1>4
  <2>2. other \in buildIndex(listed)
    BY <2>1 DEF buildIndex
  <2>. HIDE DEF other
  <2>. QED
    BY <1>1, <2>1, <2>2
<1>. QED
  BY <1>3, <1>4

(* The index has a row for each record or name of a beat at most.          *)
LEMMA IndexFits ==
    ASSUME NEW entries, IsListing(entries)
    PROVE  FitsTable(buildIndex(RowsOf(entries)))
<1> DEFINE P == Beats \X (Records \cup ({Empty} \X Localities))
           Own(b, r) == [beat |-> b, locality |-> localityTokens(Words[r[1]]), area |-> Words[r[2]], byName |-> FALSE]
           Named(b, n) == [beat |-> b, locality |-> localityTokens(Words[n]), area |-> <<>>, byName |-> TRUE]
           f == [w \in P |-> IF w[2] \in Records THEN Own(w[1], w[2]) ELSE Named(w[1], w[2][2])]
           index == buildIndex(RowsOf(entries))
<1>1. IsFiniteSet(P) /\ MostRows \in Nat /\ MostRows = Cardinality(P)
  BY MostIsNumber DEF MostRows
<1>2. Empty \notin Localities /\ Words[Empty] = <<>>
  BY WordsAssumption DEF WordsAssumption
<1>3. ASSUME NEW b \in Beats, NEW r \in Records PROVE Own(b, r) \in Range(f)
  <2>1. <<b, r>> \in P /\ f[<<b, r>>] = Own(b, r)
    BY <1>3
  <2>. HIDE DEF f, P, Own
  <2>2. DOMAIN f = P
    BY DEF f
  <2>. QED
    BY <2>1, <2>2 DEF Range
<1>4. ASSUME NEW b \in Beats, NEW n \in Localities PROVE Named(b, n) \in Range(f)
  <2> DEFINE w == <<b, <<Empty, n>>>>
  <2>1. <<Empty, n>> \notin Records
    BY <1>2 DEF Records
  <2>2. w \in P /\ f[w] = Named(b, n)
    BY <2>1
  <2>. HIDE DEF f, P, Named, w
  <2>3. DOMAIN f = P
    BY DEF f
  <2>. QED
    BY <2>2, <2>3 DEF Range
<1>5. index \subseteq Range(f)
  <2>. HIDE DEF f, P
  <2> DEFINE row(e) == [beat |-> e[1], locality |-> Words[e[2][1]], area |-> Words[e[2][2]], name |-> Words[e[3]]]
  <2> SUFFICES ASSUME NEW i \in index PROVE i \in Range(f)
    OBVIOUS
  <2>1. PICK d \in RowsOf(entries) :
             \/ i = [beat |-> d.beat, locality |-> localityTokens(d.locality), area |-> d.area, byName |-> FALSE]
             \/ /\ d.name # <<>>
                /\ i = [beat |-> d.beat, locality |-> localityTokens(d.name), area |-> <<>>, byName |-> TRUE]
    BY DEF buildIndex
  <2>2. PICK e \in entries : d = row(e)
    BY DEF RowsOf
  <2>3. e[1] \in Beats /\ e[2] \in Records /\ e[3] \in Names
    BY DEF IsListing
  <2>4. d.beat = e[1] /\ d.locality = Words[e[2][1]] /\ d.area = Words[e[2][2]] /\ d.name = Words[e[3]]
    BY <2>2
  <2>5. i = Own(e[1], e[2]) \/ (d.name # <<>> /\ i = Named(e[1], e[3]))
    BY <2>1, <2>4
  <2>6. d.name # <<>> => e[3] \in Localities
    BY <1>2, <2>3, <2>4 DEF Names
  <2>. HIDE DEF Own, Named
  <2>. QED
    BY <1>3, <1>4, <2>3, <2>5, <2>6
<1>6. IsFiniteSet(Range(f)) /\ Cardinality(Range(f)) <= Cardinality(P)
  <2>1. DOMAIN f = P
    OBVIOUS
  <2>. HIDE DEF f, P
  <2>2. f = [w \in P |-> f[w]]
    BY <2>1 DEF f
  <2>3. f \in [P -> Range(f)] /\ \A v \in Range(f) : \E w \in P : f[w] = v
    BY <2>1, <2>2 DEF Range
  <2>4. f \in Surjection(P, Range(f))
    BY <2>3 DEF Surjection
  <2>. QED
    BY <1>1, <2>4, FS_Surjection
<1>. HIDE DEF f, P, index
<1>7. IsFiniteSet(index) /\ Cardinality(index) <= Cardinality(Range(f))
  BY <1>5, <1>6, FS_Subset
<1>8. Cardinality(index) \in Nat /\ Cardinality(Range(f)) \in Nat
  BY <1>6, <1>7, FS_CardinalityType
<1>9. Cardinality(index) <= MostRows
  BY <1>1, <1>6, <1>7, <1>8
<1>. QED
  BY <1>7, <1>8, <1>9 DEF FitsTable, index


-----------------------------------------------------------------------------
(* The points of a row, and the best row of a beat.                        *)

LEMMA FieldPointsAre == ASSUME NEW locality, NEW field PROVE FieldPoints(locality, field) \in Nat
<1>1. FieldPoints(locality, field) \in {0, 100 * LOCALITY_FIELD, 80 * LOCALITY_FIELD}
  BY DEF FieldPoints
<1> QED
  BY <1>1 DEF LOCALITY_FIELD

LEMMA RoundedIs ==
    ASSUME NEW p \in Nat, NEW q \in Nat, p <= q
    PROVE  Rounded(p) \in 0 .. 100 /\ Rounded(q) \in 0 .. 100 /\ Rounded(p) <= Rounded(q)
BY DEF Rounded

(* What a row's points are, for rows whose words are a phrase.             *)
LEMMA ScoreIs ==
    ASSUME NEW addr, IsAddress(addr), NEW index, FitsTable(index), MostRows \in Nat, NEW e,
           NEW Y, e.locality \in Seq(Y), IsPhrase(e.area)
    PROVE  LET m == matchField(e.locality, addr, index)
               points == LOCALITY * m.share + FurtherPoints(e, addr, index)
           IN  /\ points \in Nat
               /\ AreaPoints(e, matchField(e.area, addr, index)) \in Nat
               /\ m.share \in Nat
               /\ \A s \in ScoreOf(e, m, addr, index) : s = [row |-> e, kind |-> m.kind, score |-> Rounded(points)]
<1> DEFINE m == matchField(e.locality, addr, index)
           am == matchField(e.area, addr, index)
           field == FieldPoints(e.locality, addr.field)
           area == AreaPoints(e, am)
           office == IF addr.office THEN 100 * POST_OFFICE ELSE 0
           pincode == IF addr.pincode THEN 100 * PINCODE ELSE 0
           further == FurtherPoints(e, addr, index)
<1>1. m.share \in Nat
  BY FieldFits DEF IsFit
<1>2. am.share \in Nat
  <2>1. e.area \in Seq(Range(e.area))
    BY DEF IsPhrase
  <2> QED
    BY <2>1, FieldFits DEF IsFit
<1>3. area \in Nat
  <2>1. area \in {0, MAIN_AREA * am.share}
    BY DEF AreaPoints
  <2> HIDE DEF area, am
  <2> QED
    BY <2>1, <1>2 DEF MAIN_AREA
<1>4. field \in Nat
  BY FieldPointsAre
<1>5. office \in Nat /\ pincode \in Nat
  BY DEF POST_OFFICE, PINCODE
<1>6. further = field + area + office + pincode
  BY DEF FurtherPoints
<1>7. \A s \in ScoreOf(e, m, addr, index) :
        s = [row |-> e, kind |-> m.kind, score |-> Rounded(LOCALITY * m.share + further)]
  <2> HIDE DEF m, further
  <2> QED
    BY DEF ScoreOf, further
<1> HIDE DEF m, am, field, area, office, pincode, further
<1>8. LOCALITY * m.share + further \in Nat
  BY <1>1, <1>3, <1>4, <1>5, <1>6 DEF LOCALITY
<1> QED
  BY <1>1, <1>3, <1>7, <1>8 DEF m, area, am, further

(* The rows of a locality, and the points that are not for the locality.   *)
Phrased(e) == IsPhrase(e.area) /\ \E Y : e.locality \in Seq(Y)
ByItsWords(e, addr, index) == AreaPoints(e, matchField(e.area, addr, index)) = 0
ScoresOf(e, addr, index) == ScoreOf(e, matchField(e.locality, addr, index), addr, index)
Equals(s, t) ==     \* t has as many points as s, and as good a match
    /\ t.row.locality = s.row.locality /\ t.kind = s.kind /\ s.score <= t.score

(* A row with the same locality gets as many points as one whose main area *)
(* the address does not mention.                                           *)
LEMMA ScoreGrows ==
    ASSUME NEW addr, IsAddress(addr), NEW index, FitsTable(index), MostRows \in Nat,
           NEW e, NEW f, Phrased(e), Phrased(f), f.locality = e.locality, ByItsWords(e, addr, index),
           NEW s \in ScoresOf(e, addr, index)
    PROVE  \E t \in ScoresOf(f, addr, index) : t.row = f /\ Equals(s, t)
<1>0. PICK Y : e.locality \in Seq(Y)
  BY DEF Phrased
<1> DEFINE m == matchField(e.locality, addr, index)
           P(g) == LOCALITY * m.share + FurtherPoints(g, addr, index)
           p == P(e)
           q == P(f)
           t == [row |-> f, kind |-> m.kind, score |-> Rounded(q)]
<1>1. p \in Nat /\ m.share \in Nat /\ s = [row |-> e, kind |-> m.kind, score |-> Rounded(p)]
  <2>1. e.locality \in Seq(Y) /\ IsPhrase(e.area) /\ s \in ScoreOf(e, m, addr, index)
    BY <1>0 DEF Phrased, ScoresOf
  <2>. QED
    BY <2>1, ScoreIs
<1>2. f.locality \in Seq(Y) /\ matchField(f.locality, addr, index) = m
  BY <1>0
<1>3. q \in Nat /\ AreaPoints(f, matchField(f.area, addr, index)) \in Nat
  <2>1. IsPhrase(f.area)
    BY DEF Phrased
  <2>. QED
    BY <1>2, <2>1, ScoreIs
<1>4. p <= q
  <2> DEFINE fe == FieldPoints(e.locality, addr.field)
             af == AreaPoints(f, matchField(f.area, addr, index))
             ae == AreaPoints(e, matchField(e.area, addr, index))
             office == IF addr.office THEN 100 * POST_OFFICE ELSE 0
             pincode == IF addr.pincode THEN 100 * PINCODE ELSE 0
             loc == LOCALITY * m.share
  <2>1. p = loc + (fe + ae + office + pincode)
    BY DEF FurtherPoints
  <2>2. q = loc + (fe + af + office + pincode)
    BY DEF FurtherPoints
  <2>3. fe \in Nat
    BY FieldPointsAre
  <2>4. office \in Nat /\ pincode \in Nat
    BY DEF POST_OFFICE, PINCODE
  <2>5. loc \in Nat
    BY <1>1 DEF LOCALITY
  <2>6. ae = 0 /\ af \in Nat
    BY <1>3 DEF ByItsWords
  <2> HIDE DEF fe, af, ae, office, pincode, loc, p, q
  <2> QED
    BY <2>1, <2>2, <2>3, <2>4, <2>5, <2>6
<1>5. t \in ScoresOf(f, addr, index)
  <2>1. ~(m.kind = "NONE" \/ LOCALITY * m.share < 1500)
    BY DEF ScoresOf, ScoreOf
  <2>2. ScoreOf(f, m, addr, index) = {t}
    BY <2>1 DEF ScoreOf
  <2> QED
    BY <2>2, <1>2 DEF ScoresOf
<1> HIDE DEF p, q, P
<1>6. Rounded(p) \in 0 .. 100 /\ Rounded(q) \in 0 .. 100 /\ Rounded(p) <= Rounded(q)
  BY <1>1, <1>3, <1>4, RoundedIs
<1>7. t.row = f /\ Equals(s, t)
  BY <1>1, <1>6 DEF Equals
<1> QED
  BY <1>5, <1>7

(* BestPerBeat: a row counts unless it is part of a longer locality that   *)
(* matched; its kind and its locality tell.                                *)
IsKept(kind, locality, scored) ==
    \/ kind \notin {"PHRASE", "FUZZY_PHRASE", "SEGMENT_FUZZY"}
    \/ \A o \in {s \in scored : s.kind \in {"SEGMENT_EXACT", "PHRASE"}} :
          ~containsPhrase(o.row.locality, locality)

LEMMA BestPerBeatIs ==
    ASSUME NEW scored, \A s \in scored : s.score \in 0 .. 100
    PROVE  /\ \A c \in BestPerBeat(scored) :
                /\ c.score \in 0 .. 100
                /\ \E s \in scored : /\ IsKept(s.kind, s.row.locality, scored)
                                     /\ s.row.beat = c.beat /\ s.score = c.score
           /\ \A s \in scored : IsKept(s.kind, s.row.locality, scored) =>
                \E c \in BestPerBeat(scored) : c.beat = s.row.beat /\ s.score <= c.score
<1> DEFINE kept == {s \in scored : IsKept(s.kind, s.row.locality, scored)}
           Of(b) == {s.score : s \in {k \in kept : k.row.beat = b}}
           Tops(b, n) == \A s \in kept : s.row.beat = b => s.score <= n
           Top(b) == CHOOSE n \in Of(b) : Tops(b, n)
           served == {s.row.beat : s \in kept}
<1>1. BestPerBeat(scored) = {[beat |-> b, score |-> Top(b)] : b \in served}
  BY DEF BestPerBeat, IsKept
<1>2. ASSUME NEW b \in served PROVE Top(b) \in Of(b) /\ Tops(b, Top(b))
  <2>1. Of(b) \in SUBSET (0 .. 100) /\ Of(b) # {}
    OBVIOUS
  <2>2. \E n \in Of(b) : \A k \in Of(b) : k <= n
    <3> HIDE DEF Of
    <3> QED
      BY <2>1, HasGreatest
  <2>3. \E n \in Of(b) : Tops(b, n)
    BY <2>2
  <2> HIDE DEF Of, Tops
  <2> QED
    BY <2>3
<1> HIDE DEF Top
<1>3. ASSUME NEW c \in BestPerBeat(scored)
      PROVE  /\ c.score \in 0 .. 100
             /\ \E s \in scored : /\ IsKept(s.kind, s.row.locality, scored)
                                  /\ s.row.beat = c.beat /\ s.score = c.score
  <2>1. PICK b \in served : c = [beat |-> b, score |-> Top(b)]
    BY <1>1
  <2>2. PICK s \in kept : s.row.beat = b /\ s.score = Top(b)
    BY <1>2
  <2> QED
    BY <2>1, <2>2
<1>4. ASSUME NEW s \in scored, IsKept(s.kind, s.row.locality, scored)
      PROVE  \E c \in BestPerBeat(scored) : c.beat = s.row.beat /\ s.score <= c.score
  <2> DEFINE b == s.row.beat
  <2>1. s \in kept /\ b \in served
    BY <1>4
  <2>2. [beat |-> b, score |-> Top(b)] \in BestPerBeat(scored)
    BY <1>1, <2>1
  <2>3. s.score <= Top(b)
    BY <1>2, <2>1
  <2> QED
    BY <2>2, <2>3
<1> QED
  BY <1>3, <1>4

LEMMA BestIs ==
    ASSUME NEW candidates, candidates # {}, \A c \in candidates : c.score \in 0 .. 100
    PROVE  /\ Best(candidates) \in candidates
           /\ \A o \in candidates : o.score <= Best(candidates).score
<1> DEFINE scores == {c.score : c \in candidates}
<1>1. scores \in SUBSET (0 .. 100) /\ scores # {}
  OBVIOUS
<1>2. \E n \in scores : \A k \in scores : k <= n
  <2> HIDE DEF scores
  <2> QED
    BY <1>1, HasGreatest
<1>3. \E c \in candidates : \A o \in candidates : o.score <= c.score
  BY <1>2
<1> QED
  BY <1>3 DEF Best

-----------------------------------------------------------------------------
(* A locality that is another beat's too is not guessed                    *)

(* The candidates of an address, when there are any.                       *)
LEMMA ScoredAre ==
    ASSUME NEW addr, IsAddress(addr), NEW entries, IsListing(entries)
    PROVE  LET index == buildIndex(RowsOf(entries))
           IN  \A s \in Scored(addr, index) :
                  /\ s.score \in 0 .. 100
                  /\ \E e \in index : s.row = e /\ Phrased(e) /\ s \in ScoresOf(e, addr, index)
<1> DEFINE index == buildIndex(RowsOf(entries))
<1>1. FitsTable(index) /\ MostRows \in Nat
  BY IndexFits, MostIsNumber
<1> SUFFICES ASSUME NEW e \in index, NEW s \in ScoreOf(e, matchField(e.locality, addr, index), addr, index)
             PROVE  s.row = e /\ s.score \in 0 .. 100 /\ Phrased(e)
  BY DEF Scored, ScoresOf
<1>2. PICK d, phrase :
        d \in RowsOf(entries) /\ IsPhrase(phrase) /\ IsPhrase(d.area) /\ e.locality = localityTokens(phrase) /\ e.area \in {d.area, <<>>}
  BY RowsAre, IndexIs
<1>3. e.locality \in Seq(Range(phrase))
  BY <1>2, LocalityIs DEF IsPhrase
<1>4. IsPhrase(<<>>)
  BY DEF IsPhrase
<1>5. IsPhrase(e.area)
  BY <1>2, <1>4
<1> DEFINE m == matchField(e.locality, addr, index)
           p == LOCALITY * m.share + FurtherPoints(e, addr, index)
<1> HIDE DEF index
<1>6. p \in Nat /\ s = [row |-> e, kind |-> m.kind, score |-> Rounded(p)]
  BY <1>1, <1>3, <1>5, ScoreIs
<1> HIDE DEF p
<1>7. Rounded(p) \in 0 .. 100
  BY <1>6, RoundedIs
<1>8. Phrased(e)
  BY <1>3, <1>5 DEF Phrased
<1>. QED
  BY <1>6, <1>7, <1>8

(* The letter says no more of beat w than of o.                            *)
NoMore(addr, w, o, listed) ==
    /\ Mentioned(addr, w, listed) \subseteq Mentioned(addr, o, listed)
    /\ \A d \in listed : d.beat = w => ~Mentions(addr, d.area)

(* A row of w that matches by its locality alone is outdone, or equalled,  *)
(* by a row of a beat that has all localities of w in the letter.          *)
LEMMA SharedRow ==
    ASSUME NEW addr, IsAddress(addr), NEW entries, IsListing(entries), NEW w, NEW o,
           NoMore(addr, w, o, RowsOf(entries)),
           NEW s \in Scored(addr, buildIndex(RowsOf(entries))), s.row.beat = w
    PROVE  \E t \in Scored(addr, buildIndex(RowsOf(entries))) : t.row.beat = o /\ Equals(s, t)
<1> DEFINE listed == RowsOf(entries)
           index == buildIndex(listed)
<1>1. FitsTable(index) /\ MostRows \in Nat
  BY IndexFits, MostIsNumber
<1>2. \A d \in listed : IsRow(d)
  BY RowsAre
<1>3. PICK e \in index : s.row = e /\ Phrased(e) /\ s \in ScoresOf(e, addr, index)
  BY ScoredAre
<1>. HIDE DEF listed
<1>4. PICK d, phrase :
        /\ d \in listed /\ d.beat = e.beat /\ phrase \in {d.locality, d.name} /\ e.locality = localityTokens(phrase)
        /\ IsPhrase(phrase) /\ IsPhrase(d.area) /\ e.area \in {d.area, <<>>} /\ e.locality # <<>>
  BY <1>2, IndexIs
<1>5. e.locality \in Seq(Range(phrase)) /\ Range(e.locality) \subseteq Range(phrase)
  BY <1>4, LocalityIs DEF IsPhrase
<1>6. IsPhrase(e.area)
  BY <1>3 DEF Phrased
<1>7. Mentions(addr, phrase)
  <2>1. matchField(e.locality, addr, index).kind # "NONE"
    BY <1>3 DEF ScoresOf, ScoreOf
  <2>2. IsFit(matchField(e.locality, addr, index), e.locality, addr)
    BY <1>1, <1>5, FieldFits
  <2>3. ShareWord(e.locality, addr.tokens)
    BY <2>1, <2>2 DEF IsFit
  <2>. QED
    BY <2>3, <1>5 DEF ShareWord, Mentions
<1>8. phrase \in Mentioned(addr, o, listed)
  <2>1. d.beat = w
    BY <1>3, <1>4
  <2>2. phrase \in Mentioned(addr, w, listed)
    BY <2>1, <1>4, <1>7 DEF Mentioned
  <2>. QED
    BY <2>2 DEF listed, NoMore
<1>9. PICK c \in listed : c.beat = o /\ phrase \in {c.locality, c.name}
  BY <1>8 DEF Mentioned
<1>10. PICK f \in index : f.beat = o /\ f.locality = e.locality /\ IsPhrase(f.area)
  <2>1. localityTokens(phrase) # <<>>
    BY <1>4
  <2>. QED
    BY <2>1, <1>2, <1>4, <1>9, RowIsIndexed
<1>11. ByItsWords(e, addr, index)
  <2> DEFINE am == matchField(e.area, addr, index)
  <2>1. e.area = <<>> \/ e.area = d.area
    BY <1>4
  <2>2. CASE e.area = <<>>
    BY <2>2 DEF ByItsWords, AreaPoints
  <2>3. CASE e.area = d.area
    <3>1. ~Mentions(addr, e.area)
      BY <2>3, <1>3, <1>4 DEF listed, NoMore
    <3>2. ~ShareWord(e.area, addr.tokens)
      BY <3>1 DEF Mentions, ShareWord
    <3>3. e.area \in Seq(Range(e.area))
      BY <1>6 DEF IsPhrase
    <3>4. IsFit(am, e.area, addr)
      BY <3>3, <1>1, FieldFits
    <3>5. am.share = 0
      BY <3>2, <3>4 DEF IsFit
    <3>. HIDE DEF am
    <3>6. AreaPoints(e, am) = 0
      BY <3>5 DEF AreaPoints, MAIN_AREA
    <3>. QED
      BY <3>6 DEF am, ByItsWords
  <2>. QED
    BY <2>1, <2>2, <2>3
<1>. HIDE DEF index
<1>12. PICK t \in ScoresOf(f, addr, index) : t.row = f /\ Equals(s, t)
  <2>1. s \in ScoresOf(e, addr, index) /\ f.locality = e.locality /\ Phrased(e) /\ Phrased(f)
    BY <1>3, <1>5, <1>10 DEF Phrased
  <2>. QED
    BY <1>1, <1>11, <2>1, ScoreGrows
<1>13. t \in Scored(addr, index)
  BY <1>10, <1>12 DEF Scored, ScoresOf
<1>. QED
  BY <1>10, <1>12, <1>13 DEF index, listed

LEMMA NotGuessed ==
    ASSUME NEW addr, IsAddress(addr), NEW entries, IsListing(entries)
    PROVE  ~GuessesAmong(addr, RowsOf(entries))
<1> DEFINE listed == RowsOf(entries)
           index == buildIndex(listed)
           scored == Scored(addr, index)
           candidates == scoreEntries(addr, listed)
           w == Best(candidates)
<1>. SUFFICES ASSUME GuessesAmong(addr, listed) PROVE FALSE
  OBVIOUS
<1>1. PICK o \in Beats \ {w.beat} :
        Mentioned(addr, w.beat, listed) \subseteq Mentioned(addr, o, listed)
  BY DEF GuessesAmong
<1>2. /\ Level(candidates) \in {"HIGH", "MEDIUM"}
      /\ \A d \in listed : d.beat = w.beat => ~Mentions(addr, d.area)
  BY DEF GuessesAmong
<1>3. candidates # {} /\ ~(Ahead(w, candidates) < Margin)
  <2>. HIDE DEF candidates
  <2>. QED
    BY <1>2 DEF Level
<1>4. candidates = BestPerBeat(scored)
  BY <1>3 DEF scoreEntries
<1>5. \A s \in scored : s.score \in 0 .. 100
  BY ScoredAre
<1>6. \A s \in scored : s.row.beat = w.beat =>
        \E t \in scored : t.row.beat = o /\ Equals(s, t)
  <2> DEFINE b == w.beat
  <2>1. NoMore(addr, b, o, RowsOf(entries))
    BY <1>1, <1>2 DEF NoMore
  <2>. HIDE DEF b
  <2>2. ASSUME NEW s \in Scored(addr, buildIndex(RowsOf(entries))), s.row.beat = b
        PROVE  \E t \in Scored(addr, buildIndex(RowsOf(entries))) : t.row.beat = o /\ Equals(s, t)
    BY <2>1, <2>2, SharedRow
  <2>. QED
    BY <2>2 DEF b
<1>. HIDE DEF scored, candidates, listed
<1>7. /\ \A c \in candidates :
           /\ c.score \in 0 .. 100
           /\ \E s \in scored : /\ IsKept(s.kind, s.row.locality, scored)
                                /\ s.row.beat = c.beat /\ s.score = c.score
      /\ \A s \in scored : IsKept(s.kind, s.row.locality, scored) =>
           \E c \in candidates : c.beat = s.row.beat /\ s.score <= c.score
  BY <1>4, <1>5, BestPerBeatIs
<1>8. w \in candidates /\ \A c \in candidates : c.score <= w.score
  BY <1>3, <1>7, BestIs
<1>. HIDE DEF w
<1>9. PICK s \in scored : /\ IsKept(s.kind, s.row.locality, scored)
                          /\ s.row.beat = w.beat /\ s.score = w.score
  BY <1>7, <1>8
<1>10. PICK t \in scored : /\ t.row.beat = o /\ t.row.locality = s.row.locality
                           /\ t.kind = s.kind /\ s.score <= t.score
  BY <1>6, <1>9 DEF Equals
<1>11. PICK c \in candidates : c.beat = o /\ t.score <= c.score
  BY <1>7, <1>9, <1>10
<1> DEFINE others == candidates \ {w}
<1>12. c \in others
  BY <1>1, <1>11
<1>13. Best(others) \in others /\ c.score <= Best(others).score
  <2>1. others # {} /\ \A k \in others : k.score \in 0 .. 100
    BY <1>7, <1>12
  <2>. HIDE DEF others
  <2>. QED
    BY <2>1, <1>12, BestIs
<1>14. Ahead(w, candidates) = w.score - Best(others).score
  BY <1>12 DEF Ahead
<1>15. /\ w.score \in 0 .. 100 /\ c.score \in 0 .. 100 /\ t.score \in 0 .. 100
       /\ Best(others).score \in 0 .. 100
       /\ w.score <= t.score
  BY <1>5, <1>7, <1>8, <1>9, <1>10, <1>11, <1>13
<1> DEFINE a == w.score
           b == Best(others).score
<1>16. a \in 0 .. 100 /\ b \in 0 .. 100 /\ a <= b
  <2> DEFINE tt == t.score
             cc == c.score
  <2>1. /\ a \in 0 .. 100 /\ cc \in 0 .. 100 /\ tt \in 0 .. 100 /\ b \in 0 .. 100
        /\ a <= tt /\ tt <= cc /\ cc <= b
    BY <1>11, <1>13, <1>15
  <2>. HIDE DEF a, b, tt, cc
  <2>. QED
    BY <2>1
<1>17. ~(a - b < 15)
  BY <1>3, <1>14 DEF Margin
<1>. HIDE DEF a, b
<1>. QED
  BY <1>16, <1>17

-----------------------------------------------------------------------------
(* What is listed is made of the words that are compared                   *)

(* What a request will write, or has read, of the beats.                   *)
Worded(r) ==
    /\ r.pc = "insert" => r.name \in Names
    /\ r.pc = "import" => FromList(r.beats)
    /\ r.pc = "fill" => IsListing(r.entries)

Typed ==
    /\ \A b \in Beats : beat[b].records \subseteq Records /\ beat[b].name \in Names
    /\ \A h \in Slots : Worded(req[h])

LEMMA TypedInit == ASSUME NEW w, InitIn(w) PROVE Typed
BY DEF InitIn, Typed, Worded, NoBeatRow, Idle, Names

LEMMA DirectoryIsListing == ASSUME Typed PROVE IsListing(DirectoryOf(beat))
<1> DEFINE Of(b) == IF beat[b].records # {} THEN beat[b].records
                    ELSE {<<beat[b].name, Empty>>} \ {<<Empty, Empty>>}
<1> SUFFICES ASSUME NEW b \in Beats, NEW l \in Of(b) PROVE <<b, l, beat[b].name>> \in Beats \X Records \X Names
  BY DEF DirectoryOf, IsListing
<1>1. beat[b].records \subseteq Records /\ beat[b].name \in Names
  BY DEF Typed
<1>2. l \in Records
  <2>1. CASE beat[b].records # {}
    BY <1>1, <2>1
  <2>2. CASE beat[b].records = {}
    <3>1. l = <<beat[b].name, Empty>> /\ beat[b].name # Empty
      BY <2>2
    <3>. QED
      BY <1>1, <3>1 DEF Records, Names
  <2>. QED
    BY <2>1, <2>2
<1>. QED
  BY <1>1, <1>2

LEMMA BeatsStayTyped ==
    ASSUME Shaped, Typed, NEW h \in Slots, Step(h) \/ NewRequest(h)
    PROVE  \A b \in Beats : beat'[b].records \subseteq Records /\ beat'[b].name \in Names
<1>1. /\ DOMAIN beat = Beats /\ \A b \in Beats : DOMAIN beat[b] = BeatFields
      /\ \A b \in Beats : beat[b].records \subseteq Records /\ beat[b].name \in Names
      /\ Worded(req[h])
  BY DEF Shaped, Typed
<1>2. CASE InsertBeat(h)
  <2>1. req[h].name \in Names
    BY <1>1, <1>2 DEF InsertBeat, Worded
  <2>. QED
    BY <1>1, <1>2, <2>1 DEF InsertBeat, BeatFields
<1>3. CASE StoreDrawing(h)
  BY <1>1, <1>3 DEF StoreDrawing, BeatFields
<1>4. CASE StoreVerified(h)
  BY <1>1, <1>4 DEF StoreVerified, BeatFields
<1>5. CASE ImportBeats(h)
  <2>1. FromList(req[h].beats)
    BY <1>1, <1>5 DEF ImportBeats, Worded
  <2>2. ASSUME NEW b \in Beats, b \in DOMAIN req[h].beats
        PROVE  LET i == Imported(b, req[h].beats[b]) IN i.records \subseteq Records /\ i.name \in Names
    <3> DEFINE w == req[h].beats[b]
    <3>1. w.records \subseteq Records /\ w.name \in Names
      BY <2>1, <2>2 DEF FromList
    <3>. HIDE DEF w
    <3>2. LET i == Imported(b, w) IN i.records \subseteq Records /\ i.name \in Names
      BY <1>1, <3>1 DEF Imported, BeatFields
    <3>. QED
      BY <3>2 DEF w
  <2>. QED
    BY <1>1, <1>5, <2>2 DEF ImportBeats
<1>6. CASE \E b \in Beats : Deactivate(h, b) \/ Activate(h, b)
  BY <1>1, <1>6 DEF Deactivate, Activate, BeatFields
<1>7. CASE \E b \in Beats, n \in Names : Rename(h, b, n)
  BY <1>1, <1>7 DEF Rename, BeatFields
<1>8. CASE ~(InsertBeat(h) \/ StoreDrawing(h) \/ StoreVerified(h) \/ ImportBeats(h)
             \/ (\E b \in Beats : Deactivate(h, b) \/ Activate(h, b))
             \/ (\E b \in Beats, n \in Names : Rename(h, b, n)))
  <2>1. beat' = beat
    BY <1>8 DEF Step, NewRequest, rows, StoreMapping, StoreCancelled, Invalidate, StartSweep, NextParcel,
       FillDirectory, Decide, ApplyDecision, Announce, CheckNew, CheckDrawing, CheckVerify, UploadList,
       StartCancel, StartConfirm, StartMapping, ReadList, Arrive
  <2>. QED
    BY <1>1, <2>1
<1>. QED
  BY <1>2, <1>3, <1>4, <1>5, <1>6, <1>7, <1>8

LEMMA RequestsStayTyped ==
    ASSUME Shaped, Typed, NEW h \in Slots, Step(h) \/ NewRequest(h)
    PROVE  \A g \in Slots : Worded(req'[g])
<1>1. DOMAIN req = Slots /\ \A g \in Slots : RequestOK(req[g]) /\ Worded(req[g])
  BY DEF Shaped, Typed
<1>2. ASSUME NEW r, Put(h, r), Worded(r)
      PROVE  \A g \in Slots : Worded(req'[g])
  BY <1>1, <1>2 DEF Put
<1>3. ASSUME NEW r, Put(h, r), r.pc \notin {"insert", "import", "fill"}
      PROVE  \A g \in Slots : Worded(req'[g])
  BY <1>2, <1>3 DEF Worded
<1>4. CASE Invalidate(h)
  <2>1. ASSUME NEW g \in Slots, g # h PROVE Worded(req'[g])
    <3>1. CASE req[g].pc = "fill"
      <4>1. req'[g] = [req[g] EXCEPT !.late = TRUE] /\ DOMAIN req[g] = MatchFields /\ IsListing(req[g].entries)
        BY <1>1, <1>4, <2>1, <3>1 DEF Invalidate, RequestOK, Worded
      <4>2. req'[g].pc = "fill" /\ req'[g].entries = req[g].entries
        BY <3>1, <4>1 DEF MatchFields
      <4>. QED
        BY <4>1, <4>2 DEF Worded
    <3>2. CASE req[g].pc # "fill"
      BY <1>1, <1>4, <2>1, <3>2 DEF Invalidate
    <3>. QED
      BY <3>1, <3>2
  <2>2. req'[h].pc \in {"idle", "sweep"}
    BY <1>1, <1>4 DEF Invalidate, Idle
  <2>3. Worded(req'[h])
    BY <2>2 DEF Worded
  <2>. QED
    BY <2>1, <2>3
<1>5. CASE NextParcel(h)
  <2>1. ASSUME NEW d PROVE Worded(Matching(h, "fill", d, DirectoryOf(beat)))
    BY DirectoryIsListing DEF Worded, Matching
  <2>2. ASSUME NEW d, NEW entries PROVE Matching(h, "decide", d, entries).pc \notin {"insert", "import", "fill"}
    BY DEF Matching
  <2>3. Idle.pc \notin {"insert", "import", "fill"}
    BY DEF Idle
  <2>. QED
    BY <1>2, <1>3, <1>5, <2>1, <2>2, <2>3 DEF NextParcel
<1>6. CASE FillDirectory(h)
  <2>1. [req[h] EXCEPT !.pc = "decide"].pc = "decide"
    BY <1>1, <1>6 DEF FillDirectory, RequestOK, MatchFields
  <2>. QED
    BY <1>3, <1>6, <2>1 DEF FillDirectory
<1>7. CASE UploadList(h)
  BY <1>1, <1>7 DEF UploadList
<1>8. CASE Decide(h) \/ ApplyDecision(h) \/ Announce(h) \/ StartSweep(h)
  BY <1>3, <1>8 DEF Decide, ApplyDecision, Announce, StartSweep
<1>9. CASE InsertBeat(h) \/ StoreDrawing(h) \/ StoreVerified(h) \/ StoreMapping(h)
           \/ StoreCancelled(h) \/ ImportBeats(h)
  <2>1. Idle.pc \notin {"insert", "import", "fill"}
    BY DEF Idle
  <2>. QED
    BY <1>3, <1>9, <2>1 DEF InsertBeat, StoreDrawing, StoreVerified, StoreMapping, StoreCancelled,
       ImportBeats, Then
<1>10. CASE NewRequest(h) /\ ~UploadList(h)
  <2>1. CASE \E b \in Beats, s \in Shapes, n \in Names, ack \in BOOLEAN : CheckNew(h, b, s, n, ack)
    <3>1. PICK b \in Beats, s \in Shapes, n \in Names, ack \in BOOLEAN : CheckNew(h, b, s, n, ack)
      BY <2>1
    <3>2. Worded([pc |-> "insert", beat |-> b, shape |-> s, name |-> n, ack |-> ack])
      BY DEF Worded
    <3>. QED
      BY <1>2, <3>1, <3>2 DEF CheckNew
  <2>2. CASE \E b \in Beats, s \in Shapes, v, ack \in BOOLEAN : CheckDrawing(h, b, s, v, ack)
    BY <1>3, <2>2 DEF CheckDrawing
  <2>3. CASE \E b \in Beats, ack \in BOOLEAN : CheckVerify(h, b, ack)
    BY <1>3, <2>3 DEF CheckVerify
  <2>4. CASE (\E b \in Beats, n \in Names : Rename(h, b, n))
             \/ (\E b \in Beats : Deactivate(h, b) \/ Activate(h, b))
    BY <1>3, <2>4 DEF Rename, Deactivate, Activate, Then
  <2>5. CASE StartCancel(h) \/ (\E m \in Mappings : StartMapping(h, m))
    BY <1>3, <2>5 DEF StartCancel, StartMapping, ReadList
  <2>6. CASE StartConfirm(h)
    <3>1. Worded([pc |-> "import", beats |-> Wanted, known |-> DOMAIN Known])
      BY OverlapsAgree DEF Worded, Wanted
    <3>. QED
      BY <1>2, <2>6, <3>1 DEF StartConfirm, ReadList
  <2>7. CASE \E d \in Deliveries : Arrive(h, d)
    BY <1>3, <2>7 DEF Arrive
  <2>. QED
    BY <1>10, <2>1, <2>2, <2>3, <2>4, <2>5, <2>6, <2>7 DEF NewRequest
<1>. QED
  BY <1>4, <1>5, <1>6, <1>7, <1>8, <1>9, <1>10 DEF Step

LEMMA TypedNext == Shaped /\ Typed /\ [Next]_vars => Typed'
<1> SUFFICES ASSUME Shaped, Typed, [Next]_vars PROVE Typed'
  OBVIOUS
<1>1. ASSUME NEW h \in Slots, Step(h) \/ NewRequest(h)
      PROVE  Typed'
  BY <1>1, BeatsStayTyped, RequestsStayTyped DEF Typed
<1>2. CASE Expire \/ (\E k \in Kinds, p \in Postmen : SendBatch(k, p)) \/ UNCHANGED vars
  BY <1>2 DEF Typed, Expire, SendBatch, vars, rows, history
<1>3. CASE Stop
  <2>1. Worded(Idle)
    BY DEF Worded, Idle
  <2>. QED
    BY <1>3, <2>1 DEF Typed, Stop, rows
<1>. QED
  BY <1>1, <1>2, <1>3 DEF Next

-----------------------------------------------------------------------------
(* The staff: what their records and the files keep *)

StepOf(r) == staffRequests[r].step
Saved(r) == StepOf(r) = "saved"
Leaving(r) == StepOf(r) \in {"shown", "cleared", "deleted"}

Steps == {"idle", "read", "saved", "shown", "cleared", "counted", "deleted"}
Logins == [exists : BOOLEAN, status : {"ACTIVE", "INACTIVE"}, signedIn : BOOLEAN,
           asking : {"nothing", "signIn", "renewal"}, overtaken : BOOLEAN]

JobOf(n) == [op : Staff!Operations \cup {"none"}, step : Steps, photo : 0..n, url : 0..n,
             status : Staff!Statuses]

Recorded ==
    /\ uploads \in Nat /\ files \subseteq 1..uploads
    /\ postman \in [exists : BOOLEAN, status : Staff!Statuses, photo : 0..uploads]
    /\ login \in Logins
    /\ staffRequests \in [StaffRequests -> JobOf(uploads)]

(* A picture that is saved and not shown yet is known to its request only, *)
(* and a picture about to be removed is not the one shown.                 *)
Pictures ==
    /\ Staff!ShownPhotoExists
    /\ \A r \in StaffRequests : Saved(r) =>
         /\ staffRequests[r].url \in files \ {postman.photo}
         /\ \A s \in StaffRequests : staffRequests[s].photo # staffRequests[r].url
         /\ \A s \in StaffRequests \ {r} : Saved(s) => staffRequests[s].url # staffRequests[r].url
    /\ \A r \in StaffRequests :
         Leaving(r) /\ staffRequests[r].photo = postman.photo => postman.photo = Staff!NoPhoto

(* One request at a time: what the only one that runs knows is still so.   *)
Unchanged(r) ==
    StepOf(r) \in {"read", "counted", "saved"} =>
        staffRequests[r].photo = postman.photo /\ staffRequests[r].status = postman.status
Tidy(r) ==
    files \subseteq IF Saved(r) THEN {postman.photo, staffRequests[r].url}
                    ELSE IF Leaving(r) THEN {postman.photo, staffRequests[r].photo} ELSE {postman.photo}
Unnamed(r) == StepOf(r) = "counted" => named = {} /\ ~login.exists

OneAtATime ==
    "overlap" \notin staffWorld =>
        \A r \in StaffRequests :
            staffRequests[r] # Staff!Idle =>
              /\ \A s \in StaffRequests \ {r} : staffRequests[s] = Staff!Idle
              /\ Unchanged(r)
              /\ "stops" \notin staffWorld => Tidy(r)
              /\ "busy" \notin staffWorld => Unnamed(r)

(* The login: no token is live in the end but one that overtook.           *)
Follows ==
    login.exists /\ postman.exists =>
        /\ postman.status = "ACTIVE" => login.status = "ACTIVE"
        /\ postman.status = "INACTIVE" =>
             login.status = "INACTIVE" /\ (login.signedIn \/ login.asking # "nothing" => login.overtaken)

StaffInv ==
    /\ Recorded /\ Pictures /\ OneAtATime /\ StaffRecordsAgree
    /\ staffWorld \cap {"accounts", "overlap"} = {} => Follows

(* What one request's step does to the requests.                           *)
Moves(r, step) == staffRequests' = [staffRequests EXCEPT ![r].step = step]
Ends(r) == staffRequests' = [staffRequests EXCEPT ![r] = Staff!Idle]

OwnStep(r) ==
    \/ Staff!SavePhoto(r) \/ Staff!ShowPhoto(r) \/ Staff!RemovePhoto(r) \/ Staff!ClearPhoto(r)
    \/ Staff!Switch(r, "activate", "ACTIVE") \/ Staff!Switch(r, "deactivate", "INACTIVE")
    \/ (\E status \in Staff!Statuses : Staff!Update(r, status))
    \/ Staff!CreateAccount(r) \/ Staff!ResetPassword(r)
    \/ Staff!CountRecords(r) \/ Staff!DeleteRow(r)

Beside ==
    \/ \E status \in {"ACTIVE", "INACTIVE"} : Staff!SwitchLogin(status)
    \/ Staff!CreateLogin \/ Staff!StartSignIn \/ Staff!StartRenewal \/ Staff!IssueToken \/ Staff!NoToken
    \/ Staff!Work

LEMMA StaffSteps ==
    ASSUME Staff!Step
    PROVE  \/ \E r \in StaffRequests, op \in Staff!Operations : Staff!Begin(r, op)
           \/ \E r \in StaffRequests : OwnStep(r)
           \/ Beside \/ Staff!Restart
BY DEF Staff!Step, OwnStep, Beside

-----------------------------------------------------------------------------

LEMMA IdleIsAJob == \A n \in Nat : Staff!Idle \in JobOf(n)
BY DEF Staff!Idle, JobOf, Staff!NoPhoto, Staff!Statuses, Steps

LEMMA JobsGrow == \A n \in Nat : JobOf(n) \subseteq JobOf(n + 1)
BY DEF JobOf

(* What is made of a login.                                                *)
LEMMA LoginsAreLogins ==
    ASSUME login \in Logins
    PROVE  /\ \A status \in {"ACTIVE", "INACTIVE"} : Staff!NewLogin(status) \in Logins
           /\ Staff!NoLogin \in Logins
           /\ \A status \in {"ACTIVE", "INACTIVE"} : [login EXCEPT !.status = status] \in Logins
           /\ \A l \in Logins : Staff!Revoked(l) \in Logins
           /\ \A for \in {"signIn", "renewal"} : [login EXCEPT !.asking = for] \in Logins
           /\ [login EXCEPT !.signedIn = TRUE, !.asking = "nothing"] \in Logins
           /\ Staff!CutOff \subseteq Logins
<1>1. \A status \in {"ACTIVE", "INACTIVE"} : Staff!NewLogin(status) \in Logins
  BY DEF Staff!NewLogin, Logins
<1>2. Staff!NoLogin \in Logins
  BY <1>1 DEF Staff!NoLogin, Logins
<1>3. \A l \in Logins : Staff!Revoked(l) \in Logins
  BY DEF Staff!Revoked, Logins
<1>4. ASSUME NEW s \in BOOLEAN PROVE [login EXCEPT !.asking = "nothing", !.signedIn = s] \in Logins
  BY DEF Logins
<1>5. Staff!CutOff \subseteq Logins
  <2>1. login.signedIn \in BOOLEAN
    BY DEF Logins
  <2>. QED
    BY <1>4, <2>1 DEF Staff!CutOff
<1>6. /\ \A status \in {"ACTIVE", "INACTIVE"} : [login EXCEPT !.status = status] \in Logins
      /\ \A for \in {"signIn", "renewal"} : [login EXCEPT !.asking = for] \in Logins
      /\ [login EXCEPT !.signedIn = TRUE, !.asking = "nothing"] \in Logins
  BY DEF Logins
<1>. QED
  BY <1>1, <1>2, <1>3, <1>5, <1>6

LEMMA RecordedNext == ASSUME Recorded, Staff!Step PROVE Recorded'
<1>0. /\ uploads \in Nat /\ files \subseteq 1..uploads
      /\ postman \in [exists : BOOLEAN, status : Staff!Statuses, photo : 0..uploads]
      /\ login \in Logins
      /\ staffRequests \in [StaffRequests -> JobOf(uploads)]
  BY DEF Recorded
<1>1. CASE \E r \in StaffRequests, op \in Staff!Operations : Staff!Begin(r, op)
  <2>1. PICK r \in StaffRequests, op \in Staff!Operations : Staff!Begin(r, op)
    BY <1>1
  <2>2. [Staff!Idle EXCEPT !.op = op, !.step = "read", !.photo = postman.photo, !.status = postman.status]
           \in JobOf(uploads)
    <3>1. Staff!Idle \in JobOf(uploads)
      BY <1>0, IdleIsAJob
    <3>2. postman.photo \in 0..uploads /\ postman.status \in Staff!Statuses /\ "read" \in Steps
      BY <1>0 DEF Steps
    <3>. QED
      BY <3>1, <3>2 DEF JobOf
  <2>3. staffRequests' = [staffRequests EXCEPT ![r] =
           [Staff!Idle EXCEPT !.op = op, !.step = "read", !.photo = postman.photo, !.status = postman.status]]
    BY <2>1 DEF Staff!Begin
  <2>4. postman' = postman /\ login' = login /\ uploads' = uploads /\ files' = files
    BY <2>1 DEF Staff!Begin, Staff!pictures
  <2>5. staffRequests' \in [StaffRequests -> JobOf(uploads)]
    BY <1>0, <2>2, <2>3
  <2>. QED
    BY <1>0, <2>4, <2>5 DEF Recorded
<1>2. CASE \E r \in StaffRequests : OwnStep(r)
  <2>1. PICK r \in StaffRequests : OwnStep(r)
    BY <1>2
  <2>2. ASSUME Ends(r), uploads' = uploads PROVE staffRequests' \in [StaffRequests -> JobOf(uploads')]
    BY <1>0, <2>2, IdleIsAJob DEF Ends
  <2>3. ASSUME NEW step \in Steps, Moves(r, step), uploads' = uploads
        PROVE  staffRequests' \in [StaffRequests -> JobOf(uploads')]
    BY <1>0, <2>3 DEF Moves, JobOf
  <2>4. CASE Staff!SavePhoto(r)
    <3>1. uploads' = uploads + 1 /\ files' = files \cup {uploads + 1} /\ postman' = postman /\ login' = login
      BY <2>4 DEF Staff!SavePhoto
    <3>2. staffRequests' = [staffRequests EXCEPT ![r].step = "saved", ![r].url = uploads + 1]
      BY <2>4 DEF Staff!SavePhoto
    <3>3. staffRequests' \in [StaffRequests -> JobOf(uploads')]
      BY <1>0, <3>1, <3>2 DEF JobOf, Steps
    <3>. QED
      BY <1>0, <3>1, <3>3 DEF Recorded
  <2>5. CASE Staff!ShowPhoto(r)
    BY <1>0, <2>2, <2>3, <2>5 DEF Staff!ShowPhoto, Staff!NotTaken, Staff!GoTo, Staff!Done, Ends, Moves, Steps,
       Staff!pictures, Staff!records, Recorded, JobOf, Staff!Without
  <2>6. CASE Staff!RemovePhoto(r)
    BY <1>0, <2>2, <2>6 DEF Staff!RemovePhoto, Staff!Done, Ends, Recorded, Staff!Without
  <2>7. CASE Staff!ClearPhoto(r)
    BY <1>0, <2>2, <2>3, <2>7 DEF Staff!ClearPhoto, Staff!Refused, Staff!GoTo, Staff!Done, Ends, Moves, Steps,
       Staff!pictures, Staff!records, Recorded, Staff!NoPhoto
  <2>8. ASSUME NEW status \in Staff!Statuses, Staff!applyPostmanStatus(status), Ends(r), UNCHANGED <<uploads, files>>
        PROVE  Recorded'
    <3>1. Staff!LoginFor(status) \in Logins
      BY <1>0, <2>8, LoginsAreLogins DEF Staff!LoginFor
    <3>2. login' = Staff!LoginFor(status) /\ postman' = [postman EXCEPT !.status = status]
      BY <2>8 DEF Staff!applyPostmanStatus
    <3>. QED
      BY <1>0, <2>2, <2>8, <3>1, <3>2 DEF Recorded
  <2>9. ASSUME Staff!Refused(r) PROVE Recorded'
    BY <1>0, <2>2, <2>9 DEF Staff!Refused, Staff!Done, Ends, Staff!pictures, Recorded
  <2>10. CASE Staff!Switch(r, "activate", "ACTIVE") \/ Staff!Switch(r, "deactivate", "INACTIVE")
    BY <2>8, <2>9, <2>10 DEF Staff!Switch, Staff!Done, Ends, Staff!pictures, Staff!Statuses
  <2>11. CASE \E status \in Staff!Statuses : Staff!Update(r, status)
    BY <2>8, <2>9, <2>11 DEF Staff!Update, Staff!Done, Ends, Staff!pictures
  <2>12. CASE Staff!CreateAccount(r) \/ Staff!ResetPassword(r)
    <3>1. ASSUME login' \in Logins, Ends(r), UNCHANGED <<postman, uploads, files>> PROVE Recorded'
      BY <1>0, <2>2, <3>1 DEF Recorded
    <3>2. Staff!NewLogin(Staff!StatusOfLogin(r)) \in Logins
      BY <1>0, LoginsAreLogins DEF Staff!StatusOfLogin
    <3>3. Staff!Revoked(login) \in Logins
      BY <1>0, LoginsAreLogins
    <3>. QED
      BY <2>9, <2>12, <3>1, <3>2, <3>3 DEF Staff!CreateAccount, Staff!ResetPassword, Staff!Done, Ends, Staff!pictures
  <2>13. CASE Staff!CountRecords(r)
    BY <1>0, <2>3, <2>9, <2>13 DEF Staff!CountRecords, Staff!GoTo, Moves, Staff!pictures, Recorded, Steps
  <2>14. CASE Staff!DeleteRow(r)
    <3>1. ASSUME ~Staff!Refused(r)
          PROVE  /\ postman' = [postman EXCEPT !.exists = FALSE, !.photo = Staff!NoPhoto] /\ login' = Staff!NoLogin
                 /\ Moves(r, "deleted") /\ uploads' = uploads /\ files' = files
      BY <2>14, <3>1 DEF Staff!DeleteRow, Staff!GoTo, Moves, Staff!pictures
    <3>2. Staff!NoLogin \in Logins /\ "deleted" \in Steps
      BY <1>0, LoginsAreLogins DEF Steps
    <3>3. Staff!NoPhoto \in 0..uploads
      BY <1>0 DEF Staff!NoPhoto
    <3>4. [postman EXCEPT !.exists = FALSE, !.photo = Staff!NoPhoto]
             \in [exists : BOOLEAN, status : Staff!Statuses, photo : 0..uploads]
      BY <1>0, <3>3
    <3>. QED
      BY <1>0, <2>3, <2>9, <3>1, <3>2, <3>4 DEF Recorded
  <2>. QED
    BY <2>1, <2>4, <2>5, <2>6, <2>7, <2>10, <2>11, <2>12, <2>13, <2>14 DEF OwnStep
<1>3. CASE Beside
  <2>1. UNCHANGED <<postman, uploads, files, staffRequests>>
    BY <1>3 DEF Beside, Staff!SwitchLogin, Staff!CreateLogin, Staff!StartSignIn, Staff!StartRenewal, Staff!Ask,
       Staff!IssueToken, Staff!NoToken, Staff!Work, Staff!pictures
  <2>2. login' \in Logins
    <3>1. CASE Staff!StartSignIn \/ Staff!StartRenewal
      BY <1>0, <3>1, LoginsAreLogins DEF Staff!StartSignIn, Staff!StartRenewal, Staff!Ask
    <3>2. CASE ~(Staff!StartSignIn \/ Staff!StartRenewal)
      BY <1>0, <1>3, <3>2, LoginsAreLogins DEF Beside, Staff!SwitchLogin, Staff!CreateLogin, Staff!IssueToken,
         Staff!NoToken, Staff!Work
    <3>. QED
      BY <3>1, <3>2
  <2>. QED
    BY <1>0, <2>1, <2>2 DEF Recorded
<1>4. CASE Staff!Restart
  <2>1. login' \in Logins
    BY <1>0, <1>4, LoginsAreLogins DEF Staff!Restart
  <2>. QED
    BY <1>0, <1>4, <2>1, IdleIsAJob DEF Staff!Restart, Staff!pictures, Recorded
<1>. QED
  BY <1>1, <1>2, <1>3, <1>4, StaffSteps

-----------------------------------------------------------------------------

Others(r) == \A s \in StaffRequests \ {r} : staffRequests'[s] = staffRequests[s]

LEMMA EndsDoes ==
    ASSUME Recorded, NEW r \in StaffRequests, Ends(r)
    PROVE  Others(r) /\ staffRequests'[r] = Staff!Idle
BY DEF Recorded, Ends, Others

LEMMA MovesDoes ==
    ASSUME Recorded, NEW r \in StaffRequests, NEW step, Moves(r, step)
    PROVE  /\ Others(r)
           /\ staffRequests'[r].step = step
           /\ staffRequests'[r].photo = staffRequests[r].photo /\ staffRequests'[r].url = staffRequests[r].url
           /\ staffRequests'[r].status = staffRequests[r].status
BY DEF Recorded, Moves, Others, JobOf

(* A step that ends a request, or goes on without saving or showing, and   *)
(* takes away at most a picture that nobody shows or is about to show.     *)
LEMMA HarmlessKeepsPictures ==
    ASSUME Recorded, Pictures, NEW r \in StaffRequests, Others(r),
           ~(Saved(r))', staffRequests'[r].photo \in {staffRequests[r].photo, Staff!NoPhoto},
           Leaving(r)' => postman'.photo = Staff!NoPhoto,
           postman'.photo \in {postman.photo, Staff!NoPhoto},
           NEW gone, files' = files \ gone,
           \/ gone = {}
           \/ gone = {staffRequests[r].photo} /\ Leaving(r)
           \/ gone = {staffRequests[r].url} /\ Saved(r)
    PROVE  Pictures'
<1>1. ASSUME postman'.photo # Staff!NoPhoto PROVE postman'.photo \in files'
  <2>1. postman'.photo = postman.photo /\ postman.photo \in files
    BY <1>1 DEF Pictures, Staff!ShownPhotoExists
  <2>2. postman.photo \notin gone
    BY <1>1, <2>1 DEF Pictures
  <2>. QED
    BY <2>1, <2>2
<1>2. Staff!NoPhoto \notin files
  BY DEF Recorded, Staff!NoPhoto
<1>3. ASSUME NEW s \in StaffRequests, Saved(s)' PROVE s # r /\ Saved(s) /\ staffRequests'[s] = staffRequests[s]
  BY <1>3 DEF Others, Saved, StepOf
<1>4. ASSUME NEW s \in StaffRequests, Saved(s)' PROVE staffRequests'[s].url \in files' \ {postman'.photo}
  <2>1. staffRequests[s].url \in files \ {postman.photo} /\ staffRequests'[s].url = staffRequests[s].url /\ s # r
    BY <1>3, <1>4 DEF Pictures
  <2>2. staffRequests[s].url \notin gone
    BY <1>3, <1>4 DEF Pictures
  <2>. QED
    BY <1>2, <2>1, <2>2
<1>5. ASSUME NEW s \in StaffRequests, Saved(s)', NEW q \in StaffRequests
      PROVE  staffRequests'[q].photo # staffRequests'[s].url
  <2>1. staffRequests[s].url \in files /\ staffRequests'[s].url = staffRequests[s].url
    BY <1>3, <1>5 DEF Pictures
  <2>2. staffRequests[q].photo # staffRequests[s].url
    BY <1>3, <1>5 DEF Pictures
  <2>. QED
    BY <1>2, <2>1, <2>2 DEF Others
<1>6. ASSUME NEW s \in StaffRequests, Saved(s)', NEW q \in StaffRequests \ {s}, Saved(q)'
      PROVE  staffRequests'[q].url # staffRequests'[s].url
  BY <1>3, <1>6 DEF Pictures
<1>7. ASSUME NEW s \in StaffRequests, Leaving(s)', staffRequests'[s].photo = postman'.photo
      PROVE  postman'.photo = Staff!NoPhoto
  BY <1>7 DEF Pictures, Others, Leaving, StepOf
<1>. QED
  BY <1>1, <1>4, <1>5, <1>6, <1>7 DEF Pictures, Staff!ShownPhotoExists

LEMMA RefusedKeepsPictures ==
    ASSUME Recorded, Pictures, NEW r \in StaffRequests, Ends(r), files' = files, postman'.photo = postman.photo
    PROVE  Pictures'
<1>1. Others(r) /\ staffRequests'[r] = Staff!Idle
  BY EndsDoes
<1>2. files' = files \ {}
  OBVIOUS
<1>3. Staff!Idle.step = "idle" /\ Staff!Idle.photo = Staff!NoPhoto
  BY DEF Staff!Idle
<1>4. ~(Saved(r))' /\ ~(Leaving(r))'
  BY <1>1, <1>3 DEF Saved, Leaving, StepOf
<1>. QED
  BY <1>1, <1>2, <1>3, <1>4, HarmlessKeepsPictures

LEMMA PicturesNext == ASSUME Recorded, Pictures, Staff!Step PROVE Pictures'
<1>0. /\ Staff!Idle.step = "idle" /\ Staff!Idle.photo = Staff!NoPhoto /\ Staff!Idle.url = Staff!NoPhoto
      /\ Staff!NoPhoto \notin files
  BY DEF Staff!Idle, Recorded, Staff!NoPhoto
<1>1. ASSUME NEW r \in StaffRequests, NEW op \in Staff!Operations, Staff!Begin(r, op) PROVE Pictures'
  <2>1. /\ Others(r) /\ staffRequests'[r].step = "read" /\ staffRequests'[r].photo = postman.photo
        /\ files' = files /\ postman' = postman
    BY <1>1 DEF Staff!Begin, Others, Recorded, Staff!Idle, Staff!pictures
  <2>2. ~(Saved(r))' /\ ~(Leaving(r))'
    BY <2>1 DEF Saved, Leaving, StepOf
  <2>. QED
    BY <2>1, <2>2 DEF Pictures, Others, Saved, Leaving, StepOf, Staff!ShownPhotoExists
<1>2. ASSUME NEW r \in StaffRequests, Staff!SavePhoto(r) PROVE Pictures'
  <2>1. /\ Others(r) /\ staffRequests'[r].step = "saved" /\ staffRequests'[r].photo = staffRequests[r].photo
        /\ staffRequests'[r].url = uploads + 1
        /\ files' = files \cup {uploads + 1} /\ postman' = postman
    BY <1>2 DEF Staff!SavePhoto, Others, Recorded, JobOf
  <2>2. /\ uploads + 1 \notin files /\ uploads + 1 # postman.photo
        /\ \A s \in StaffRequests : staffRequests[s].photo # uploads + 1 /\ staffRequests[s].url # uploads + 1
    BY DEF Recorded, JobOf
  <2>3. ASSUME NEW s \in StaffRequests PROVE (Leaving(s))' => s # r /\ Leaving(s)
    BY <2>1 DEF Leaving, StepOf, Others
  <2>4. ASSUME NEW s \in StaffRequests PROVE (Saved(s))' => s = r \/ Saved(s)
    BY <2>1 DEF Saved, StepOf, Others
  <2>5. ASSUME NEW s \in StaffRequests PROVE /\ staffRequests'[s].photo = staffRequests[s].photo
                                             /\ s # r => staffRequests'[s].url = staffRequests[s].url
    BY <2>1 DEF Others
  <2>. QED
    BY <2>1, <2>2, <2>3, <2>4, <2>5 DEF Pictures, Staff!ShownPhotoExists
<1>3. ASSUME NEW r \in StaffRequests, Staff!ShowPhoto(r) PROVE Pictures'
  <2>1. Saved(r)
    BY <1>3 DEF Staff!ShowPhoto, Staff!At, Saved, StepOf
  <2>2. CASE Staff!NotTaken(r)
    <3>1. Others(r) /\ staffRequests'[r] = Staff!Idle
      BY <2>2, EndsDoes DEF Staff!NotTaken, Staff!Done, Ends
    <3>2. files' = files \ {staffRequests[r].url} /\ postman' = postman
      BY <2>2 DEF Staff!NotTaken, Staff!Without
    <3>3. ~(Saved(r))' /\ ~(Leaving(r))'
      BY <1>0, <3>1 DEF Saved, Leaving, StepOf
    <3>. QED
      BY <1>0, <2>1, <3>1, <3>2, <3>3, HarmlessKeepsPictures
  <2>3. CASE ~Staff!NotTaken(r)
    <3>1. Moves(r, "shown") /\ files' = files /\ postman'.photo = staffRequests[r].url
      BY <1>3, <2>3 DEF Staff!ShowPhoto, Staff!GoTo, Moves, Staff!pictures, Recorded
    <3>2. Others(r) /\ staffRequests'[r].step = "shown" /\ staffRequests'[r].photo = staffRequests[r].photo
      BY <3>1, MovesDoes
    <3>3. ASSUME NEW s \in StaffRequests PROVE (Saved(s))' => s # r /\ Saved(s)
      BY <3>2 DEF Saved, StepOf, Others
    <3>4. ASSUME NEW s \in StaffRequests PROVE /\ staffRequests'[s].photo = staffRequests[s].photo
                                               /\ s # r => staffRequests'[s].url = staffRequests[s].url
      BY <3>2 DEF Others
    <3>. QED
      BY <2>1, <3>1, <3>3, <3>4 DEF Pictures, Staff!ShownPhotoExists
  <2>. QED
    BY <2>2, <2>3
<1>4. ASSUME NEW r \in StaffRequests, Staff!RemovePhoto(r) PROVE Pictures'
  <2>1. Others(r) /\ staffRequests'[r] = Staff!Idle
    BY <1>4, EndsDoes DEF Staff!RemovePhoto, Staff!Done, Ends
  <2>2. files' = files \ {staffRequests[r].photo} /\ postman' = postman /\ Leaving(r)
    BY <1>4 DEF Staff!RemovePhoto, Staff!Without, Staff!Replaced, Leaving, StepOf
  <2>3. ~(Saved(r))' /\ ~(Leaving(r))'
    BY <1>0, <2>1 DEF Saved, Leaving, StepOf
  <2>. QED
    BY <1>0, <2>1, <2>2, <2>3, HarmlessKeepsPictures
<1>5. ASSUME NEW r \in StaffRequests, Staff!Refused(r) PROVE Pictures'
  BY <1>5, RefusedKeepsPictures DEF Staff!Refused, Staff!Done, Ends, Staff!pictures
<1>6. ASSUME NEW r \in StaffRequests, NEW step \in {"cleared", "deleted", "counted"}, Moves(r, step), files' = files,
             IF step = "counted" THEN postman' = postman ELSE postman'.photo = Staff!NoPhoto
      PROVE  Pictures'
  <2>1. /\ Others(r) /\ staffRequests'[r].step = step
        /\ staffRequests'[r].photo = staffRequests[r].photo
    BY <1>6, MovesDoes
  <2>2. ~(Saved(r))' /\ ((Leaving(r))' => postman'.photo = Staff!NoPhoto)
    BY <1>6, <2>1 DEF Saved, Leaving, StepOf
  <2>3. files' = files \ {}
    BY <1>6
  <2>. QED
    BY <1>6, <2>1, <2>2, <2>3, HarmlessKeepsPictures
<1>7. ASSUME NEW r \in StaffRequests, Staff!ClearPhoto(r) PROVE Pictures'
  <2>1. ASSUME ~Staff!Refused(r) PROVE Moves(r, "cleared") /\ files' = files /\ postman'.photo = Staff!NoPhoto
    BY <1>7, <2>1 DEF Staff!ClearPhoto, Staff!GoTo, Moves, Staff!pictures, Recorded
  <2>. QED
    BY <1>5, <1>6, <2>1
<1>8. ASSUME NEW r \in StaffRequests,
             \/ Staff!Switch(r, "activate", "ACTIVE") \/ Staff!Switch(r, "deactivate", "INACTIVE")
             \/ \E status \in Staff!Statuses : Staff!Update(r, status)
             \/ Staff!CreateAccount(r) \/ Staff!ResetPassword(r)
      PROVE Pictures'
  <2>1. ASSUME ~Staff!Refused(r) PROVE Ends(r) /\ files' = files /\ postman'.photo = postman.photo
    BY <1>8, <2>1 DEF Staff!Switch, Staff!Update, Staff!CreateAccount, Staff!ResetPassword, Staff!Done, Ends,
       Staff!pictures, Staff!applyPostmanStatus, Recorded
  <2>. QED
    BY <1>5, <2>1, RefusedKeepsPictures
<1>9. ASSUME NEW r \in StaffRequests, Staff!CountRecords(r) PROVE Pictures'
  <2>1. ASSUME ~Staff!Refused(r) PROVE Moves(r, "counted") /\ files' = files /\ postman' = postman
    BY <1>9, <2>1 DEF Staff!CountRecords, Staff!GoTo, Moves, Staff!pictures
  <2>. QED
    BY <1>5, <1>6, <2>1
<1>10. ASSUME NEW r \in StaffRequests, Staff!DeleteRow(r) PROVE Pictures'
  <2>1. ASSUME ~Staff!Refused(r) PROVE Moves(r, "deleted") /\ files' = files /\ postman'.photo = Staff!NoPhoto
    BY <1>10, <2>1 DEF Staff!DeleteRow, Staff!GoTo, Moves, Staff!pictures, Recorded
  <2>. QED
    BY <1>5, <1>6, <2>1
<1>11. ASSUME Beside PROVE Pictures'
  <2>1. UNCHANGED <<postman, files, staffRequests>>
    BY <1>11 DEF Beside, Staff!SwitchLogin, Staff!CreateLogin, Staff!StartSignIn, Staff!StartRenewal, Staff!Ask,
       Staff!IssueToken, Staff!NoToken, Staff!Work, Staff!pictures
  <2>. QED
    BY <2>1 DEF Pictures, Staff!ShownPhotoExists, Saved, Leaving, StepOf
<1>12. ASSUME Staff!Restart PROVE Pictures'
  <2>1. /\ UNCHANGED <<postman, files>>
        /\ \A s \in StaffRequests : staffRequests'[s] = Staff!Idle
    BY <1>12 DEF Staff!Restart, Staff!pictures
  <2>2. \A s \in StaffRequests : ~(Saved(s))' /\ ~(Leaving(s))'
    BY <1>0, <2>1 DEF Saved, Leaving, StepOf
  <2>. QED
    BY <2>1, <2>2 DEF Pictures, Staff!ShownPhotoExists
<1>. QED
  BY <1>1, <1>2, <1>3, <1>4, <1>7, <1>8, <1>9, <1>10, <1>11, <1>12, StaffSteps DEF OwnStep

-----------------------------------------------------------------------------
(* One request at a time *)

Serially == "overlap" \notin staffWorld

OnlyOne(r) == \A s \in StaffRequests \ {r} : staffRequests[s] = Staff!Idle

LEMMA OwnStepDoes ==
    ASSUME Recorded, NEW r \in StaffRequests, OwnStep(r)
    PROVE  staffRequests[r] # Staff!Idle /\ Others(r)
<1>1. staffRequests[r].op # Staff!Idle.op \/ staffRequests[r].step # Staff!Idle.step
  BY DEF OwnStep, Staff!SavePhoto, Staff!ShowPhoto, Staff!RemovePhoto, Staff!ClearPhoto, Staff!Switch, Staff!Update,
     Staff!CreateAccount, Staff!ResetPassword, Staff!CountRecords, Staff!DeleteRow, Staff!At, Staff!Idle
<1>2. Others(r)
  BY DEF OwnStep, Staff!SavePhoto, Staff!ShowPhoto, Staff!RemovePhoto, Staff!ClearPhoto, Staff!Switch, Staff!Update,
     Staff!CreateAccount, Staff!ResetPassword, Staff!CountRecords, Staff!DeleteRow, Staff!Refused, Staff!NotTaken,
     Staff!GoTo, Staff!Done, Others, Recorded
<1>. QED
  BY <1>1, <1>2

LEMMA BeginDoes ==
    ASSUME Recorded, NEW r \in StaffRequests, NEW op, Staff!Begin(r, op)
    PROVE  /\ Others(r)
           /\ staffRequests'[r].step = "read"
           /\ staffRequests'[r].photo = postman.photo /\ staffRequests'[r].status = postman.status
           /\ UNCHANGED <<postman, login, named, severed, files, uploads>>
           /\ Serially => Staff!Quiet
BY DEF Staff!Begin, Others, Recorded, Staff!Idle, Staff!pictures, Staff!records, Staff!May, Serially

(* A token may come whenever it comes.                                     *)
TokenComes == Staff!IssueToken \/ Staff!NoToken

LEMMA BesideDoes ==
    ASSUME Beside
    PROVE  /\ UNCHANGED <<postman, files, uploads, severed, staffRequests>>
           /\ "busy" \notin staffWorld => Staff!Quiet \/ TokenComes
BY DEF Beside, TokenComes, Staff!SwitchLogin, Staff!CreateLogin, Staff!StartSignIn, Staff!StartRenewal, Staff!Ask,
   Staff!IssueToken, Staff!NoToken, Staff!Work, Staff!pictures, Staff!records, Staff!Settled, Staff!May

LEMMA TokenComesDoes ==
    ASSUME Recorded, TokenComes
    PROVE  /\ UNCHANGED <<postman, named, staffRequests>>
           /\ login.asking # "nothing"
           /\ login'.exists = login.exists /\ login'.status = login.status
           /\ login'.overtaken = login.overtaken
<1>1. login \in Logins
  BY DEF Recorded
<1>2. CASE Staff!IssueToken
  BY <1>1, <1>2 DEF Staff!IssueToken, Staff!records, Logins
<1>3. CASE Staff!NoToken
  BY <1>1, <1>3 DEF Staff!NoToken, Staff!CutOff, Staff!records, Logins
<1>. QED
  BY <1>2, <1>3 DEF TokenComes

LEMMA RestartDoes ==
    ASSUME Staff!Restart
    PROVE  /\ UNCHANGED <<postman, named, severed, files, uploads>> /\ login' \in Staff!CutOff
           /\ \A s \in StaffRequests : staffRequests'[s] = Staff!Idle
           /\ "stops" \in staffWorld
BY DEF Staff!Restart, Staff!pictures, Staff!records, Staff!May

(* ... so only one runs, and only what it does changes what it knows.      *)
LEMMA OnlyOneNext ==
    ASSUME Recorded, OneAtATime, Serially, Staff!Step, NEW r \in StaffRequests, staffRequests'[r] # Staff!Idle
    PROVE  (OnlyOne(r))'
<1>1. ASSUME NEW q \in StaffRequests, NEW op, Staff!Begin(q, op) PROVE (OnlyOne(r))'
  <2>1. \A s \in StaffRequests \ {q} : staffRequests'[s] = Staff!Idle
    BY <1>1, BeginDoes DEF Others, Staff!Quiet
  <2>. QED
    BY <2>1 DEF OnlyOne
<1>2. ASSUME NEW q \in StaffRequests, OwnStep(q) PROVE (OnlyOne(r))'
  <2>1. \A s \in StaffRequests \ {q} : staffRequests'[s] = Staff!Idle
    BY <1>2, OwnStepDoes DEF Others, OneAtATime, Serially
  <2>. QED
    BY <2>1 DEF OnlyOne
<1>3. CASE Beside
  BY <1>3, BesideDoes DEF OneAtATime, Serially, OnlyOne
<1>4. CASE Staff!Restart
  BY <1>4, RestartDoes
<1>. QED
  BY <1>1, <1>2, <1>3, <1>4, StaffSteps

LEMMA UnchangedNext ==
    ASSUME Recorded, OneAtATime, Serially, Staff!Step, NEW r \in StaffRequests, staffRequests'[r] # Staff!Idle
    PROVE  (Unchanged(r))'
<1>0. (OnlyOne(r))'
  BY OnlyOneNext
<1>1. ASSUME NEW q \in StaffRequests, NEW op, Staff!Begin(q, op) PROVE (Unchanged(r))'
  <2>1. q = r
    BY <1>1, BeginDoes DEF Others, Staff!Quiet
  <2>. QED
    BY <1>1, <2>1, BeginDoes DEF Unchanged, StepOf
<1>2. ASSUME NEW q \in StaffRequests, OwnStep(q) PROVE (Unchanged(r))'
  <2>1. q = r /\ Unchanged(r)
    BY <1>2, OwnStepDoes DEF Others, OneAtATime, Serially
  <2>2. OwnStep(r)
    BY <1>2, <2>1
  <2>3. ASSUME Moves(r, "shown") \/ Moves(r, "cleared") \/ Moves(r, "deleted") PROVE (Unchanged(r))'
    BY <2>3, MovesDoes DEF Unchanged, StepOf
  <2>4. ~Ends(r)
    BY EndsDoes
  <2>5. CASE Staff!SavePhoto(r)
    <3>1. /\ staffRequests'[r].photo = staffRequests[r].photo /\ staffRequests'[r].status = staffRequests[r].status
          /\ postman' = postman /\ StepOf(r) = "read"
      BY <2>5 DEF Staff!SavePhoto, Staff!At, StepOf, Recorded, JobOf
    <3>. QED
      BY <2>1, <3>1 DEF Unchanged
  <2>6. CASE Staff!CountRecords(r)
    <3>1. Moves(r, "counted") /\ postman' = postman /\ StepOf(r) = "read"
      BY <2>4, <2>6 DEF Staff!CountRecords, Staff!Refused, Staff!Done, Staff!GoTo, Ends, Moves, Staff!At, StepOf
    <3>. QED
      BY <2>1, <3>1, MovesDoes DEF Unchanged
  <2>. QED
    BY <2>2, <2>3, <2>4, <2>5, <2>6 DEF OwnStep, Staff!ShowPhoto, Staff!NotTaken, Staff!RemovePhoto, Staff!ClearPhoto,
       Staff!Switch, Staff!Update, Staff!CreateAccount, Staff!ResetPassword, Staff!DeleteRow, Staff!Refused,
       Staff!GoTo, Staff!Done, Ends, Moves
<1>3. CASE Beside
  BY <1>3, BesideDoes DEF OneAtATime, Serially, Unchanged, StepOf
<1>4. CASE Staff!Restart
  BY <1>4, RestartDoes
<1>. QED
  BY <1>1, <1>2, <1>3, <1>4, StaffSteps

(* The files: while no stop cuts a request off, the only one that runs     *)
(* knows every file but the one shown.                                     *)
LEMMA OwnStepTidies ==
    ASSUME Recorded, NEW r \in StaffRequests, OwnStep(r), Unchanged(r), Tidy(r)
    PROVE  (Tidy(r))'
<1>1. ASSUME StepOf(r) \in {"read", "counted"}, Ends(r), files' = files, postman'.photo = postman.photo
      PROVE  (Tidy(r))'
  <2>1. StepOf(r)' = "idle"
    BY <1>1, EndsDoes DEF StepOf, Staff!Idle
  <2>. QED
    BY <1>1, <2>1 DEF Tidy, Saved, Leaving
<1>2. ASSUME StepOf(r) \in {"read", "counted"}, NEW step \in {"cleared", "deleted"}, Moves(r, step), files' = files
      PROVE  (Tidy(r))'
  <2>1. /\ StepOf(r)' = step /\ staffRequests'[r].photo = staffRequests[r].photo
        /\ staffRequests[r].photo = postman.photo
    BY <1>2, MovesDoes DEF StepOf, Unchanged
  <2>. QED
    BY <1>2, <2>1 DEF Tidy, Saved, Leaving
<1>3. CASE Staff!SavePhoto(r)
  <2>1. /\ StepOf(r) = "read" /\ StepOf(r)' = "saved" /\ staffRequests'[r].url = uploads + 1
        /\ files' = files \cup {uploads + 1} /\ postman' = postman
    BY <1>3 DEF Staff!SavePhoto, Staff!At, StepOf, Recorded, JobOf
  <2>. QED
    BY <2>1 DEF Tidy, Saved, Leaving
<1>4. CASE Staff!ShowPhoto(r)
  <2>1. StepOf(r) = "saved" /\ files \subseteq {postman.photo, staffRequests[r].url}
    BY <1>4 DEF Staff!ShowPhoto, Staff!At, StepOf, Tidy, Saved
  <2>2. CASE Staff!NotTaken(r)
    <3>1. Ends(r) /\ files' = files \ {staffRequests[r].url} /\ postman' = postman
      BY <2>2 DEF Staff!NotTaken, Staff!Without, Staff!Done, Ends
    <3>2. StepOf(r)' = "idle"
      BY <3>1, EndsDoes DEF StepOf, Staff!Idle
    <3>. QED
      BY <2>1, <3>1, <3>2 DEF Tidy, Saved, Leaving
  <2>3. CASE ~Staff!NotTaken(r)
    <3>1. Moves(r, "shown") /\ files' = files /\ postman'.photo = staffRequests[r].url
      BY <1>4, <2>3 DEF Staff!ShowPhoto, Staff!GoTo, Moves, Staff!pictures, Recorded
    <3>2. /\ StepOf(r)' = "shown" /\ staffRequests'[r].photo = staffRequests[r].photo
          /\ staffRequests[r].photo = postman.photo
      BY <2>1, <3>1, MovesDoes DEF StepOf, Unchanged
    <3>. QED
      BY <2>1, <3>1, <3>2 DEF Tidy, Saved, Leaving
  <2>. QED
    BY <2>2, <2>3
<1>5. CASE Staff!RemovePhoto(r)
  <2>1. Leaving(r) /\ ~Saved(r) /\ Ends(r) /\ files' = files \ {staffRequests[r].photo} /\ postman' = postman
    BY <1>5 DEF Staff!RemovePhoto, Staff!Without, Staff!Replaced, Staff!Done, Ends, Leaving, Saved, StepOf
  <2>2. StepOf(r)' = "idle"
    BY <2>1, EndsDoes DEF StepOf, Staff!Idle
  <2>. QED
    BY <2>1, <2>2 DEF Tidy, Saved, Leaving
<1>6. CASE Staff!ClearPhoto(r) \/ Staff!DeleteRow(r)
  <2>1. StepOf(r) \in {"read", "counted"}
    BY <1>6 DEF Staff!ClearPhoto, Staff!DeleteRow, Staff!At, StepOf
  <2>2. CASE Staff!Refused(r)
    BY <1>1, <2>1, <2>2 DEF Staff!Refused, Staff!Done, Ends, Staff!pictures
  <2>3. CASE ~Staff!Refused(r)
    BY <1>2, <1>6, <2>1, <2>3 DEF Staff!ClearPhoto, Staff!DeleteRow, Staff!GoTo, Moves, Staff!pictures
  <2>. QED
    BY <2>2, <2>3
<1>7. CASE Staff!CountRecords(r)
  <2>1. StepOf(r) = "read"
    BY <1>7 DEF Staff!CountRecords, Staff!At, StepOf
  <2>2. CASE Staff!Refused(r)
    BY <1>1, <2>1, <2>2 DEF Staff!Refused, Staff!Done, Ends, Staff!pictures
  <2>3. CASE ~Staff!Refused(r)
    <3>1. Moves(r, "counted") /\ files' = files /\ postman' = postman
      BY <1>7, <2>3 DEF Staff!CountRecords, Staff!GoTo, Moves, Staff!pictures
    <3>2. StepOf(r)' = "counted"
      BY <3>1, MovesDoes DEF StepOf
    <3>. QED
      BY <2>1, <3>1, <3>2 DEF Tidy, Saved, Leaving
  <2>. QED
    BY <2>2, <2>3
<1>8. CASE \/ Staff!Switch(r, "activate", "ACTIVE") \/ Staff!Switch(r, "deactivate", "INACTIVE")
           \/ \E status \in Staff!Statuses : Staff!Update(r, status)
           \/ Staff!CreateAccount(r) \/ Staff!ResetPassword(r)
  <2>1. StepOf(r) = "read" /\ Ends(r) /\ files' = files /\ postman'.photo = postman.photo
    BY <1>8 DEF Staff!Switch, Staff!Update, Staff!CreateAccount, Staff!ResetPassword, Staff!Refused, Staff!Done, Ends,
       Staff!pictures, Staff!applyPostmanStatus, Staff!At, StepOf, Recorded
  <2>. QED
    BY <1>1, <2>1
<1>. QED
  BY <1>3, <1>4, <1>5, <1>6, <1>7, <1>8 DEF OwnStep

-----------------------------------------------------------------------------

LEMMA CleanNext ==
    ASSUME Recorded, OneAtATime, Staff!NoOrphanPhoto, Serially, "stops" \notin staffWorld,
           Staff!Step, staffWorld' = staffWorld
    PROVE  /\ \A r \in StaffRequests : staffRequests'[r] # Staff!Idle => (Tidy(r))'
           /\ Staff!NoOrphanPhoto'
<1>0. staffWorld \cap {"overlap", "stops"} = {}
  BY DEF Serially
<1>1. ASSUME NEW q \in StaffRequests, NEW op, Staff!Begin(q, op)
      PROVE  /\ \A r \in StaffRequests : staffRequests'[r] # Staff!Idle => (Tidy(r))'
             /\ ~(Staff!Quiet)'
  <2>1. /\ Staff!Quiet /\ Others(q) /\ StepOf(q)' = "read" /\ files' = files /\ postman' = postman
    BY <1>1, BeginDoes DEF StepOf
  <2>2. files \subseteq {postman.photo}
    BY <1>0, <2>1 DEF Staff!NoOrphanPhoto
  <2>3. staffRequests'[q] # Staff!Idle
    BY <2>1 DEF StepOf, Staff!Idle
  <2>4. (Tidy(q))'
    BY <2>1, <2>2 DEF Tidy, Saved, Leaving
  <2>. QED
    BY <2>1, <2>3, <2>4 DEF Others, Staff!Quiet
<1>2. ASSUME NEW q \in StaffRequests, OwnStep(q)
      PROVE  /\ \A r \in StaffRequests : staffRequests'[r] # Staff!Idle => (Tidy(r))'
             /\ (Staff!Quiet)' => files' \subseteq {postman'.photo}
  <2>1. staffRequests[q] # Staff!Idle /\ Others(q) /\ \A s \in StaffRequests \ {q} : staffRequests[s] = Staff!Idle
    BY <1>2, OwnStepDoes DEF OneAtATime, Serially
  <2>2. (Tidy(q))'
    BY <1>2, <2>1, OwnStepTidies DEF OneAtATime, Serially
  <2>3. ASSUME (Staff!Quiet)' PROVE files' \subseteq {postman'.photo}
    <3>1. StepOf(q)' = "idle"
      BY <2>3 DEF Staff!Quiet, StepOf, Staff!Idle
    <3>. QED
      BY <2>2, <3>1 DEF Tidy, Saved, Leaving
  <2>. QED
    BY <2>1, <2>2, <2>3 DEF Others
<1>3. CASE Beside
  <2>1. UNCHANGED <<postman, files, staffRequests>>
    BY <1>3, BesideDoes
  <2>. QED
    BY <2>1 DEF OneAtATime, Serially, Tidy, Saved, Leaving, StepOf, Staff!NoOrphanPhoto, Staff!Quiet
<1>4. ~Staff!Restart
  BY RestartDoes
<1>. QED
  BY <1>1, <1>2, <1>3, <1>4, StaffSteps DEF Staff!NoOrphanPhoto

(* The names: while parcels and fixes do not come in between, what was     *)
(* counted is what there is.                                               *)
LEMMA UnnamedNext ==
    ASSUME Recorded, OneAtATime, Serially, "busy" \notin staffWorld, Staff!Step,
           NEW r \in StaffRequests, staffRequests'[r] # Staff!Idle
    PROVE  (Unnamed(r))'
<1>1. ASSUME NEW q \in StaffRequests, NEW op, Staff!Begin(q, op) PROVE (Unnamed(r))'
  <2>1. q = r
    BY <1>1, BeginDoes DEF Others, Staff!Quiet
  <2>. QED
    BY <1>1, <2>1, BeginDoes DEF Unnamed, StepOf
<1>2. ASSUME NEW q \in StaffRequests, OwnStep(q) PROVE (Unnamed(r))'
  <2>1. q = r
    BY <1>2, OwnStepDoes DEF Others, OneAtATime, Serially
  <2>2. OwnStep(r) /\ ~Ends(r)
    BY <1>2, <2>1, EndsDoes
  <2>3. ASSUME Moves(r, "shown") \/ Moves(r, "cleared") \/ Moves(r, "deleted") PROVE (Unnamed(r))'
    BY <2>3, MovesDoes DEF Unnamed, StepOf
  <2>4. CASE Staff!SavePhoto(r)
    <3>1. StepOf(r)' = "saved"
      BY <2>4 DEF Staff!SavePhoto, StepOf, Recorded, JobOf
    <3>. QED
      BY <3>1 DEF Unnamed
  <2>5. CASE Staff!CountRecords(r)
    BY <2>2, <2>5 DEF Staff!CountRecords, Staff!Counted, Staff!Refused, Staff!Done, Ends, Staff!records, Unnamed
  <2>. QED
    BY <2>2, <2>3, <2>4, <2>5 DEF OwnStep, Staff!ShowPhoto, Staff!NotTaken, Staff!RemovePhoto, Staff!ClearPhoto,
       Staff!Switch, Staff!Update, Staff!CreateAccount, Staff!ResetPassword, Staff!DeleteRow, Staff!Refused,
       Staff!GoTo, Staff!Done, Ends, Moves
<1>3. CASE Beside
  <2>1. TokenComes /\ staffRequests'[r] = staffRequests[r]
    BY <1>3, BesideDoes DEF Staff!Quiet
  <2>2. Unnamed(r) /\ named' = named /\ login'.exists = login.exists
    BY <2>1, TokenComesDoes DEF OneAtATime, Serially
  <2>. QED
    BY <2>1, <2>2 DEF Unnamed, StepOf
<1>4. ~Staff!Restart
  BY RestartDoes
<1>. QED
  BY <1>1, <1>2, <1>3, <1>4, StaffSteps

LEMMA SeveredNext ==
    ASSUME Recorded, OneAtATime, Staff!NothingIsSevered, Staff!Step, staffWorld' = staffWorld
    PROVE  Staff!NothingIsSevered'
<1>1. ASSUME severed' = severed PROVE Staff!NothingIsSevered'
  BY <1>1 DEF Staff!NothingIsSevered
<1>2. ASSUME NEW r \in StaffRequests, Staff!DeleteRow(r), ~Staff!Refused(r) PROVE Staff!NothingIsSevered'
  <2>1. /\ severed' = severed \cup named \cup (IF login.exists THEN {"User"} ELSE {})
        /\ named \cap Staff!Required = {} /\ StepOf(r) = "counted" /\ staffRequests[r] # Staff!Idle
    BY <1>2, OwnStepDoes DEF Staff!DeleteRow, Staff!At, StepOf, OwnStep
  <2>2. severed' \cap Staff!Required = {}
    BY <2>1 DEF Staff!NothingIsSevered, Staff!Required
  <2>3. ASSUME staffWorld \cap {"overlap", "busy"} = {} PROVE severed' = {}
    <3>1. named = {} /\ ~login.exists
      BY <2>1, <2>3 DEF OneAtATime, Unnamed
    <3>2. severed = {}
      BY <2>3 DEF Staff!NothingIsSevered
    <3>. QED
      BY <2>1, <3>1, <3>2
  <2>. QED
    BY <2>2, <2>3 DEF Staff!NothingIsSevered
<1>3. ASSUME NEW r \in StaffRequests, OwnStep(r) PROVE Staff!NothingIsSevered'
  <2>1. (Staff!DeleteRow(r) /\ ~Staff!Refused(r)) \/ severed' = severed
    BY <1>3 DEF OwnStep, Staff!SavePhoto, Staff!ShowPhoto, Staff!NotTaken, Staff!RemovePhoto, Staff!ClearPhoto,
       Staff!Switch, Staff!Update, Staff!CreateAccount, Staff!ResetPassword, Staff!CountRecords, Staff!Refused,
       Staff!records
  <2>. QED
    BY <1>1, <1>2, <2>1
<1>4. ASSUME NEW r \in StaffRequests, NEW op, Staff!Begin(r, op) PROVE severed' = severed
  BY <1>4, BeginDoes
<1>. QED
  BY <1>1, <1>3, <1>4, BesideDoes, RestartDoes, StaffSteps

(* The login.                                                              *)
LEMMA LoginIsFollowed ==
    ASSUME Recorded
    PROVE  /\ \A status : Staff!NewLogin(status).status = status /\ ~Staff!NewLogin(status).signedIn
                            /\ Staff!NewLogin(status).asking = "nothing"
           /\ \A l \in Logins :
                /\ Staff!Revoked(l).status = l.status /\ ~Staff!Revoked(l).signedIn
                /\ Staff!Revoked(l).exists = l.exists
                /\ Staff!Revoked(l).asking # "nothing" => Staff!Revoked(l).overtaken
           /\ \A l \in Staff!CutOff :
                /\ l.exists = login.exists /\ l.status = login.status /\ l.overtaken = login.overtaken
                /\ l.asking = "nothing" /\ (l.signedIn => login.signedIn)
<1>0. login \in Logins
  BY DEF Recorded
<1>1. \A status : Staff!NewLogin(status).status = status /\ ~Staff!NewLogin(status).signedIn
                   /\ Staff!NewLogin(status).asking = "nothing"
  BY DEF Staff!NewLogin
<1>2. ASSUME NEW l \in Logins
      PROVE  /\ Staff!Revoked(l).status = l.status /\ ~Staff!Revoked(l).signedIn
             /\ Staff!Revoked(l).exists = l.exists
             /\ Staff!Revoked(l).asking # "nothing" => Staff!Revoked(l).overtaken
  BY DEF Logins, Staff!Revoked
<1>3. ASSUME NEW l \in Staff!CutOff
      PROVE  /\ l.exists = login.exists /\ l.status = login.status /\ l.overtaken = login.overtaken
             /\ l.asking = "nothing" /\ (l.signedIn => login.signedIn)
  <2>1. PICK s \in {login.signedIn} \cup (IF login.asking # "nothing" THEN {FALSE} ELSE {}) :
              l = [login EXCEPT !.asking = "nothing", !.signedIn = s]
    BY <1>3 DEF Staff!CutOff
  <2>2. s = login.signedIn \/ s = FALSE
    BY <2>1
  <2>3. /\ l.exists = login.exists /\ l.status = login.status /\ l.overtaken = login.overtaken
        /\ l.asking = "nothing" /\ l.signedIn = s
    BY <1>0, <2>1 DEF Logins
  <2>. QED
    BY <2>2, <2>3
<1>. QED
  BY <1>1, <1>2, <1>3

LEMMA FollowsNext ==
    ASSUME Recorded, OneAtATime, Serially, "accounts" \notin staffWorld, Follows, Staff!Step
    PROVE  Follows'
<1>0. postman \in [exists : BOOLEAN, status : Staff!Statuses, photo : 0..uploads] /\ login \in Logins
  BY DEF Recorded
<1>1. ASSUME login' = login, postman'.status = postman.status, postman'.exists => postman.exists
      PROVE  Follows'
  BY <1>1 DEF Follows
<1>2. ASSUME NEW status \in Staff!Statuses, Staff!applyPostmanStatus(status) PROVE Follows'
  <2>1. postman'.status = status /\ login' = Staff!LoginFor(status)
    BY <1>0, <1>2 DEF Staff!applyPostmanStatus
  <2>2. CASE status = "ACTIVE"
    BY <1>0, <2>1, <2>2 DEF Staff!LoginFor, Follows, Logins
  <2>3. CASE status = "INACTIVE"
    <3> DEFINE l == [login EXCEPT !.status = "INACTIVE"]
    <3>1. l \in Logins /\ l.status = "INACTIVE" /\ l.exists = login.exists
      BY <1>0 DEF Logins
    <3>2. login.exists => login' = Staff!Revoked(l)
      BY <2>1, <2>3 DEF Staff!LoginFor
    <3>3. ~login.exists => login' = login
      BY <2>1 DEF Staff!LoginFor
    <3> HIDE DEF l
    <3>. QED
      BY <2>1, <2>3, <3>1, <3>2, <3>3, LoginIsFollowed DEF Follows
  <2>4. CASE status = "ON_LEAVE"
    BY <2>1, <2>4 DEF Follows
  <2>. QED
    BY <2>2, <2>3, <2>4 DEF Staff!Statuses
<1>3. ASSUME NEW r \in StaffRequests, OwnStep(r) PROVE Follows'
  <2>1. staffRequests[r] # Staff!Idle
    BY <1>3, OwnStepDoes
  <2>2. CASE Staff!SavePhoto(r) \/ Staff!ShowPhoto(r) \/ Staff!RemovePhoto(r) \/ Staff!ClearPhoto(r)
             \/ Staff!CountRecords(r) \/ Staff!Refused(r)
    BY <1>0, <1>1, <2>2 DEF Staff!SavePhoto, Staff!ShowPhoto, Staff!NotTaken, Staff!RemovePhoto, Staff!ClearPhoto,
       Staff!CountRecords, Staff!Refused
  <2>3. CASE Staff!DeleteRow(r) /\ ~Staff!Refused(r)
    <3>1. ~postman'.exists
      BY <1>0, <2>3 DEF Staff!DeleteRow
    <3>. QED
      BY <3>1 DEF Follows
  <2>4. CASE ~Staff!Refused(r) /\ (Staff!Switch(r, "activate", "ACTIVE") \/ Staff!Switch(r, "deactivate", "INACTIVE")
                                   \/ \E status \in Staff!Statuses : Staff!Update(r, status))
    BY <1>2, <2>4 DEF Staff!Switch, Staff!Update, Staff!Statuses
  <2>5. CASE Staff!CreateAccount(r) /\ ~Staff!Refused(r)
    <3>1. /\ login' = Staff!NewLogin(Staff!StatusOfLogin(r))
          /\ postman' = postman /\ StepOf(r) = "read"
      BY <2>5 DEF Staff!CreateAccount, Staff!At, StepOf
    <3>2. staffRequests[r].status = postman.status
      BY <2>1, <3>1 DEF OneAtATime, Serially, Unchanged
    <3>. QED
      BY <3>1, <3>2, LoginIsFollowed DEF Follows, Staff!StatusOfLogin
  <2>6. CASE Staff!ResetPassword(r) /\ ~Staff!Refused(r)
    <3>1. login' = Staff!Revoked(login) /\ postman' = postman
      BY <2>6 DEF Staff!ResetPassword
    <3>. QED
      BY <1>0, <3>1, LoginIsFollowed DEF Follows
  <2>. QED
    BY <1>3, <2>2, <2>3, <2>4, <2>5, <2>6 DEF OwnStep
<1>4. CASE Beside
  <2>1. postman' = postman
    BY <1>4, BesideDoes
  <2>2. CASE Staff!StartSignIn \/ Staff!StartRenewal
    <3>1. PICK for \in {"signIn", "renewal"} :
            login' = [login EXCEPT !.asking = for] /\ (login.status = "ACTIVE" \/ login.signedIn)
      BY <2>2 DEF Staff!StartSignIn, Staff!StartRenewal, Staff!Ask
    <3>2. /\ login'.exists = login.exists /\ login'.status = login.status
          /\ login'.signedIn = login.signedIn /\ login'.overtaken = login.overtaken
      BY <1>0, <3>1 DEF Logins
    <3>. QED
      BY <2>1, <3>1, <3>2 DEF Follows
  <2>3. CASE TokenComes
    <3>1. /\ login.asking # "nothing" /\ login'.exists = login.exists
          /\ login'.status = login.status /\ login'.overtaken = login.overtaken
      BY <2>3, TokenComesDoes
    <3>. QED
      BY <2>1, <3>1 DEF Follows
  <2>4. CASE Staff!Work
    <3>1. login' = login
      BY <2>4 DEF Staff!Work
    <3>. QED
      BY <1>1, <2>1, <3>1
  <2>5. ~Staff!CreateLogin /\ ~\E status \in {"ACTIVE", "INACTIVE"} : Staff!SwitchLogin(status)
    BY DEF Staff!SwitchLogin, Staff!CreateLogin, Staff!May
  <2>6. \/ Staff!StartSignIn \/ Staff!StartRenewal \/ TokenComes \/ Staff!Work
    BY <1>4, <2>5 DEF Beside, TokenComes
  <2>. QED
    BY <2>2, <2>3, <2>4, <2>6
<1>5. ASSUME NEW r \in StaffRequests, NEW op, Staff!Begin(r, op) PROVE login' = login /\ postman' = postman
  BY <1>5, BeginDoes
<1>6. CASE Staff!Restart
  <2>1. login' \in Staff!CutOff /\ postman' = postman
    BY <1>6, RestartDoes
  <2>2. /\ login'.exists = login.exists /\ login'.status = login.status /\ login'.overtaken = login.overtaken
        /\ login'.asking = "nothing" /\ (login'.signedIn => login.signedIn)
    BY <2>1, LoginIsFollowed
  <2>. QED
    BY <2>1, <2>2 DEF Follows
<1>. QED
  BY <1>1, <1>3, <1>4, <1>5, <1>6, StaffSteps

LEMMA StaffInvInit == ASSUME NEW w, Staff!InitIn(w) PROVE StaffInv
<1>1. /\ postman = [exists |-> TRUE, status |-> "ACTIVE", photo |-> Staff!NoPhoto]
      /\ login = Staff!NoLogin /\ named = {} /\ severed = {} /\ files = {} /\ uploads = 0
      /\ staffRequests = [r \in StaffRequests |-> Staff!Idle]
  BY DEF Staff!InitIn
<1>0. Staff!NoLogin \in Logins /\ ~Staff!NoLogin.exists
  <2>1. Staff!NewLogin("INACTIVE") \in Logins
    BY DEF Staff!NewLogin, Logins
  <2>2. \A l \in Logins : [l EXCEPT !.exists = FALSE] \in Logins /\ ~[l EXCEPT !.exists = FALSE].exists
    BY DEF Logins
  <2>. QED
    BY <2>1, <2>2 DEF Staff!NoLogin
<1>2. Recorded
  BY <1>0, <1>1, IdleIsAJob DEF Recorded, Staff!NoPhoto, Staff!Statuses
<1>3. \A r \in StaffRequests : StepOf(r) = "idle"
  BY <1>1 DEF StepOf, Staff!Idle
<1>4. Pictures
  BY <1>1, <1>3 DEF Pictures, Staff!ShownPhotoExists, Saved, Leaving
<1>5. OneAtATime
  BY <1>1 DEF OneAtATime
<1>6. StaffRecordsAgree
  BY <1>0, <1>1 DEF StaffRecordsAgree, Staff!StaffRecordsAgree, Staff!ShownPhotoExists, Staff!NoOrphanPhoto,
     Staff!LoginFollowsStatus, Staff!NothingIsSevered
<1>7. Follows
  BY <1>0, <1>1 DEF Follows
<1>. QED
  BY <1>2, <1>4, <1>5, <1>6, <1>7 DEF StaffInv

LEMMA StaffInvNext == StaffInv /\ [Staff!Next]_staffVars => StaffInv'
<1>1. ASSUME StaffInv, Staff!Next PROVE StaffInv'
  <2>0. Recorded /\ Pictures /\ OneAtATime /\ Staff!Step /\ staffWorld' = staffWorld
    BY <1>1 DEF StaffInv, Staff!Next
  <2>1. Recorded' /\ Pictures'
    BY <2>0, RecordedNext, PicturesNext
  <2>2. OneAtATime'
    BY <1>1, <2>0, OnlyOneNext, UnchangedNext, CleanNext, UnnamedNext
       DEF OneAtATime, Serially, OnlyOne, StaffInv, StaffRecordsAgree, Staff!StaffRecordsAgree
  <2>3. Staff!ShownPhotoExists'
    BY <2>1 DEF Pictures
  <2>4. Staff!NoOrphanPhoto'
    <3>1. CASE staffWorld \cap {"overlap", "stops"} = {}
      BY <1>1, <2>0, <3>1, CleanNext DEF Serially, StaffInv, StaffRecordsAgree, Staff!StaffRecordsAgree
    <3>. QED
      BY <2>0, <3>1 DEF Staff!NoOrphanPhoto
  <2>5. staffWorld \cap {"accounts", "overlap"} = {} => Follows'
    BY <1>1, <2>0, FollowsNext DEF Serially, StaffInv
  <2>7. Staff!LoginFollowsStatus'
    BY <2>0, <2>5 DEF Staff!LoginFollowsStatus, Follows
  <2>6. Staff!NothingIsSevered'
    BY <1>1, <2>0, SeveredNext DEF StaffInv, StaffRecordsAgree, Staff!StaffRecordsAgree
  <2>. QED
    BY <2>0, <2>1, <2>2, <2>3, <2>4, <2>5, <2>6, <2>7 DEF StaffInv, StaffRecordsAgree, Staff!StaffRecordsAgree
<1>2. ASSUME StaffInv, UNCHANGED staffVars PROVE StaffInv'
  <2>1. Recorded'
    BY <1>2 DEF StaffInv, staffVars, Recorded, Logins
  <2>2. Pictures'
    BY <1>2 DEF StaffInv, staffVars, Pictures, Staff!ShownPhotoExists, Saved, Leaving, StepOf
  <2>3. OneAtATime'
    BY <1>2 DEF StaffInv, staffVars, OneAtATime, Unchanged, Tidy, Unnamed, Saved, Leaving, StepOf
  <2>4. StaffRecordsAgree'
    BY <1>2 DEF StaffInv, staffVars, StaffRecordsAgree, Staff!StaffRecordsAgree, Staff!ShownPhotoExists,
       Staff!NoOrphanPhoto, Staff!LoginFollowsStatus, Staff!NothingIsSevered, Staff!Quiet
  <2>5. staffWorld' = staffWorld /\ (Follows => Follows')
    BY <1>2 DEF staffVars, Follows
  <2>. QED
    BY <1>2, <2>1, <2>2, <2>3, <2>4, <2>5 DEF StaffInv
<1>. QED
  BY <1>1, <1>2

-----------------------------------------------------------------------------
(* Theorems *)

OfficeInv == Shaped /\ Typed /\ Current /\ Decided /\ Matched /\ Announced

LEMMA OfficeInvInit == ASSUME NEW w, InitIn(w) PROVE OfficeInv
BY ShapedInit, TypedInit, CurrentInit, DecidedInit, MatchedInit, AnnouncedInit DEF OfficeInv

LEMMA OfficeInvNext == OfficeInv /\ [Next]_vars => OfficeInv'
BY ShapedNext, TypedNext, CurrentNext, DecidedNext, MatchedNext, AnnouncedNext DEF OfficeInv

(* A behaviour is one of the office or one of the staff.                   *)
LEMMA BothHold == Administration => []OfficeInv /\ []StaffInv
<1>1. OfficeOrStaff => OfficeInv /\ StaffInv
  <2>1. StartOffice \/ StartStaff => (\E w : InitIn(w)) /\ (\E w : Staff!InitIn(w))
    BY DEF StartOffice, StartStaff, Init, Staff!Init
  <2>. QED
    BY <2>1, OfficeInvInit, StaffInvInit DEF OfficeOrStaff
<1>2. [OfficeStep \/ StaffStep]_<<vars, staffVars>> => [Next]_vars /\ [Staff!Next]_staffVars
  BY DEF OfficeStep, StaffStep
<1>3. OfficeInv /\ [OfficeStep \/ StaffStep]_<<vars, staffVars>> => OfficeInv'
  BY <1>2, OfficeInvNext
<1>4. StaffInv /\ [OfficeStep \/ StaffStep]_<<vars, staffVars>> => StaffInv'
  BY <1>2, StaffInvNext
<1>. QED
  BY <1>1, <1>3, <1>4, PTL DEF Administration

(* What waits and what is placed goes by the beats as they are: whatever   *)
(* overlaps, the entries cached by beatDirectory.ts are those of the beats *)
(* unless a request is about to invalidate them or they were cached after  *)
(* an invalidation; and with one request at a time no parcel waits whose   *)
(* beat its words and place tell, nor one its neighbours tell unless one   *)
(* of them has moved since it was matched (rematchOfficeDeliveries,        *)
(* nearestActiveDeliveryDistanceM).                                        *)
THEOREM MatchesStayCurrent == Administration => []MatchesAreCurrent
<1>1. OfficeInv => MatchesAreCurrent
  BY MatchedIsUnknown DEF OfficeInv, Current, MatchesAreCurrent, CachedIsCurrent, Fresh, Listing, Invalidating
<1>. QED
  BY <1>1, BothHold, PTL

(* An overlap is a decision, never an accident: with one request at a      *)
(* time, two verified territories in use overlap only knowingly, or        *)
(* because one of the beats came back into use, for any territories and    *)
(* any list (beats.routes.ts, territories.ts).                             *)
THEOREM OverlapsStayDecided == Administration => []OverlapsAreDecided
<1>1. OfficeInv => OverlapsAreDecided
  BY DEF OfficeInv, Decided, OverlapsAreDecided
<1>. QED
  BY <1>1, BothHold, PTL

(* A postman is told of as many deliveries as came to him and left him,    *)
(* and a stop of the server can only lose some of it: what was committed   *)
(* is told, in a batch, or about to be announced, because a match changes  *)
(* the parcel it read (assignment.service.ts, assignmentNotifications.ts). *)
THEOREM PostmenAreToldWhatHappened == Administration => []ToldWhatHappened
<1>1. OfficeInv => ToldWhatHappened
  BY DEF OfficeInv, Announced, ToldWhatHappened
<1>. QED
  BY <1>1, BothHold, PTL

(* A locality of several beats is reported, not guessed: whatever the      *)
(* letters, the beats and their localities, the weights of words and the   *)
(* spellings taken for the same, no letter is given by its words alone to  *)
(* a beat whose localities in it are all another's too, unless it mentions *)
(* one of the beat's main areas; the other beat has as many points         *)
(* (classify and scoreEntries in beatMatcher.ts).                          *)
THEOREM SharedLocalitiesAreNotGuessed == Administration => []SharedLocalityIsNotGuessed
<1>1. OfficeInv => SharedLocalityIsNotGuessed
  BY NormalisedIs, NotGuessed DEF OfficeInv, Typed, Worded, SharedLocalityIsNotGuessed
<1>. QED
  BY <1>1, BothHold, PTL

(* The row of a postman, his pictures, his login and what names him agree, *)
(* however many requests overlap and wherever the server stops: the        *)
(* picture shown is in the folder; one change at a time leaves no other;   *)
(* the login follows the status, and a token live of who is INACTIVE was   *)
(* on its way when the others were revoked; and who is named is not        *)
(* deleted (postmen.routes.ts, postman.service.ts, imageStorage.ts,        *)
(* auth.routes.ts, auth.service.ts).                                       *)
THEOREM StaffRecordsStayTrue == Administration => []StaffRecordsAgree
<1>1. StaffInv => StaffRecordsAgree
  BY DEF StaffInv
<1>. QED
  BY <1>1, BothHold, PTL

-----------------------------------------------------------------------------
(* The wizard: a list, its calls, and what the panel shows of it *)

CallFields == {"kind", "list", "step", "heard", "preview", "record", "file", "mapping", "shown"}
ListFields == {"file", "mapping", "status"}
StepOK(c) ==
    \/ c.kind = "upload" /\ c.step \in {"sent", "check", "answered"}
    \/ c.kind = "mapping" /\ c.step \in {"sent", "write", "check", "answered"}
    \/ c.kind = "cancel" /\ c.step \in {"sent", "write", "answered"}
    \/ c.kind = "confirm" /\ c.step \in {"sent", "check", "import", "answered"}

(* A preview is the check of its list's file.                              *)
Faithful(p) ==
    /\ p.list \in DOMAIN lists
    /\ p.adds = checkBeatList(Table[lists[p.list].file], p.mapping, p.known)

Carries(c) ==
    /\ c.kind = "upload" /\ c.step = "sent" => c.list \notin DOMAIN lists /\ c.file \in DOMAIN Files
    /\ c.kind # "upload" \/ c.step = "check" => c.list \in DOMAIN lists
    /\ c.step \in {"write", "check", "import"} =>
         DOMAIN c.record = ListFields /\ c.record.file = lists[c.list].file
    /\ c.preview # NoPreview =>
         c.step \in {"import", "answered"} /\ c.preview.list = c.list /\ Faithful(c.preview)
    /\ c.kind = "confirm" => c.shown.list = c.list /\ Faithful(c.shown)
    /\ c.step = "import" => c.preview # NoPreview /\ c.preview.mapping = c.record.mapping

CallOK(c) ==
    /\ DOMAIN c = CallFields /\ StepOK(c) /\ c.heard \in BOOLEAN /\ c.list \in 1..left.lists
    /\ Carries(c)

PanelShape ==
    /\ "lists" \in DOMAIN left /\ left.lists \in Nat
    /\ DOMAIN lists \subseteq 1..left.lists
    /\ \A i \in DOMAIN lists : DOMAIN lists[i] = ListFields /\ lists[i].file \in DOMAIN Files
    /\ DOMAIN wizard = {"open", "step", "preview", "busy", "done"}
    /\ wizard.open \in BOOLEAN /\ wizard.busy \in BOOLEAN
    /\ wizard.preview # NoPreview => Faithful(wizard.preview)
    /\ ~wizard.open => wizard.preview = NoPreview /\ \A c \in calls : ~c.heard
    /\ \A c \in calls : CallOK(c)

(* The file of a list never changes, and no list goes away.                *)
Grown ==
    /\ left'.lists = left.lists /\ "lists" \in DOMAIN left'
    /\ DOMAIN lists' \subseteq 1..left.lists
    /\ \A i \in DOMAIN lists' : DOMAIN lists'[i] = ListFields /\ lists'[i].file \in DOMAIN Files
    /\ \A i \in DOMAIN lists : i \in DOMAIN lists' /\ lists'[i].file = lists[i].file

LEMMA SameListsGrown ==
    ASSUME PanelShape, lists' = lists, left' = left \/ \E k : left' = [left EXCEPT !.changes = k]
    PROVE  Grown
BY DEF PanelShape, Grown

LEMMA FaithfulStays == ASSUME Grown, NEW p, Faithful(p) PROVE Faithful(p)'
BY DEF Grown, Faithful

LEMMA CallStays ==
    ASSUME Grown, NEW c, CallOK(c), c.kind = "upload" /\ c.step = "sent" => c.list \notin DOMAIN lists'
    PROVE  CallOK(c)'
<1>1. c.list \in DOMAIN lists => c.list \in DOMAIN lists' /\ lists'[c.list].file = lists[c.list].file
  BY DEF Grown
<1>2. (c.preview # NoPreview => Faithful(c.preview)') /\ (c.kind = "confirm" => Faithful(c.shown)')
  BY FaithfulStays DEF CallOK, Carries
<1>3. (c.kind # "upload" \/ c.step = "check" => c.list \in DOMAIN lists)
      /\ (c.step \in {"write", "check", "import"} => c.kind # "upload" \/ c.step = "check")
  BY DEF CallOK, Carries, StepOK
<1>4. Carries(c)'
  BY <1>1, <1>2, <1>3 DEF CallOK, Carries
<1>. QED
  BY <1>4 DEF CallOK, StepOK, Grown

-----------------------------------------------------------------------------
(* What a request does on the server *)

Like(d, c) ==
    DOMAIN d = CallFields /\ d.kind = c.kind /\ d.list = c.list /\ d.heard = c.heard /\ d.shown = c.shown
Advances(c, d) ==
    calls' = (calls \ {c}) \cup {d} /\ wizard' = wizard /\ left' = left /\ Like(d, c)
SameMappings ==
    /\ DOMAIN lists' = DOMAIN lists
    /\ \A i \in DOMAIN lists : /\ lists'[i].mapping = lists[i].mapping /\ lists'[i].file = lists[i].file
                               /\ DOMAIN lists'[i] = DOMAIN lists[i]
Untouched == SameMappings /\ beats' = beats /\ astray' = astray

Creates(c, d) ==
    /\ Advances(c, d) /\ c.kind = "upload" /\ c.step = "sent" /\ d.step = "check"
    /\ d.preview = NoPreview /\ DOMAIN d.record = ListFields /\ d.record.file = c.file
    /\ lists' = [i \in DOMAIN lists \cup {c.list} |-> IF i = c.list THEN d.record ELSE lists[i]]
    /\ beats' = beats /\ astray' = astray
Refuses(c, d) ==
    /\ Advances(c, d) /\ d.step = "answered" /\ d.preview = NoPreview /\ Untouched
    /\ c.kind = "mapping" => c.step = "sent"
Loads(c, d) ==
    /\ Advances(c, d) /\ c.kind # "upload" /\ c.step = "sent" /\ d.preview = NoPreview
    /\ \/ d.step = "check" /\ c.kind = "confirm"
       \/ d.step = "write" /\ c.kind \in {"mapping", "cancel"}
    /\ d.record = lists[c.list] /\ Untouched
Stores(c, d) ==
    /\ Advances(c, d) /\ c.kind = "mapping" /\ c.step = "write" /\ d.step = "check"
    /\ d.preview = NoPreview /\ d.record = [c.record EXCEPT !.mapping = c.mapping]
    /\ lists' = [lists EXCEPT ![c.list].mapping = c.mapping]
    /\ beats' = beats /\ astray' = IF c.heard THEN astray ELSE astray \cup {c.list}
Shows(c, d) ==
    /\ Advances(c, d) /\ c.kind \in {"upload", "mapping"} /\ c.step = "check" /\ d.step = "answered"
    /\ d.preview = buildPreview(c.list, c.record) /\ Untouched
Checks(c, d) ==
    /\ Advances(c, d) /\ c.kind = "confirm" /\ c.step = "check" /\ d.step = "import"
    /\ d.preview = buildPreview(c.list, c.record) /\ d.record = c.record /\ Untouched
Adds(c, d) ==
    /\ Advances(c, d) /\ c.kind = "confirm" /\ c.step = "import" /\ d.step = "answered"
    /\ d.preview = c.preview /\ SameMappings /\ astray' = astray
    /\ beats' = AddedTo(beats, c.preview.adds)

Work(c, d) == Creates(c, d) \/ Refuses(c, d) \/ Loads(c, d) \/ Stores(c, d) \/ Shows(c, d) \/ Checks(c, d) \/ Adds(c, d)

LEMMA AnsweredIs ==
    ASSUME NEW c, DOMAIN c = CallFields, NEW p
    PROVE  /\ Like(Answered(c, p), c) /\ Answered(c, p).step = "answered"
           /\ Answered(c, p).record = c.record /\ Answered(c, p).preview = p
BY DEF Answered, CallFields, Like

LEMMA HandlerWorks ==
    ASSUME PanelShape, NEW c \in calls, Handler(c)
    PROVE  \E d : Work(c, d)
<1>1. CallOK(c) /\ DOMAIN c = CallFields
  BY DEF PanelShape, CallOK
<1>2. c.step \in {"sent", "write", "check"} => c.preview = NoPreview
  BY <1>1 DEF CallOK, Carries
<1>3. lists' = lists => SameMappings
  BY DEF SameMappings
<1>4. ASSUME NEW next, Goes(c, next), Like(next, c), wizard' = wizard, left' = left
      PROVE  Advances(c, next)
  BY <1>4 DEF Goes, Advances
<1>5. ASSUME Goes(c, Answered(c, NoPreview)), wizard' = wizard, left' = left, Untouched,
             c.kind = "mapping" => c.step = "sent"
      PROVE  \E d : Work(c, d)
  <2>1. Refuses(c, Answered(c, NoPreview))
    BY <1>1, <1>4, <1>5, AnsweredIs DEF Refuses
  <2>. QED
    BY <2>1 DEF Work
<1>6. CASE CreateImport(c)
  <2> DEFINE record == [file |-> c.file, mapping |-> Suggestion[c.file], status |-> "PREVIEW_READY"]
             d == [c EXCEPT !.step = "check", !.record = record]
  <2>1. wizard' = wizard /\ left' = left /\ beats' = beats /\ astray' = astray
        /\ c.kind = "upload" /\ c.step = "sent"
    BY <1>6 DEF CreateImport, Client
  <2>2. \/ Goes(c, Answered(c, NoPreview)) /\ lists' = lists
        \/ /\ Goes(c, d)
           /\ lists' = [i \in DOMAIN lists \cup {c.list} |-> IF i = c.list THEN record ELSE lists[i]]
    BY <1>6 DEF CreateImport
  <2>3. DOMAIN record = ListFields /\ record.file = c.file
    BY DEF ListFields
  <2> HIDE DEF record
  <2>4. Like(d, c) /\ d.step = "check" /\ d.record = record /\ d.preview = c.preview
    BY <1>1 DEF CallFields, Like
  <2> HIDE DEF d
  <2>5. ASSUME Goes(c, d),
               lists' = [i \in DOMAIN lists \cup {c.list} |-> IF i = c.list THEN record ELSE lists[i]]
        PROVE  Creates(c, d)
    BY <1>2, <1>4, <2>1, <2>3, <2>4, <2>5 DEF Creates
  <2>. QED
    BY <1>3, <1>5, <2>1, <2>2, <2>5 DEF Work, Untouched
<1>7. CASE loadImport(c)
  <2> DEFINE d(s) == [c EXCEPT !.step = s, !.record = lists[c.list]]
  <2>1. wizard' = wizard /\ left' = left /\ Untouched /\ c.kind # "upload" /\ c.step = "sent"
    BY <1>3, <1>7 DEF loadImport, Client, Untouched
  <2>2. \/ Goes(c, d("check")) /\ c.kind = "confirm"
        \/ Goes(c, d("write")) /\ c.kind # "confirm"
        \/ Goes(c, d("answered"))
    BY <1>7 DEF loadImport
  <2>3. ASSUME NEW s
        PROVE  Like(d(s), c) /\ d(s).step = s /\ d(s).record = lists[c.list] /\ d(s).preview = c.preview
    BY <1>1 DEF CallFields, Like
  <2> HIDE DEF d
  <2>4. c.kind # "confirm" => c.kind \in {"mapping", "cancel"}
    BY <1>1, <2>1 DEF CallOK, StepOK
  <2>5. ASSUME NEW s, Goes(c, d(s))
        PROVE  Advances(c, d(s)) /\ d(s).step = s /\ d(s).record = lists[c.list] /\ d(s).preview = NoPreview
    BY <1>2, <1>4, <2>1, <2>3, <2>5
  <2>6. Goes(c, d("answered")) => Refuses(c, d("answered"))
    BY <2>1, <2>5 DEF Refuses
  <2>7. CASE Goes(c, d("check")) /\ c.kind = "confirm"
    <3> DEFINE e == d("check")
    <3>1. Advances(c, e) /\ e.step = "check" /\ e.record = lists[c.list] /\ e.preview = NoPreview
      BY <2>5, <2>7
    <3> HIDE DEF e
    <3>. QED
      BY <2>1, <2>7, <3>1 DEF Work, Loads
  <2>8. CASE Goes(c, d("write")) /\ c.kind # "confirm"
    <3> DEFINE e == d("write")
    <3>1. Advances(c, e) /\ e.step = "write" /\ e.record = lists[c.list] /\ e.preview = NoPreview
      BY <2>5, <2>8
    <3> HIDE DEF e
    <3>. QED
      BY <2>1, <2>4, <2>8, <3>1 DEF Work, Loads
  <2>9. CASE Goes(c, d("answered"))
    BY <2>6, <2>9 DEF Work
  <2>. QED
    BY <2>2, <2>7, <2>8, <2>9
<1>8. CASE WriteMapping(c)
  <2> DEFINE d == [c EXCEPT !.step = "check", !.record.mapping = c.mapping]
  <2>1. /\ wizard' = wizard /\ left' = left /\ beats' = beats /\ c.kind = "mapping" /\ c.step = "write"
        /\ Goes(c, d) /\ lists' = [lists EXCEPT ![c.list].mapping = c.mapping]
        /\ astray' = IF c.heard THEN astray ELSE astray \cup {c.list}
    BY <1>8 DEF WriteMapping, Client
  <2>2. Like(d, c) /\ d.step = "check" /\ d.record = [c.record EXCEPT !.mapping = c.mapping] /\ d.preview = c.preview
    BY <1>1 DEF CallFields, Like
  <2> HIDE DEF d
  <2>3. Stores(c, d)
    BY <1>2, <1>4, <2>1, <2>2 DEF Stores
  <2>. QED
    BY <2>3 DEF Work
<1>9. ASSUME NEW s, lists' = [lists EXCEPT ![c.list].status = s], c.list \in DOMAIN lists PROVE SameMappings
  <2>1. \A i \in DOMAIN lists : DOMAIN lists[i] = ListFields
    BY DEF PanelShape
  <2>. QED
    BY <1>9, <2>1 DEF SameMappings, ListFields
<1>10. CASE WriteCancelled(c)
  <2>1. /\ wizard' = wizard /\ left' = left /\ Goes(c, Answered(c, NoPreview))
        /\ beats' = beats /\ astray' = astray /\ lists' = [lists EXCEPT ![c.list].status = "CANCELLED"]
        /\ c.kind = "cancel"
    BY <1>10 DEF WriteCancelled, Client
  <2>2. c.list \in DOMAIN lists
    BY <1>1, <1>10 DEF CallOK, Carries, WriteCancelled
  <2>. QED
    BY <1>5, <1>9, <2>1, <2>2 DEF Untouched
<1>11. CASE AnswerPreview(c)
  <2> DEFINE d == Answered(c, buildPreview(c.list, c.record))
  <2>1. wizard' = wizard /\ left' = left /\ Untouched /\ c.kind \in {"upload", "mapping"} /\ c.step = "check" /\ Goes(c, d)
    BY <1>3, <1>11 DEF AnswerPreview, Client, Untouched
  <2>2. Like(d, c) /\ d.step = "answered" /\ d.preview = buildPreview(c.list, c.record)
    BY <1>1, AnsweredIs
  <2> HIDE DEF d
  <2>3. Shows(c, d)
    BY <1>4, <2>1, <2>2 DEF Shows
  <2>. QED
    BY <2>3 DEF Work
<1>12. CASE CheckForImport(c)
  <2> DEFINE now == buildPreview(c.list, c.record)
             d == [c EXCEPT !.step = "import", !.preview = now]
  <2>1. wizard' = wizard /\ left' = left /\ Untouched /\ c.kind = "confirm" /\ c.step = "check"
    BY <1>3, <1>12 DEF CheckForImport, Client, Untouched
  <2>2. Goes(c, Answered(c, NoPreview)) \/ Goes(c, d)
    BY <1>12 DEF CheckForImport
  <2>3. Like(d, c) /\ d.step = "import" /\ d.preview = now /\ d.record = c.record
    BY <1>1 DEF CallFields, Like
  <2> HIDE DEF d
  <2>4. Goes(c, d) => Checks(c, d)
    BY <1>4, <2>1, <2>3 DEF Checks
  <2>. QED
    BY <1>5, <2>1, <2>2, <2>4 DEF Work
<1>13. CASE ImportList(c)
  <2> DEFINE d == [c EXCEPT !.step = "answered"]
  <2>1. /\ wizard' = wizard /\ left' = left /\ c.kind = "confirm" /\ c.step = "import" /\ astray' = astray
        /\ beats' = AddedTo(beats, c.preview.adds) /\ Goes(c, d)
        /\ lists' = [lists EXCEPT ![c.list].status = "CONFIRMED"]
    BY <1>13 DEF ImportList, Client
  <2>2. c.list \in DOMAIN lists
    BY <1>1, <2>1 DEF CallOK, Carries
  <2>3. Like(d, c) /\ d.step = "answered" /\ d.preview = c.preview
    BY <1>1 DEF CallFields, Like
  <2> HIDE DEF d
  <2>4. Adds(c, d)
    BY <1>4, <1>9, <2>1, <2>2, <2>3 DEF Adds
  <2>. QED
    BY <2>4 DEF Work
<1>14. CASE NumberTaken(c)
  BY <1>3, <1>5, <1>14 DEF NumberTaken, Client, Untouched
<1>. QED
  BY <1>6, <1>7, <1>8, <1>10, <1>11, <1>12, <1>13, <1>14 DEF Handler

LEMMA WorkGrows == ASSUME PanelShape, NEW c \in calls, NEW d, Work(c, d) PROVE Grown
<1>1. /\ "lists" \in DOMAIN left /\ DOMAIN lists \subseteq 1..left.lists /\ left' = left
      /\ c.list \in 1..left.lists
      /\ \A i \in DOMAIN lists : DOMAIN lists[i] = ListFields /\ lists[i].file \in DOMAIN Files
  BY DEF PanelShape, CallOK, Work, Advances, Creates, Refuses, Loads, Stores, Shows, Checks, Adds
<1>2. CASE SameMappings
  BY <1>1, <1>2 DEF SameMappings, Grown
<1>3. CASE Creates(c, d)
  <2>1. c.list \notin DOMAIN lists /\ c.file \in DOMAIN Files
    BY <1>3 DEF Creates, PanelShape, CallOK, Carries
  <2>. QED
    BY <1>1, <1>3, <2>1 DEF Creates, Grown
<1>4. CASE Stores(c, d)
  BY <1>1, <1>4 DEF Stores, Grown, ListFields
<1>. QED
  BY <1>2, <1>3, <1>4 DEF Work, Untouched, Refuses, Loads, Shows, Checks, Adds

LEMMA PreviewIsFaithful ==
    ASSUME NEW i \in DOMAIN lists, NEW record, record.file = lists[i].file
    PROVE  LET p == buildPreview(i, record)
           IN p.list = i /\ p.mapping = record.mapping /\ p.known = beats /\ Faithful(p)
BY DEF buildPreview, Faithful

LEMMA WorkedIsOK ==
    ASSUME PanelShape, NEW c \in calls, NEW d, Work(c, d) PROVE CallOK(d)'
<1>1. Grown /\ CallOK(c) /\ Advances(c, d)
  BY WorkGrows DEF PanelShape, Work, Creates, Refuses, Loads, Stores, Shows, Checks, Adds
<1>2. DOMAIN d = CallFields /\ d.heard \in BOOLEAN /\ d.list \in 1..left'.lists /\ d.list = c.list /\ d.kind = c.kind
  BY <1>1 DEF Grown, CallOK, Advances, Like
<1>3. c.list \in DOMAIN lists => c.list \in DOMAIN lists' /\ lists'[c.list].file = lists[c.list].file
  BY <1>1 DEF Grown
<1>4. d.kind = "confirm" => d.shown.list = d.list /\ Faithful(d.shown)'
  BY <1>1, FaithfulStays DEF CallOK, Carries, Advances, Like
<1>5. d.kind # "upload" => d.list \in DOMAIN lists'
  BY <1>1, <1>2, <1>3 DEF CallOK, Carries
<1>6. StepOK(d)
  BY <1>1, <1>2 DEF Work, CallOK, StepOK, Creates, Refuses, Loads, Stores, Shows, Checks, Adds
<1>7. CASE Creates(c, d)
  <2>1. d.list \in DOMAIN lists' /\ d.record.file = lists'[d.list].file
    BY <1>2, <1>7 DEF Creates
  <2>. QED
    BY <1>2, <1>4, <1>6, <1>7, <2>1 DEF CallOK, Carries, Creates
<1>8. CASE Refuses(c, d)
  BY <1>2, <1>4, <1>5, <1>6, <1>8 DEF CallOK, Carries, Refuses
<1>9. CASE Loads(c, d)
  <2>1. DOMAIN d.record = ListFields /\ d.record.file = lists'[d.list].file /\ d.list \in DOMAIN lists'
    BY <1>1, <1>2, <1>3, <1>5, <1>9 DEF Loads, PanelShape, CallOK, Carries
  <2>. QED
    BY <1>2, <1>4, <1>6, <1>9, <2>1 DEF CallOK, Carries, Loads
<1>10. CASE Stores(c, d)
  <2>1. DOMAIN c.record = ListFields /\ c.record.file = lists[c.list].file /\ c.list \in DOMAIN lists
    BY <1>1, <1>10 DEF Stores, CallOK, Carries
  <2>2. DOMAIN d.record = ListFields /\ d.record.file = lists'[d.list].file
    BY <1>2, <1>3, <1>10, <2>1 DEF Stores, ListFields
  <2>. QED
    BY <1>2, <1>4, <1>5, <1>6, <1>10, <2>2 DEF CallOK, Carries, Stores
<1>11. CASE Shows(c, d) \/ Checks(c, d)
  <2>1. DOMAIN c.record = ListFields /\ c.record.file = lists[c.list].file /\ c.list \in DOMAIN lists
    BY <1>1, <1>11 DEF Shows, Checks, CallOK, Carries
  <2>2. /\ d.preview.list = d.list /\ d.preview.mapping = c.record.mapping /\ Faithful(d.preview)
        /\ d.step \in {"import", "answered"} /\ (d.step = "import" => d.record = c.record)
    BY <1>2, <1>11, <2>1, PreviewIsFaithful DEF Shows, Checks
  <2>3. Faithful(d.preview)'
    BY <1>1, <2>2, FaithfulStays
  <2>4. d.preview # NoPreview
    BY <1>1, <1>2, <2>2 DEF NoPreview, PanelShape, Grown
  <2>5. d.list \in DOMAIN lists' /\ c.record.file = lists'[d.list].file
    BY <1>2, <1>3, <2>1
  <2>. QED
    BY <1>2, <1>4, <1>6, <2>1, <2>2, <2>3, <2>4, <2>5 DEF CallOK, Carries
<1>12. CASE Adds(c, d)
  <2>1. d.preview # NoPreview => d.preview.list = d.list /\ Faithful(d.preview)'
    BY <1>1, <1>2, <1>12, FaithfulStays DEF Adds, CallOK, Carries
  <2>. QED
    BY <1>2, <1>4, <1>5, <1>6, <1>12, <2>1 DEF Adds, CallOK, Carries
<1>. QED
  BY <1>7, <1>8, <1>9, <1>10, <1>11, <1>12 DEF Work

(* A list is uploaded under a number that is in use nowhere.               *)
UploadsAlone ==
    \A c \in calls : c.kind = "upload" =>
        /\ wizard.preview.list # c.list
        /\ \A d \in calls : d # c => d.list # c.list

LEMMA WorkKeepsShape ==
    ASSUME PanelShape, UploadsAlone, NEW c \in calls, NEW d, Work(c, d)
    PROVE  PanelShape' /\ UploadsAlone'
<1>1. Grown /\ CallOK(d)' /\ Advances(c, d)
  BY WorkGrows, WorkedIsOK DEF PanelShape, Work, Creates, Refuses, Loads, Stores, Shows, Checks, Adds
<1>2. ASSUME NEW e \in calls', e # d PROVE CallOK(e)'
  <2>1. e \in calls /\ e # c /\ CallOK(e)
    BY <1>1, <1>2 DEF Advances, PanelShape
  <2>2. e.kind = "upload" => e.list # c.list
    BY <2>1 DEF UploadsAlone
  <2>3. e.kind = "upload" /\ e.step = "sent" => e.list \notin DOMAIN lists'
    BY <2>1, <2>2 DEF CallOK, Carries, Work, Creates, Refuses, Loads, Stores, Shows, Checks, Adds, Untouched, SameMappings
  <2>. QED
    BY <1>1, <2>1, <2>3, CallStays
<1>3. wizard.preview # NoPreview => Faithful(wizard.preview)'
  <2>1. ASSUME wizard.preview # NoPreview PROVE Faithful(wizard.preview)'
    <3>1. wizard' = wizard
      BY <1>1 DEF Advances
    <3>2. Faithful(wizard.preview)
      BY <2>1 DEF PanelShape
    <3>3. wizard.preview.list \in DOMAIN lists' /\ lists'[wizard.preview.list].file = lists[wizard.preview.list].file
      BY <1>1, <3>2 DEF Grown, Faithful
    <3>. QED
      BY <3>1, <3>2, <3>3 DEF Faithful
  <2>. QED
    BY <2>1
<1>4. UploadsAlone'
  BY <1>1 DEF UploadsAlone, Advances, Like
<1>5. ~wizard'.open => \A e \in calls' : ~e.heard
  BY <1>1 DEF PanelShape, Advances, Like
<1>6. wizard' = wizard /\ left'.lists = left.lists
  BY <1>1 DEF Advances
<1>7. \A e \in calls' : CallOK(e)'
  BY <1>1, <1>2
<1>8. PanelShape'
  BY <1>1, <1>3, <1>5, <1>6, <1>7 DEF PanelShape, Grown
<1>. QED
  BY <1>4, <1>8

-----------------------------------------------------------------------------
(* What the wizard does *)

Same == lists' = lists /\ beats' = beats

(* A request is sent: a file, or something about the list that is shown.   *)
Sends(c) ==
    /\ calls' = calls \cup {c} /\ DOMAIN c = CallFields /\ c.step = "sent" /\ c.heard = TRUE
    /\ c.preview = NoPreview /\ Same
    /\ left' = left \/ \E k : left' = [left EXCEPT !.changes = k]
    /\ wizard.open /\ DOMAIN wizard' = DOMAIN wizard /\ wizard'.open = wizard.open
Drops(c) ==
    /\ Sends(c) /\ c.kind = "upload" /\ c.file \in DOMAIN Files
    /\ c.list \in 1..left.lists /\ c.list \notin Uploads
    /\ wizard'.preview = NoPreview /\ wizard'.busy = TRUE
    /\ astray' = IF Awaited = {} THEN astray
                 ELSE astray \cup {c.list} \cup {d.list : d \in Awaited}
Asks(c) ==
    /\ Sends(c) /\ c.kind \in {"mapping", "cancel", "confirm"} /\ c.list = wizard.preview.list
    /\ wizard.preview # NoPreview /\ wizard'.preview = wizard.preview /\ astray' = astray
    /\ c.kind = "confirm" => c.shown = wizard.preview
    /\ IF c.kind = "cancel" THEN wizard'.busy = wizard.busy ELSE ~wizard.busy /\ wizard'.busy = TRUE

LEMMA FreeNumber ==
    ASSUME PanelShape, Cardinality(Uploads) < left.lists
    PROVE  \E k \in 1..left.lists : k \notin Uploads
<1>1. left.lists \in Nat /\ Uploads \subseteq 1..left.lists
  <2>1. \A c \in calls : c.list \in 1..left.lists
    BY DEF PanelShape, CallOK
  <2>. QED
    BY <2>1 DEF PanelShape, Uploads
<1>2. \A n \in Nat : IsFiniteSet(1..n) /\ Cardinality(1..n) = n
  BY FS_Interval
<1>3. Uploads # 1..left.lists
  BY <1>1, <1>2
<1>. QED
  BY <1>1, <1>3

LEMMA UploadDoes ==
    ASSUME PanelShape, NEW f \in DOMAIN Files, upload(f)
    PROVE  \E c : Drops(c)
<1> DEFINE i == CHOOSE k \in 1..left.lists : k \notin Uploads
           c == Request("upload", i, f, NoMapping, NoPreview)
<1>1. i \in 1..left.lists /\ i \notin Uploads
  BY FreeNumber DEF upload
<1>2. /\ calls' = calls \cup {c} /\ lists' = lists /\ beats' = beats /\ left' = left /\ wizard.open
      /\ wizard' = [wizard EXCEPT !.preview = NoPreview, !.busy = TRUE]
      /\ astray' = IF Awaited = {} THEN astray
                   ELSE astray \cup {i} \cup {d.list : d \in Awaited}
  BY DEF upload, Send
<1> HIDE DEF i
<1>3. /\ DOMAIN c = CallFields /\ c.step = "sent" /\ c.heard = TRUE /\ c.preview = NoPreview
      /\ c.kind = "upload" /\ c.list = i /\ c.file = f
  BY DEF Request, CallFields
<1> HIDE DEF c
<1>4. DOMAIN wizard' = DOMAIN wizard /\ wizard'.open = wizard.open /\ wizard'.preview = NoPreview /\ wizard'.busy = TRUE
  BY <1>2 DEF PanelShape
<1>5. Drops(c)
  BY <1>1, <1>2, <1>3, <1>4 DEF Drops, Sends, Same
<1>. QED
  BY <1>5

LEMMA ChangeDoes ==
    ASSUME PanelShape, NEW field, NEW column, changeMapping(field, column)
    PROVE  \E c : Asks(c)
<1> DEFINE m == [wizard.preview.mapping EXCEPT ![field] = column]
           c == Request("mapping", wizard.preview.list, NoFile, m, NoPreview)
<1>1. /\ calls' = calls \cup {c} /\ lists' = lists /\ beats' = beats /\ wizard.open /\ astray' = astray
      /\ wizard.preview # NoPreview /\ ~wizard.busy /\ wizard' = [wizard EXCEPT !.busy = TRUE]
      /\ \E k : left' = [left EXCEPT !.changes = k]
  BY DEF changeMapping, Send
<1> HIDE DEF m
<1>2. /\ DOMAIN c = CallFields /\ c.step = "sent" /\ c.heard = TRUE /\ c.preview = NoPreview
      /\ c.kind = "mapping" /\ c.list = wizard.preview.list
  BY DEF Request, CallFields
<1> HIDE DEF c
<1>3. DOMAIN wizard' = DOMAIN wizard /\ wizard'.open = wizard.open /\ wizard'.preview = wizard.preview /\ wizard'.busy = TRUE
  BY <1>1 DEF PanelShape
<1>4. Asks(c)
  BY <1>1, <1>2, <1>3 DEF Asks, Sends, Same
<1>. QED
  BY <1>4

LEMMA ImportDoes == ASSUME PanelShape, runImport PROVE \E c : Asks(c)
<1> DEFINE c == Request("confirm", wizard.preview.list, NoFile, NoMapping, wizard.preview)
<1>1. /\ calls' = calls \cup {c} /\ lists' = lists /\ beats' = beats /\ wizard.open /\ astray' = astray
      /\ wizard.preview # NoPreview /\ ~wizard.busy /\ wizard' = [wizard EXCEPT !.busy = TRUE]
      /\ left' = left
  BY DEF runImport, Send
<1>2. /\ DOMAIN c = CallFields /\ c.step = "sent" /\ c.heard = TRUE /\ c.preview = NoPreview
      /\ c.kind = "confirm" /\ c.list = wizard.preview.list /\ c.shown = wizard.preview
  BY DEF Request, CallFields
<1> HIDE DEF c
<1>3. DOMAIN wizard' = DOMAIN wizard /\ wizard'.open = wizard.open /\ wizard'.preview = wizard.preview /\ wizard'.busy = TRUE
  BY <1>1 DEF PanelShape
<1>4. Asks(c)
  BY <1>1, <1>2, <1>3 DEF Asks, Sends, Same
<1>. QED
  BY <1>4

(* The wizard is turned a page, emptied or opened; an answer is heard; and *)
(* those that are still to come may find it closed.                        *)
Turns ==
    /\ Same /\ astray' = astray /\ left' = left /\ calls' = calls
    /\ DOMAIN wizard' = {"open", "step", "preview", "busy", "done"}
    /\ wizard'.open \in BOOLEAN /\ wizard'.busy \in BOOLEAN /\ (~wizard'.open => ~wizard.open)
    /\ wizard'.preview \in {wizard.preview, NoPreview}
    /\ wizard'.busy = wizard.busy \/ ~wizard.open

Faded(d, c) == DOMAIN c = CallFields /\ d = [c EXCEPT !.heard = FALSE]
UnderWay == {"write", "check", "import", "answered"}
Remain(gone, steps) ==     \* gone: no call, or the one that ends; at these steps it is worked on unheard
    /\ \A d \in calls' : \/ wizard'.open /\ d \in calls \ gone
                         \/ \E e \in calls : /\ Faded(d, e)
                                             /\ IF e \in gone THEN e.step \in steps ELSE ~wizard'.open
    /\ ~wizard'.open => \A d \in calls' : ~d.heard
    /\ wizard'.open => calls \ gone \subseteq calls'
Closes == Same /\ astray' = astray /\ left' = left /\ wizard' = Closed /\ Remain({}, {})
Hears(c, p) ==
    \/ ~c.heard /\ wizard' = wizard
    \/ c.heard /\ c.kind = "cancel" /\ wizard' = Closed
    \/ /\ c.heard /\ c.kind # "cancel" /\ DOMAIN wizard' = DOMAIN wizard
       /\ wizard'.open = wizard.open /\ wizard'.busy = FALSE
       /\ \/ wizard'.preview = wizard.preview /\ (c.kind = "confirm" \/ p = NoPreview)
          \/ c.kind \in {"upload", "mapping"} /\ p # NoPreview /\ wizard'.preview = p
Finishes(c) == 
    /\ Same /\ left' = left
    /\ \/ c.step = "answered" /\ Hears(c, c.preview) /\ Remain({c}, {}) /\ astray' = astray
       \/ /\ c.heard /\ Hears(c, NoPreview) /\ Remain({c}, UnderWay)
          /\ astray' = IF c.kind = "mapping" /\ c.step \in {"check", "answered"} THEN astray \cup {c.list} ELSE astray

LEMMA UnheardFades == ASSUME NEW c, DOMAIN c = CallFields PROVE Faded([c EXCEPT !.heard = FALSE], c)
BY DEF Faded

LEMMA FadedIs ==
    ASSUME NEW c, NEW d, Faded(d, c)
    PROVE  /\ DOMAIN d = CallFields /\ d.heard = FALSE /\ d.kind = c.kind /\ d.list = c.list /\ d.step = c.step
           /\ d.preview = c.preview /\ d.record = c.record /\ d.shown = c.shown /\ d.file = c.file
BY DEF Faded, CallFields

LEMMA FadedTwice == ASSUME NEW c, NEW d, NEW e, Faded(d, c), Faded(e, d) PROVE Faded(e, c)
<1> DEFINE f == [n \in CallFields |-> IF n = "heard" THEN FALSE ELSE c[n]]
           g == [c EXCEPT !.heard = FALSE]
<1>1. DOMAIN c = CallFields /\ g = f
  BY DEF Faded
<1>2. d = g
  BY DEF Faded
<1>3. e = [d EXCEPT !.heard = FALSE]
  BY DEF Faded
<1>4. [f EXCEPT !.heard = FALSE] = f
  <2> DEFINE h == [f EXCEPT !.heard = FALSE]
  <2>1. h = [n \in CallFields |-> h[n]] /\ f = [n \in CallFields |-> f[n]]
    OBVIOUS
  <2>2. \A n \in CallFields : h[n] = f[n]
    OBVIOUS
  <2> HIDE DEF f, h
  <2>3. h = f
    BY <2>1, <2>2
  <2>. QED
    BY <2>3 DEF h
<1> HIDE DEF f, g
<1>5. e = g
  BY <1>1, <1>2, <1>3, <1>4
<1>. QED
  BY <1>1, <1>5 DEF Faded, g

LEMMA FadedIsOK == ASSUME NEW c, NEW d, CallOK(c), Faded(d, c) PROVE CallOK(d)
<1>1. /\ DOMAIN d = CallFields /\ d.heard = FALSE /\ d.kind = c.kind /\ d.list = c.list /\ d.step = c.step
      /\ d.preview = c.preview /\ d.record = c.record /\ d.shown = c.shown /\ d.file = c.file
  BY FadedIs
<1>. QED
  BY <1>1 DEF CallOK, StepOK, Carries

LEMMA CallsAreRecords == ASSUME PanelShape PROVE \A c \in calls : DOMAIN c = CallFields
BY DEF PanelShape, CallOK

LEMMA CloseDoes == ASSUME PanelShape, close PROVE Closes \/ \E c : Asks(c)
<1>1. Same /\ astray' = astray /\ left' = left /\ wizard.open
  BY DEF close, Same
<1>2. CASE wizard.preview # NoPreview /\ ~wizard.done
  <2> DEFINE c == Request("cancel", wizard.preview.list, NoFile, NoMapping, NoPreview)
  <2>1. calls' = calls \cup {c} /\ wizard' = wizard
    BY <1>2 DEF close, Send
  <2>2. /\ DOMAIN c = CallFields /\ c.step = "sent" /\ c.heard = TRUE /\ c.preview = NoPreview
        /\ c.kind = "cancel" /\ c.list = wizard.preview.list
    BY DEF Request, CallFields
  <2> HIDE DEF c
  <2>3. Asks(c)
    BY <1>1, <1>2, <2>1, <2>2 DEF Asks, Sends
  <2>. QED
    BY <2>3
<1>3. CASE ~(wizard.preview # NoPreview /\ ~wizard.done)
  <2>1. wizard' = Closed /\ calls' = {[c EXCEPT !.heard = FALSE] : c \in calls}
    BY <1>3 DEF close
  <2>2. ~wizard'.open
    BY <2>1 DEF Closed
  <2>3. \A d \in calls' : \E e \in calls : Faded(d, e)
    BY <2>1, CallsAreRecords, UnheardFades
  <2>4. Remain({}, {})
    BY <2>2, <2>3, FadedIs DEF Remain
  <2>. QED
    BY <1>1, <2>1, <2>4 DEF Closes
<1>. QED
  BY <1>2, <1>3

LEMMA TurnDoes ==
    ASSUME PanelShape, NotAList \/ Continue \/ Back \/ Reopen
    PROVE  Turns
<1>1. CASE Reopen
  <2>1. wizard' = Opened /\ ~wizard.open /\ Same /\ astray' = astray /\ left' = left /\ calls' = calls
    BY <1>1 DEF Reopen, Same
  <2>. QED
    BY <2>1 DEF Turns, Opened, Closed
<1>2. CASE NotAList
  BY <1>2 DEF NotAList, Same, Turns, PanelShape
<1>3. CASE Continue \/ Back
  <2>1. /\ Same /\ astray' = astray /\ left' = left /\ calls' = calls
        /\ \E k : wizard' = [wizard EXCEPT !.step = k]
    BY <1>3 DEF Continue, Back, Same
  <2>. QED
    BY <2>1 DEF Turns, PanelShape
<1>. QED
  BY <1>1, <1>2, <1>3

LEMMA HearDoes ==
    ASSUME PanelShape, NEW c \in calls, NEW p, Hear(c, p)
    PROVE  Hears(c, p)
<1>1. StepOK(c) /\ DOMAIN wizard = {"open", "step", "preview", "busy", "done"}
  BY DEF PanelShape, CallOK
<1>2. CASE ~c.heard
  BY <1>2 DEF Hear, Hears
<1>3. CASE c.heard /\ c.kind = "cancel"
  BY <1>3 DEF Hear, Hears
<1>4. CASE c.heard /\ c.kind = "confirm"
  <2>1. wizard' = [wizard EXCEPT !.busy = FALSE, !.done = wizard.done \/ p # NoPreview]
    BY <1>4 DEF Hear
  <2>. QED
    BY <1>1, <1>4, <2>1 DEF Hears
<1>5. CASE c.heard /\ c.kind \in {"upload", "mapping"}
  <2>1. wizard' = [wizard EXCEPT !.busy = FALSE,
                                 !.preview = IF p = NoPreview THEN wizard.preview ELSE p]
    BY <1>5 DEF Hear
  <2>. QED
    BY <1>1, <1>5, <2>1 DEF Hears
<1>. QED
  BY <1>1, <1>2, <1>3, <1>4, <1>5 DEF StepOK

LEMMA DeafRemain ==
    ASSUME PanelShape, NEW c \in calls, NEW p, Hears(c, p), NEW rest, NEW steps,
           calls' = Deaf((calls \ {c}) \cup rest),
           \A d \in rest : Faded(d, c) /\ c.step \in steps
    PROVE  Remain({c}, steps)
<1> DEFINE others == (calls \ {c}) \cup rest
<1>1. \A d \in others : DOMAIN d = CallFields
  BY CallsAreRecords, FadedIs
<1>2. CASE wizard'.open
  <2>1. calls' = others
    BY <1>2 DEF Deaf
  <2>. QED
    BY <1>2, <2>1 DEF Remain
<1>3. CASE ~wizard'.open
  <2>1. calls' = {[d EXCEPT !.heard = FALSE] : d \in others}
    BY <1>3 DEF Deaf
  <2>2. ASSUME NEW d \in calls'
        PROVE  ~d.heard /\ \E e \in calls : Faded(d, e) /\ (e = c => e.step \in steps)
    <3>1. PICK e \in others : d = [e EXCEPT !.heard = FALSE]
      BY <2>1
    <3>2. Faded(d, e)
      BY <1>1, <3>1, UnheardFades
    <3>3. (e \in calls /\ e # c) \/ e \in rest
      OBVIOUS
    <3>. QED
      BY <3>2, <3>3, FadedTwice, FadedIs
  <2>. QED
    BY <1>3, <2>2 DEF Remain
<1>. QED
  BY <1>2, <1>3

LEMMA EndDoes ==
    ASSUME PanelShape, NEW c \in calls, Answer(c) \/ Lose(c)
    PROVE  Finishes(c)
<1>1. CASE Answer(c)
  <2> DEFINE rest == {}
  <2>1. /\ Same /\ left' = left /\ astray' = astray /\ c.step = "answered" /\ Hear(c, c.preview)
        /\ calls' = Deaf((calls \ {c}) \cup rest) /\ \A d \in rest : FALSE
    BY <1>1 DEF Answer, Same
  <2> HIDE DEF rest
  <2>2. Hears(c, c.preview)
    BY <2>1, HearDoes
  <2>3. Remain({c}, {})
    BY <2>1, <2>2, DeafRemain
  <2>. QED
    BY <2>1, <2>2, <2>3 DEF Finishes
<1>2. CASE Lose(c)
  <2> DEFINE rest == IF c.step = "sent" THEN {} ELSE {[c EXCEPT !.heard = FALSE]}
  <2>1. /\ Same /\ left' = left /\ c.heard /\ Hear(c, NoPreview)
        /\ calls' = Deaf((calls \ {c}) \cup rest)
        /\ astray' = IF c.kind = "mapping" /\ c.step \in {"check", "answered"} THEN astray \cup {c.list} ELSE astray
    BY <1>2 DEF Lose, Same
  <2>2. Hears(c, NoPreview)
    BY <2>1, HearDoes
  <2>3. \A d \in rest : Faded(d, c) /\ c.step \in UnderWay
    <3>1. c.step = "sent" \/ c.step \in UnderWay
      BY DEF PanelShape, CallOK, StepOK, UnderWay
    <3>. QED
      BY <3>1, CallsAreRecords, UnheardFades
  <2> HIDE DEF rest
  <2>4. Remain({c}, UnderWay)
    BY <2>1, <2>2, <2>3, DeafRemain
  <2>. QED
    BY <2>1, <2>2, <2>4 DEF Finishes
<1>. QED
  BY <1>1, <1>2

(* Whatever the panel does is one of these.                                *)
LEMMA PanelSteps ==
    ASSUME PanelShape, [PanelNext]_panelVars
    PROVE  \/ \E c \in calls : (\E d : Work(c, d)) \/ Finishes(c)
           \/ \E c : Drops(c) \/ Asks(c)
           \/ Turns \/ Closes
           \/ \E n \in NewBeats : CreateBeat(n)
           \/ UNCHANGED panelVars
BY HandlerWorks, EndDoes, UploadDoes, ChangeDoes, ImportDoes, CloseDoes, TurnDoes DEF PanelNext

-----------------------------------------------------------------------------
LEMMA PreviewStays == ASSUME Grown, NEW p, Faithful(p), wizard'.preview = p PROVE Faithful(wizard.preview)'
BY DEF Grown, Faithful

LEMMA SentIsOK ==
    ASSUME PanelShape, UploadsAlone, NEW c, Drops(c) \/ Asks(c)
    PROVE  PanelShape' /\ UploadsAlone'
<1>1. /\ Sends(c) /\ Grown
      /\ \/ wizard'.preview = NoPreview
         \/ wizard'.preview = wizard.preview /\ wizard.preview # NoPreview
  <2>1. Sends(c)
    BY DEF Drops, Asks
  <2>. QED
    BY <2>1, SameListsGrown DEF Drops, Asks, Sends, Same
<1>2. /\ calls' = calls \cup {c} /\ DOMAIN c = CallFields /\ c.step = "sent" /\ c.heard = TRUE
      /\ c.preview = NoPreview /\ lists' = lists /\ left'.lists = left.lists
  BY <1>1 DEF Sends, Same, Grown
<1>3. wizard.preview # NoPreview => wizard.preview.list \in DOMAIN lists /\ wizard.preview.list \in 1..left.lists
  BY DEF PanelShape, Faithful
<1>4. c.kind # "upload" => c.list = wizard.preview.list /\ wizard.preview # NoPreview
  BY DEF Drops, Asks
<1>5. c.kind = "upload" => /\ c.list \notin DOMAIN lists /\ c.file \in DOMAIN Files /\ c.list \in 1..left.lists
                           /\ wizard'.preview = NoPreview
                           /\ \A e \in calls : e.kind = "upload" => e.list # c.list
  BY DEF Drops, Asks, Uploads
<1>6. c.kind \in {"upload", "mapping", "cancel", "confirm"}
  BY DEF Drops, Asks
<1>7. c.kind = "confirm" => c.shown = wizard.preview
  BY DEF Drops, Asks
<1>8. CallOK(c)
  <2>1. c.kind = "confirm" => c.shown.list = c.list /\ Faithful(c.shown)
    BY <1>4, <1>7 DEF PanelShape
  <2>. QED
    BY <1>2, <1>3, <1>4, <1>5, <1>6, <2>1 DEF CallOK, StepOK, Carries
<1>9. \A e \in calls' : CallOK(e)'
  <2>1. \A e \in calls' : CallOK(e)
    BY <1>2, <1>8 DEF PanelShape
  <2>2. \A e \in calls' : e.kind = "upload" /\ e.step = "sent" => e.list \notin DOMAIN lists'
    BY <1>2, <2>1 DEF CallOK, Carries
  <2>. QED
    BY <1>1, <2>1, <2>2, CallStays
<1>10. wizard'.open /\ DOMAIN wizard' = DOMAIN wizard /\ wizard'.open \in BOOLEAN /\ wizard'.busy \in BOOLEAN
  BY <1>1 DEF Sends, Drops, Asks, PanelShape
<1>11. (wizard.preview # NoPreview => Faithful(wizard.preview))'
  BY <1>1, PreviewStays DEF PanelShape
<1>12. UploadsAlone'
  <2>1. \A e \in calls : e.kind = "upload" => e.list # wizard.preview.list
    BY DEF UploadsAlone
  <2>2. \A e \in calls' : e.list \in 1..left.lists
    BY <1>2, <1>8 DEF PanelShape, CallOK
  <2>3. wizard'.preview.list = wizard.preview.list \/ wizard'.preview.list \notin 1..left.lists
    BY <1>1 DEF NoPreview
  <2>4. ASSUME NEW e \in calls, e.kind = "upload" PROVE e.list # c.list
    BY <1>4, <1>5, <2>1, <2>4
  <2>5. ASSUME c.kind = "upload", NEW e \in calls PROVE e.list # c.list
    <3>1. e.kind # "upload" => e.list \in DOMAIN lists
      BY DEF PanelShape, CallOK, Carries
    <3>. QED
      BY <1>5, <2>5, <3>1
  <2>6. ASSUME NEW e \in calls', e.kind = "upload" PROVE wizard'.preview.list # e.list
    <3>1. CASE e = c
      BY <1>5, <2>2, <2>6, <3>1 DEF NoPreview
    <3>2. CASE e \in calls
      BY <2>1, <2>2, <2>3, <2>6, <3>2
    <3>. QED
      BY <1>2, <3>1, <3>2
  <2>7. ASSUME NEW e \in calls', e.kind = "upload", NEW d \in calls', d # e PROVE d.list # e.list
    BY <1>2, <2>4, <2>5, <2>7 DEF UploadsAlone
  <2>. QED
    BY <2>6, <2>7 DEF UploadsAlone
<1>13. PanelShape'
  BY <1>1, <1>9, <1>10, <1>11 DEF PanelShape, Grown
<1>. QED
  BY <1>12, <1>13

LEMMA KeptIsOK ==
    ASSUME PanelShape, lists' = lists, left' = left, NEW gone, NEW steps, Remain(gone, steps)
    PROVE  \A d \in calls' : CallOK(d)'
<1>1. Grown
  BY SameListsGrown
<1> SUFFICES ASSUME NEW d \in calls' PROVE CallOK(d)'
  OBVIOUS
<1>2. CallOK(d)
  BY FadedIsOK DEF Remain, PanelShape
<1>3. d.kind = "upload" /\ d.step = "sent" => d.list \notin DOMAIN lists'
  BY <1>2 DEF CallOK, Carries
<1>. QED
  BY <1>1, <1>2, <1>3, CallStays

LEMMA KeptFrom ==
    ASSUME NEW gone, NEW steps, Remain(gone, steps)
    PROVE  \A d \in calls' : \E c \in calls :
              /\ c.kind = d.kind /\ c.list = d.list /\ c.step = d.step /\ c.preview = d.preview
              /\ c.record = d.record /\ c.shown = d.shown
              /\ \/ d = c /\ c \notin gone /\ wizard'.open
                 \/ Faded(d, c) /\ d.heard = FALSE /\ c \in gone /\ c.step \in steps
                 \/ Faded(d, c) /\ d.heard = FALSE /\ c \notin gone /\ ~wizard'.open
<1> TAKE d \in calls'
<1>1. CASE wizard'.open /\ d \in calls \ gone
  BY <1>1
<1>2. CASE ~(wizard'.open /\ d \in calls \ gone)
  <2>1. PICK c \in calls : Faded(d, c) /\ IF c \in gone THEN c.step \in steps ELSE ~wizard'.open
    BY <1>2 DEF Remain
  <2>. QED
    BY <2>1, FadedIs
<1>. QED
  BY <1>1, <1>2

LEMMA KeptAlone ==
    ASSUME PanelShape, UploadsAlone, NEW gone, NEW steps, Remain(gone, steps)
    PROVE  \A c, d \in calls' : c.kind = "upload" /\ d # c => d.list # c.list
<1> SUFFICES ASSUME NEW c \in calls', NEW d \in calls', c.kind = "upload", d # c PROVE d.list # c.list
  OBVIOUS
<1>1. PICK a \in calls : /\ a.kind = c.kind /\ a.list = c.list
                         /\ \/ wizard'.open /\ c = a /\ a \notin gone
                            \/ Faded(c, a) /\ (a \in gone \/ ~wizard'.open)
  BY KeptFrom
<1>2. PICK b \in calls : /\ b.kind = d.kind /\ b.list = d.list
                         /\ \/ wizard'.open /\ d = b /\ b \notin gone
                            \/ Faded(d, b) /\ (b \in gone \/ ~wizard'.open)
  BY KeptFrom
<1>3. a # b => b.list # a.list
  BY <1>1 DEF UploadsAlone
<1>4. CASE Faded(c, a) /\ Faded(d, b)
  <2>1. a # b
    BY <1>4 DEF Faded
  <2>. QED
    BY <1>1, <1>2, <1>3, <2>1
<1>5. CASE ~(Faded(c, a) /\ Faded(d, b))
  <2>1. a # b
    BY <1>1, <1>2, <1>5
  <2>. QED
    BY <1>1, <1>2, <1>3, <2>1
<1>. QED
  BY <1>4, <1>5

(* An answer, or its loss.                                                 *)
LEMMA EndIsOK ==
    ASSUME PanelShape, UploadsAlone, NEW c \in calls, Finishes(c)
    PROVE  PanelShape' /\ UploadsAlone'
<1>1. lists' = lists /\ left' = left /\ (Remain({c}, {}) \/ Remain({c}, UnderWay))
  BY DEF Finishes, Same
<1>2. Grown
  BY <1>1, SameListsGrown
<1>3. (\A d \in calls' : CallOK(d)') /\ (~wizard'.open => \A d \in calls' : ~d.heard)
  BY <1>1, KeptIsOK DEF Remain
<1>4. CallOK(c) /\ DOMAIN wizard = {"open", "step", "preview", "busy", "done"}
  BY DEF PanelShape
<1>5. /\ DOMAIN wizard' = {"open", "step", "preview", "busy", "done"}
      /\ wizard'.open \in BOOLEAN /\ wizard'.busy \in BOOLEAN
      /\ ~wizard'.open => wizard'.preview = NoPreview
      /\ \/ wizard'.preview \in {wizard.preview, NoPreview}
         \/ /\ wizard'.preview = c.preview /\ c.preview # NoPreview
            /\ Remain({c}, {})
  <2>1. \/ Hears(c, c.preview) /\ Remain({c}, {})
        \/ Hears(c, NoPreview)
    BY DEF Finishes
  <2>2. wizard.open \in BOOLEAN /\ wizard.busy \in BOOLEAN /\ (~wizard.open => wizard.preview = NoPreview /\ ~c.heard)
    BY DEF PanelShape
  <2>3. CASE wizard' = wizard
    BY <1>4, <2>2, <2>3
  <2>4. CASE wizard' = Closed
    BY <2>4 DEF Closed
  <2>5. CASE ~(wizard' = wizard \/ wizard' = Closed)
    BY <1>4, <2>1, <2>2, <2>5 DEF Hears
  <2>. QED
    BY <2>3, <2>4, <2>5
<1>6. (wizard.preview # NoPreview => Faithful(wizard.preview))'
  <2>1. c.preview # NoPreview => Faithful(c.preview)
    BY <1>4 DEF CallOK, Carries
  <2>2. wizard.preview # NoPreview => Faithful(wizard.preview)
    BY DEF PanelShape
  <2>. QED
    BY <1>2, <1>5, <2>1, <2>2, PreviewStays
<1>7. PanelShape'
  BY <1>2, <1>3, <1>5, <1>6 DEF PanelShape, Grown
<1>8. UploadsAlone'
  <2>1. \A a, b \in calls' : a.kind = "upload" /\ b # a => b.list # a.list
    BY <1>1, KeptAlone
  <2>2. ASSUME NEW e \in calls', e.kind = "upload" PROVE wizard'.preview.list # e.list
    <3>1. e.list \in 1..left'.lists /\ left'.lists \in Nat
      BY <1>7 DEF PanelShape, CallOK
    <3>2. PICK b \in calls : b.kind = e.kind /\ b.list = e.list
      BY <1>1, <2>2, KeptFrom, ZenonT(40)
    <3>3. CASE wizard'.preview = wizard.preview
      BY <2>2, <3>2, <3>3 DEF UploadsAlone
    <3>4. CASE wizard'.preview = NoPreview
      BY <3>1, <3>4 DEF NoPreview
    <3>5. CASE wizard'.preview = c.preview /\ c.preview # NoPreview /\ Remain({c}, {})
      <4>1. c.preview.list = c.list
        BY <1>4, <3>5 DEF CallOK, Carries
      <4> DEFINE gone == {c}
                 steps == {}
      <4>2. Remain(gone, steps) /\ \A a \in steps : FALSE
        BY <3>5
      <4> HIDE DEF gone, steps
      <4>3. PICK a \in calls : a.kind = e.kind /\ a.list = e.list /\ (a \notin gone \/ a.step \in steps)
        BY <2>2, <4>2, KeptFrom, ZenonT(40)
      <4>4. a # c
        BY <4>2, <4>3 DEF gone
      <4>. QED
        BY <2>2, <3>5, <4>1, <4>3, <4>4 DEF UploadsAlone
    <3>. QED
      BY <1>5, <3>3, <3>4, <3>5
  <2>. QED
    BY <2>1, <2>2 DEF UploadsAlone
<1>. QED
  BY <1>7, <1>8

LEMMA RestIsOK ==
    ASSUME PanelShape, UploadsAlone,
           Turns \/ Closes \/ (\E n \in NewBeats : CreateBeat(n)) \/ UNCHANGED panelVars
    PROVE  PanelShape' /\ UploadsAlone'
<1>1. CASE Closes
  <2>1. lists' = lists /\ left' = left /\ wizard' = Closed /\ Remain({}, {})
    BY <1>1 DEF Closes, Same
  <2>2. Grown /\ \A d \in calls' : CallOK(d)'
    BY <2>1, SameListsGrown, KeptIsOK
  <2>3. PanelShape'
    BY <2>1, <2>2 DEF PanelShape, Grown, Closed, Remain
  <2>4. \A a, b \in calls' : a.kind = "upload" /\ b # a => b.list # a.list
    BY <2>1, KeptAlone
  <2>5. \A e \in calls' : e.list \in 1..left'.lists /\ left'.lists \in Nat
    BY <2>3 DEF PanelShape, CallOK
  <2>. QED
    BY <2>1, <2>3, <2>4, <2>5 DEF UploadsAlone, Closed, NoPreview
<1>2. CASE ~Closes
  <2>1. /\ lists' = lists /\ left' = left /\ calls' = calls
        /\ wizard' = wizard \/ Turns
    BY <1>2 DEF Turns, Same, CreateBeat, Client, panelVars
  <2>2. Grown /\ \A d \in calls : CallOK(d)
    BY <2>1, SameListsGrown DEF PanelShape
  <2>3. \A d \in calls' : CallOK(d)'
    BY <2>1, <2>2, CallStays DEF CallOK, Carries
  <2>4. /\ DOMAIN wizard' = {"open", "step", "preview", "busy", "done"}
        /\ wizard'.open \in BOOLEAN /\ wizard'.busy \in BOOLEAN /\ (~wizard'.open => ~wizard.open)
        /\ wizard'.preview \in {wizard.preview, NoPreview}
    BY <2>1 DEF Turns, PanelShape
  <2>5. (wizard.preview # NoPreview => Faithful(wizard.preview))'
    BY <2>2, <2>4, PreviewStays DEF PanelShape
  <2>6. PanelShape'
    BY <2>1, <2>2, <2>3, <2>4, <2>5 DEF PanelShape, Grown
  <2>7. \A e \in calls : e.list # 0
    BY <2>2 DEF CallOK, PanelShape
  <2>. QED
    BY <2>1, <2>4, <2>6, <2>7 DEF UploadsAlone, NoPreview
<1>. QED
  BY <1>1, <1>2

LEMMA PanelShapeNext ==
    PanelShape /\ UploadsAlone /\ [PanelNext]_panelVars => PanelShape' /\ UploadsAlone'
BY PanelSteps, WorkKeepsShape, EndIsOK, SentIsOK, RestIsOK

LEMMA PanelShapeInit == ASSUME Readable, PanelInit PROVE PanelShape /\ UploadsAlone
BY DEF Readable, PanelInit, Opened, Closed, PanelShape, UploadsAlone

(* Two calls that are awaited at once are about lists that are astray; of  *)
(* any other list the wizard shows what the server holds, or is about to.  *)
OneAwaited ==
    /\ \A c, d \in Awaited : c # d => c.list \in astray
    /\ \A c \in Awaited : wizard.preview # NoPreview /\ wizard.preview.list # c.list =>
         c.list \in astray /\ wizard.preview.list \in astray
    /\ \A c \in Awaited : c.list \notin astray => wizard.busy

Told(c) == c.kind = "mapping" /\ (c.step = "check" \/ (c.step = "answered" /\ c.preview # NoPreview))
Shown(p) ==
    \/ p.list \in astray
    \/ lists[p.list].mapping = p.mapping
    \/ \E c \in Awaited : Told(c) /\ c.list = p.list
ShownIsHeld == wizard.preview # NoPreview => Shown(wizard.preview)

(* What a call has read or is to answer is what the server holds, and what *)
(* is to be imported what was shown.                                       *)
AnswersHeld(c) ==
    c.kind \in {"upload", "mapping"} /\ c.list \notin astray =>
        /\ c.step = "check" => c.record.mapping = lists[c.list].mapping
        /\ c.step = "answered" /\ c.preview # NoPreview => c.preview.mapping = lists[c.list].mapping
AnswerIsHeld == \A c \in Awaited : AnswersHeld(c)
ConfirmsShown(c) ==
    c.kind = "confirm" /\ c.list \notin astray =>
        /\ c.step = "sent" => lists[c.list].mapping = c.shown.mapping
        /\ c.step \in {"check", "import"} => c.record.mapping = c.shown.mapping
ConfirmedIsHeld == \A c \in calls : ConfirmsShown(c)
Left(c) ==
    c.kind = "confirm" /\ c.step = "sent" /\ ~c.heard =>
        /\ wizard.preview.list # c.list
        /\ \A d \in Awaited : d.list # c.list
Abandoned == \A c \in calls : Left(c)

(* What was there when a list was checked is there when it is imported,    *)
(* and what was imported is there from then on.                            *)
Covers(larger, smaller) == \A n \in DOMAIN smaller : n \in DOMAIN larger /\ smaller[n] \subseteq larger[n]
Gives(larger, adds) == \A n \in DOMAIN adds : n \in DOMAIN larger /\ adds[n].records \subseteq larger[n]
IsThere(c) ==
    c.kind = "confirm" /\ c.preview # NoPreview =>
        /\ Covers(beats, c.preview.known)
        /\ c.step = "answered" => Gives(beats, c.preview.adds)
ImportedIsThere == \A c \in calls : IsThere(c)

PanelKept == OneAwaited /\ ShownIsHeld /\ AnswerIsHeld /\ ConfirmedIsHeld /\ Abandoned /\ ImportedIsThere
PanelInv == PanelShape /\ UploadsAlone /\ PanelKept

LEMMA AddedCovers ==
    ASSUME NEW adds PROVE Covers(AddedTo(beats, adds), beats) /\ Gives(AddedTo(beats, adds), adds)
BY DEF Covers, Gives, AddedTo

LEMMA ThereStays ==
    ASSUME Covers(beats', beats), NEW c, IsThere(c) PROVE IsThere(c)'
BY DEF Covers, Gives, IsThere

LEMMA AwaitedAre == \A c : c \in Awaited <=> c \in calls /\ c.heard /\ c.kind # "cancel"
BY DEF Awaited
LEMMA AwaitedNext == \A c : c \in Awaited' <=> c \in calls' /\ c.heard /\ c.kind # "cancel"
BY DEF Awaited

-----------------------------------------------------------------------------
(* A step of a request *)

WorkSteps(c, d) ==
    /\ c \in calls /\ Advances(c, d) /\ CallOK(c)
    /\ astray \subseteq astray'
    /\ \A i \in DOMAIN lists : i \in DOMAIN lists' /\
         \/ lists'[i].mapping = lists[i].mapping
         \/ Stores(c, d) /\ i = c.list
    /\ \A p : p = wizard.preview /\ p # NoPreview => p.list \in DOMAIN lists

LEMMA WorkChanges ==
    ASSUME PanelShape, NEW c \in calls, NEW d, Work(c, d)
    PROVE  WorkSteps(c, d)
<1>1. CallOK(c) /\ Advances(c, d) /\ astray \subseteq astray'
  BY DEF PanelShape, Work, Creates, Refuses, Loads, Stores, Shows, Checks, Adds, Untouched
<1>2. wizard.preview # NoPreview => wizard.preview.list \in DOMAIN lists
  BY DEF PanelShape, Faithful
<1>3. CASE SameMappings
  BY <1>1, <1>2, <1>3 DEF SameMappings, WorkSteps
<1>4. CASE Creates(c, d)
  <2>1. c.list \notin DOMAIN lists
    BY <1>1, <1>4 DEF Creates, CallOK, Carries
  <2>. QED
    BY <1>1, <1>2, <1>4, <2>1 DEF Creates, WorkSteps
<1>5. CASE Stores(c, d)
  BY <1>1, <1>2, <1>5 DEF Stores, WorkSteps
<1>. QED
  BY <1>3, <1>4, <1>5 DEF Work, Untouched, Refuses, Loads, Shows, Checks, Adds

LEMMA WorkAwaits ==
    ASSUME NEW c, NEW d, WorkSteps(c, d)
    PROVE  /\ \A e \in Awaited' : (e = d /\ c \in Awaited) \/ (e \in Awaited /\ e # c)
           /\ \A e \in Awaited : (e = c /\ d \in Awaited') \/ e \in Awaited'
           /\ d.list = c.list /\ d.kind = c.kind
BY AwaitedAre, AwaitedNext DEF WorkSteps, Advances, Like

LEMMA WorkOneAwaited ==
    ASSUME OneAwaited, NEW c, NEW d, WorkSteps(c, d) PROVE OneAwaited'
<1>1. /\ \A e \in Awaited' : \E a \in Awaited :
              a.list = e.list /\ (e # d => e = a /\ e # c) /\ (e = d => a = c \/ (a = d /\ a # c))
      /\ wizard' = wizard /\ astray \subseteq astray' /\ d.list = c.list
  BY WorkAwaits DEF WorkSteps, Advances
<1>2. ASSUME NEW e \in Awaited', NEW f \in Awaited', e # f PROVE e.list \in astray'
  <2>1. PICK a \in Awaited : a.list = e.list /\ (e # d => e = a /\ e # c) /\ (e = d => a = c \/ (a = d /\ a # c))
    BY <1>1
  <2>2. PICK b \in Awaited : b.list = f.list /\ (f # d => f = b /\ f # c) /\ (f = d => b = c \/ (b = d /\ b # c))
    BY <1>1
  <2>3. a # b
    BY <1>2, <2>1, <2>2
  <2>. QED
    BY <1>1, <2>1, <2>3 DEF OneAwaited
<1>. QED
  BY <1>1, <1>2 DEF OneAwaited

LEMMA WorkShows ==
    ASSUME PanelShape, ShownIsHeld, NEW c, NEW d, WorkSteps(c, d), Work(c, d) PROVE ShownIsHeld'
<1> SUFFICES ASSUME NEW p, p = wizard.preview, p # NoPreview, p.list \notin astray' PROVE Shown(p)'
  <2>1. wizard' = wizard
    BY DEF WorkSteps, Advances
  <2>. QED
    BY <2>1 DEF ShownIsHeld, Shown
<1>1. p.list \in DOMAIN lists /\ p.list \notin astray /\ p.list # 0
  BY DEF WorkSteps, PanelShape
<1>2. d.list = c.list /\ d.kind = c.kind
  BY WorkAwaits
<1>3. CASE lists'[p.list].mapping # lists[p.list].mapping
  <2>1. Stores(c, d) /\ c.list = p.list
    BY <1>1, <1>3 DEF WorkSteps
  <2>2. c.heard /\ d \in calls' /\ d.heard = c.heard /\ d.kind = "mapping" /\ d.step = "check"
    BY <2>1, <1>2 DEF Stores, Advances, Like
  <2>3. d \in Awaited' /\ Told(d)
    BY <2>2, AwaitedNext DEF Told
  <2>. QED
    BY <1>2, <2>1, <2>3 DEF Shown
<1>4. CASE lists[p.list].mapping = p.mapping /\ lists'[p.list].mapping = lists[p.list].mapping
  BY <1>4 DEF Shown
<1>5. CASE lists[p.list].mapping # p.mapping
  <2>1. PICK w \in Awaited : Told(w) /\ w.list = p.list
    BY <1>1, <1>5 DEF ShownIsHeld, Shown
  <2>2. CASE w # c
    <3>1. w \in Awaited'
      BY <2>2, WorkAwaits
    <3>. QED
      BY <2>1, <3>1 DEF Shown
  <2>3. CASE w = c
    <3>1. Shows(c, d)
      BY <2>1, <2>3 DEF Told, Work, Creates, Refuses, Loads, Stores, Shows, Checks, Adds
    <3>2. d.step = "answered" /\ d.kind = "mapping" /\ d.preview.list = p.list
      BY <1>2, <2>1, <2>3, <3>1 DEF Shows, Told, buildPreview
    <3>3. d.preview # NoPreview
      BY <1>1, <3>2 DEF NoPreview
    <3>4. d \in Awaited'
      BY <2>1, <2>3, AwaitedAre, AwaitedNext DEF WorkSteps, Advances, Like
    <3>. QED
      BY <1>2, <2>1, <2>3, <3>2, <3>3, <3>4 DEF Told, Shown
  <2>. QED
    BY <2>2, <2>3
<1>. QED
  BY <1>3, <1>4, <1>5

(* Another call: its list is changed only where two are awaited.           *)
LEMMA OthersList ==
    ASSUME PanelShape, UploadsAlone, OneAwaited, NEW c, NEW d, WorkSteps(c, d), Work(c, d),
           NEW e \in calls, e # c, e.list \in DOMAIN lists, e.list \notin astray',
           e \in Awaited \/ \A a \in Awaited : a.list # e.list
    PROVE  lists'[e.list].mapping = lists[e.list].mapping
<1> SUFFICES ASSUME lists'[e.list].mapping # lists[e.list].mapping PROVE FALSE
  OBVIOUS
<1>1. Stores(c, d) /\ e.list = c.list
  BY DEF WorkSteps
<1>2. c.heard /\ c.kind = "mapping" /\ c \in calls
  BY <1>1 DEF Stores, WorkSteps
<1>3. c \in Awaited
  BY <1>2, AwaitedAre
<1>4. CASE e \in Awaited
  BY <1>1, <1>3, <1>4 DEF OneAwaited, WorkSteps
<1>5. CASE e \notin Awaited
  BY <1>1, <1>3, <1>5
<1>. QED
  BY <1>4, <1>5

LEMMA WorkAnswers ==
    ASSUME PanelShape, UploadsAlone, OneAwaited, AnswerIsHeld, NEW c, NEW d, WorkSteps(c, d), Work(c, d)
    PROVE  AnswerIsHeld'
<1> SUFFICES ASSUME NEW e \in Awaited', e.kind \in {"upload", "mapping"}, e.list \notin astray',
                    e.step \in {"check", "answered"}
             PROVE  AnswersHeld(e)'
  BY DEF AnswerIsHeld, AnswersHeld
<1>1. CASE e \in Awaited /\ e # c
  <2>1. AnswersHeld(e) /\ e \in calls /\ e.list \notin astray /\ e.heard
    BY <1>1, AwaitedAre DEF AnswerIsHeld, WorkSteps
  <2>2. CASE e.step = "answered" /\ e.preview = NoPreview
    BY <2>2 DEF AnswersHeld
  <2>3. CASE ~(e.step = "answered" /\ e.preview = NoPreview)
    <3>1. e.list \in DOMAIN lists
      BY <2>1, <2>3 DEF PanelShape, CallOK, Carries, Faithful
    <3>2. lists'[e.list].mapping = lists[e.list].mapping
      BY <1>1, <2>1, <3>1, OthersList
    <3>. QED
      BY <2>1, <3>2 DEF AnswersHeld
  <2>. QED
    BY <2>2, <2>3
<1>2. CASE e = d /\ c \in Awaited
  <2>1. d.list = c.list /\ d.kind = c.kind /\ AnswersHeld(c) /\ c.list \notin astray
    BY <1>2, WorkAwaits DEF AnswerIsHeld, WorkSteps
  <2>2. CASE Creates(c, d)
    BY <1>2, <2>1, <2>2 DEF Creates, AnswersHeld
  <2>3. CASE Refuses(c, d)
    BY <1>2, <2>3 DEF Refuses, AnswersHeld
  <2>4. CASE Stores(c, d)
    <3>1. DOMAIN c.record = ListFields /\ c.list \in DOMAIN lists /\ DOMAIN lists[c.list] = ListFields
      BY <2>4 DEF PanelShape, WorkSteps, CallOK, Carries, Stores
    <3>2. d.record.mapping = c.mapping /\ lists'[c.list].mapping = c.mapping
      BY <2>4, <3>1 DEF Stores, ListFields
    <3>. QED
      BY <1>2, <2>1, <2>4, <3>2 DEF Stores, AnswersHeld
  <2>5. CASE Shows(c, d)
    <3>1. d.preview.mapping = lists[c.list].mapping
      BY <2>1, <2>5 DEF Shows, AnswersHeld, buildPreview
    <3>2. c.list \in DOMAIN lists
      BY <2>5 DEF Shows, WorkSteps, CallOK, Carries
    <3>3. lists'[c.list].mapping = lists[c.list].mapping
      BY <2>5, <3>2 DEF Shows, Untouched, SameMappings
    <3>. QED
      BY <1>2, <2>1, <2>5, <3>1, <3>3 DEF Shows, AnswersHeld
  <2>. QED
    BY <1>2, <2>1, <2>2, <2>3, <2>4, <2>5 DEF Work, Loads, Checks, Adds
<1>. QED
  BY <1>1, <1>2, WorkAwaits

LEMMA WorkConfirms ==
    ASSUME PanelShape, UploadsAlone, OneAwaited, Abandoned, ConfirmedIsHeld, NEW c, NEW d,
           WorkSteps(c, d), Work(c, d)
    PROVE  ConfirmedIsHeld'
<1> SUFFICES ASSUME NEW e \in calls', e.kind = "confirm", e.list \notin astray'
             PROVE  ConfirmsShown(e)'
  BY DEF ConfirmedIsHeld, ConfirmsShown
<1>1. CASE e \in calls /\ e # c
  <2>1. ConfirmsShown(e) /\ e.list \notin astray /\ e.list \in DOMAIN lists /\ Left(e)
    BY <1>1 DEF ConfirmedIsHeld, Abandoned, WorkSteps, PanelShape, CallOK, Carries
  <2>2. e.step = "sent" => e \in Awaited \/ \A a \in Awaited : a.list # e.list
    BY <1>1, <2>1, AwaitedAre DEF Left
  <2>3. e.step = "sent" => lists'[e.list].mapping = lists[e.list].mapping
    BY <1>1, <2>1, <2>2, OthersList
  <2>. QED
    BY <2>1, <2>3 DEF ConfirmsShown
<1>2. CASE e = d
  <2>1. d.list = c.list /\ d.kind = c.kind /\ d.shown = c.shown /\ ConfirmsShown(c) /\ c.list \notin astray
    BY <1>2, WorkAwaits DEF ConfirmedIsHeld, WorkSteps, Advances, Like
  <2>2. CASE Loads(c, d)
    BY <1>2, <2>1, <2>2 DEF Loads, ConfirmsShown
  <2>3. CASE Checks(c, d)
    BY <1>2, <2>1, <2>3 DEF Checks, ConfirmsShown
  <2>4. CASE Refuses(c, d) \/ Adds(c, d)
    BY <1>2, <2>4 DEF Refuses, Adds, ConfirmsShown
  <2>. QED
    BY <1>2, <2>1, <2>2, <2>3, <2>4 DEF Work, Creates, Stores, Shows
<1>. QED
  BY <1>1, <1>2 DEF WorkSteps, Advances

LEMMA WorkAbandons ==
    ASSUME Abandoned, NEW c, NEW d, WorkSteps(c, d), Work(c, d)
    PROVE  Abandoned'
<1>1. d.step # "sent" /\ wizard' = wizard
  BY DEF Work, Creates, Refuses, Loads, Stores, Shows, Checks, Adds, WorkSteps, Advances
<1> SUFFICES ASSUME NEW e \in calls', e.kind = "confirm", e.step = "sent", ~e.heard PROVE Left(e)'
  BY DEF Abandoned, Left
<1>2. e \in calls /\ Left(e)
  BY <1>1 DEF WorkSteps, Advances, Abandoned
<1>3. \A f \in Awaited' : \E a \in Awaited : a.list = f.list
  BY WorkAwaits
<1>. QED
  BY <1>1, <1>2, <1>3 DEF Left

LEMMA WorkIsThere ==
    ASSUME ImportedIsThere, NEW c, NEW d, WorkSteps(c, d), Work(c, d)
    PROVE  ImportedIsThere'
<1>1. Covers(beats', beats)
  <2>1. CASE beats' = beats
    BY <2>1 DEF Covers
  <2>2. CASE Adds(c, d)
    BY <2>2, AddedCovers DEF Adds
  <2>. QED
    BY <2>1, <2>2 DEF Work, Creates, Refuses, Loads, Stores, Shows, Checks, Untouched
<1>2. \A e \in calls : IsThere(e)'
  BY <1>1, ThereStays DEF ImportedIsThere
<1>3. IsThere(d)'
  <2>1. CASE Checks(c, d)
    BY <1>1, <2>1 DEF Checks, IsThere, buildPreview
  <2>2. CASE Adds(c, d)
    <3>1. IsThere(c)' /\ d.kind = c.kind /\ d.preview = c.preview
      BY <1>2, <2>2 DEF WorkSteps, Adds, Advances, Like
    <3>2. Gives(beats', d.preview.adds)
      BY <2>2, AddedCovers DEF Adds
    <3>. QED
      BY <3>1, <3>2 DEF IsThere
  <2>3. CASE d.preview = NoPreview \/ d.kind # "confirm"
    BY <2>3 DEF IsThere
  <2>. QED
    BY <2>1, <2>2, <2>3 DEF Work, Creates, Refuses, Loads, Stores, Shows, Advances, Like
<1>. QED
  BY <1>2, <1>3 DEF ImportedIsThere, WorkSteps, Advances

LEMMA WorkKeeps ==
    ASSUME PanelShape, UploadsAlone, PanelKept, NEW c \in calls, NEW d, Work(c, d)
    PROVE  PanelKept'
BY WorkChanges, WorkOneAwaited, WorkShows, WorkAnswers, WorkConfirms, WorkAbandons, WorkIsThere DEF PanelKept

-----------------------------------------------------------------------------
(* A step of the wizard *)

LEMMA SentKeeps ==
    ASSUME PanelShape, UploadsAlone, PanelKept, NEW c, Drops(c) \/ Asks(c)
    PROVE  PanelKept'
<1>1. /\ calls' = calls \cup {c} /\ c.step = "sent" /\ c.heard = TRUE /\ c.preview = NoPreview
      /\ lists' = lists /\ beats' = beats /\ astray \subseteq astray'
  BY DEF Drops, Asks, Sends, Same
<1>2. Awaited' = Awaited \cup (IF c.kind = "cancel" THEN {} ELSE {c})
  BY <1>1 DEF Awaited
<1>3. \A e \in calls : e.kind = "confirm" => e.list \in DOMAIN lists
  BY DEF PanelShape, CallOK, Carries
<1>4. CASE Drops(c)
  <2>1. /\ c.kind = "upload" /\ wizard'.preview = NoPreview /\ wizard'.busy = TRUE /\ c.list \notin DOMAIN lists
        /\ astray' = IF Awaited = {} THEN astray
                     ELSE astray \cup {c.list} \cup {d.list : d \in Awaited}
        /\ Awaited' = Awaited \cup {c}
    BY <1>2, <1>4 DEF Drops, Uploads
  <2>2. \A e, f \in Awaited' : e # f => e.list \in astray'
    <3>1. CASE Awaited = {}
      BY <2>1, <3>1
    <3>2. CASE Awaited # {}
      BY <2>1, <3>2
    <3>. QED
      BY <3>1, <3>2
  <2>3. OneAwaited'
    BY <2>1, <2>2 DEF OneAwaited
  <2>4. ShownIsHeld'
    BY <2>1 DEF ShownIsHeld
  <2>5. AnswerIsHeld'
    BY <1>1, <2>1 DEF AnswerIsHeld, AnswersHeld, PanelKept
  <2>6. ConfirmedIsHeld'
    BY <1>1, <2>1 DEF ConfirmedIsHeld, ConfirmsShown, PanelKept
  <2>7. Abandoned'
    <3>1. \A e \in calls : e.kind = "confirm" => e.list # 0
      BY <1>3 DEF PanelShape
    <3>2. ASSUME NEW e \in calls', e.kind = "confirm", e.step = "sent", ~e.heard PROVE Left(e)'
      <4>1. e \in calls /\ Left(e) /\ e.list \in DOMAIN lists /\ e.list # 0
        BY <1>1, <1>3, <2>1, <3>1, <3>2 DEF PanelKept, Abandoned
      <4>. QED
        BY <2>1, <3>2, <4>1 DEF Left, NoPreview
    <3>. QED
      BY <3>2 DEF Abandoned, Left
  <2>8. ImportedIsThere'
    BY <1>1, <2>1 DEF ImportedIsThere, IsThere, PanelKept
  <2>. QED
    BY <2>3, <2>4, <2>5, <2>6, <2>7, <2>8 DEF PanelKept
<1>5. CASE Asks(c)
  <2>1. /\ wizard.preview # NoPreview /\ wizard'.preview = wizard.preview /\ astray' = astray
        /\ c.list = wizard.preview.list /\ c.kind \in {"mapping", "cancel", "confirm"}
        /\ c.kind = "confirm" => c.shown = wizard.preview
        /\ IF c.kind = "cancel" THEN wizard'.busy = wizard.busy ELSE ~wizard.busy /\ wizard'.busy = TRUE
    BY <1>5 DEF Asks
  <2>2. c.kind # "cancel" => \A e \in Awaited : e.list \in astray /\ wizard.preview.list \in astray
    BY <2>1 DEF PanelKept, OneAwaited
  <2>3. OneAwaited'
    BY <1>2, <2>1, <2>2 DEF PanelKept, OneAwaited
  <2>4. ShownIsHeld'
    <3>1. Shown(wizard.preview)
      BY <2>1 DEF PanelKept, ShownIsHeld
    <3>. QED
      BY <1>1, <1>2, <2>1, <3>1 DEF ShownIsHeld, Shown
  <2>5. AnswerIsHeld'
    BY <1>1, <1>2, <2>1 DEF AnswerIsHeld, AnswersHeld, PanelKept
  <2>6. ConfirmedIsHeld'
    <3>1. ConfirmsShown(c)'
      <4>1. c.kind = "confirm" /\ c.list \notin astray => lists[c.list].mapping = c.shown.mapping
        <5>1. Shown(wizard.preview)
          BY <2>1 DEF PanelKept, ShownIsHeld
        <5>. QED
          BY <2>1, <2>2, <5>1 DEF Shown
      <4>. QED
        BY <1>1, <2>1, <4>1 DEF ConfirmsShown
    <3>. QED
      BY <1>1, <2>1, <3>1 DEF ConfirmedIsHeld, ConfirmsShown, PanelKept
  <2>7. Abandoned'
    BY <1>1, <1>2, <2>1 DEF PanelKept, Abandoned, Left
  <2>8. ImportedIsThere'
    BY <1>1, <2>1 DEF ImportedIsThere, IsThere, PanelKept
  <2>. QED
    BY <2>3, <2>4, <2>5, <2>6, <2>7, <2>8 DEF PanelKept
<1>. QED
  BY <1>4, <1>5

(* What the calls that remain carry over.                                  *)
LEMMA RemainKeeps ==
    ASSUME PanelShape, UploadsAlone, PanelKept, lists' = lists, beats' = beats, astray \subseteq astray',
           NEW gone, NEW steps, Remain(gone, steps), "sent" \notin steps
    PROVE  /\ Awaited' \subseteq Awaited \ gone
           /\ wizard'.open => Awaited \ gone \subseteq Awaited'
           /\ AnswerIsHeld' /\ ConfirmedIsHeld' /\ ImportedIsThere'
           /\ \A e \in calls' : e.kind = "confirm" /\ e.step = "sent" /\ ~e.heard =>
                  /\ e.list # 0
                  /\ wizard'.open => Left(e) /\ e \in calls
<1>0. \A d \in calls' : \E c \in calls :
         /\ c.kind = d.kind /\ c.list = d.list /\ c.step = d.step /\ c.preview = d.preview
         /\ c.record = d.record /\ c.shown = d.shown
         /\ \/ d = c /\ c \notin gone /\ wizard'.open
            \/ d.heard = FALSE /\ (c.step \in steps \/ ~wizard'.open)
  <2> TAKE d \in calls'
  <2>1. CASE wizard'.open /\ d \in calls \ gone
    BY <2>1
  <2>2. CASE ~(wizard'.open /\ d \in calls \ gone)
    <3>1. PICK c \in calls : Faded(d, c) /\ IF c \in gone THEN c.step \in steps ELSE ~wizard'.open
      BY <2>2 DEF Remain
    <3>. QED
      BY <3>1, FadedIs
  <2>. QED
    BY <2>1, <2>2
<1>1. Awaited' \subseteq Awaited \ gone
  <2>1. ASSUME NEW d \in Awaited' PROVE d \in Awaited \ gone
    <3>1. d \in calls' /\ d.heard /\ d.kind # "cancel"
      BY AwaitedNext
    <3>2. d \in calls \ gone
      BY <3>1, <1>0
    <3>. QED
      BY <3>1, <3>2, AwaitedAre
  <2>. QED
    BY <2>1
<1>2. wizard'.open => Awaited \ gone \subseteq Awaited'
  BY AwaitedAre, AwaitedNext DEF Remain
<1>3. AnswerIsHeld'
  BY <1>1 DEF PanelKept, AnswerIsHeld, AnswersHeld
<1>4. ConfirmedIsHeld'
  <2>1. ASSUME NEW d \in calls' PROVE ConfirmsShown(d)'
    <3>1. PICK c \in calls : /\ c.kind = d.kind /\ c.list = d.list /\ c.step = d.step
                             /\ c.record = d.record /\ c.shown = d.shown
      BY <2>1, <1>0
    <3>2. ConfirmsShown(c)
      BY DEF PanelKept, ConfirmedIsHeld
    <3>. QED
      BY <3>1, <3>2 DEF ConfirmsShown
  <2>. QED
    BY <2>1 DEF ConfirmedIsHeld
<1>5. ImportedIsThere'
  <2>1. ASSUME NEW d \in calls' PROVE IsThere(d)'
    <3>1. PICK c \in calls : c.kind = d.kind /\ c.step = d.step /\ c.preview = d.preview
      BY <2>1, <1>0
    <3>2. IsThere(c)
      BY DEF PanelKept, ImportedIsThere
    <3>. QED
      BY <3>1, <3>2 DEF IsThere
  <2>. QED
    BY <2>1 DEF ImportedIsThere
<1>6. ASSUME NEW e \in calls', e.kind = "confirm", e.step = "sent", ~e.heard
      PROVE  e.list # 0 /\ (wizard'.open => Left(e) /\ e \in calls)
  <2>1. PICK c \in calls : /\ c.kind = e.kind /\ c.list = e.list /\ c.step = e.step
                           /\ \/ e = c /\ wizard'.open
                              \/ c.step \in steps
                              \/ ~wizard'.open
    BY <1>6, <1>0
  <2>2. c.list # 0
    BY DEF PanelShape, CallOK
  <2>. QED
    BY <1>6, <2>1, <2>2 DEF PanelKept, Abandoned
<1>. QED
  BY <1>1, <1>2, <1>3, <1>4, <1>5, <1>6

LEMMA ClosedKeeps ==
    ASSUME PanelShape, UploadsAlone, PanelKept, wizard' = Closed, lists' = lists, beats' = beats,
           astray \subseteq astray', NEW gone, NEW steps, Remain(gone, steps), "sent" \notin steps
    PROVE  PanelKept'
<1>1. wizard'.preview = NoPreview /\ ~wizard'.open /\ wizard'.preview.list = 0
  BY DEF Closed, NoPreview
<1>2. Awaited' = {}
  BY <1>1, AwaitedNext DEF Remain
<1>3. OneAwaited' /\ ShownIsHeld'
  BY <1>1, <1>2 DEF OneAwaited, ShownIsHeld
<1>4. AnswerIsHeld' /\ ConfirmedIsHeld' /\ ImportedIsThere'
  BY RemainKeeps
<1>5. \A e \in calls' : e.kind = "confirm" /\ e.step = "sent" /\ ~e.heard => e.list # 0
  BY RemainKeeps
<1>6. Abandoned'
  BY <1>1, <1>2, <1>5 DEF Abandoned, Left
<1>. QED
  BY <1>3, <1>4, <1>6 DEF PanelKept

LEMMA EndKeeps ==
    ASSUME PanelShape, UploadsAlone, PanelKept, NEW c \in calls, Finishes(c)
    PROVE  PanelKept'
<1>1. PICK steps : /\ Remain({c}, steps) /\ "sent" \notin steps
                   /\ lists' = lists /\ beats' = beats /\ astray \subseteq astray'
  <2>1. "sent" \notin {} /\ "sent" \notin UnderWay
    BY DEF UnderWay
  <2>2. lists' = lists /\ beats' = beats /\ astray \subseteq astray'
    BY DEF Finishes, Same
  <2>3. Remain({c}, {}) \/ Remain({c}, UnderWay)
    BY DEF Finishes
  <2>. QED
    BY <2>1, <2>2, <2>3
<1> DEFINE gone == {c}
<1>2. Remain(gone, steps) /\ \A e : e \in gone <=> e = c
  BY <1>1
<1> HIDE DEF gone
<1>3. /\ Awaited' \subseteq Awaited \ gone
      /\ wizard'.open => Awaited \ gone \subseteq Awaited'
      /\ AnswerIsHeld' /\ ConfirmedIsHeld' /\ ImportedIsThere'
      /\ \A e \in calls' : e.kind = "confirm" /\ e.step = "sent" /\ ~e.heard =>
             /\ e.list # 0
             /\ wizard'.open => Left(e) /\ e \in calls
  BY <1>1, <1>2, RemainKeeps
<1>4. \/ Hears(c, c.preview) /\ c.step = "answered" /\ astray' = astray
      \/ /\ c.heard /\ Hears(c, NoPreview)
         /\ c.kind = "mapping" /\ c.step \in {"check", "answered"} => c.list \in astray'
  BY DEF Finishes
<1>5. CASE wizard' = Closed
  BY <1>1, <1>2, <1>5, ClosedKeeps
<1>6. CASE ~c.heard /\ wizard' = wizard
  <2>1. Awaited' = Awaited
    <3>1. c \notin Awaited
      BY <1>6, AwaitedAre
    <3>2. ~wizard.open => Awaited = {}
      BY AwaitedAre DEF PanelShape
    <3>. QED
      BY <1>2, <1>3, <1>6, <3>1, <3>2
  <2>2. OneAwaited'
    BY <1>1, <1>6, <2>1 DEF PanelKept, OneAwaited
  <2>3. ShownIsHeld'
    BY <1>1, <1>6, <2>1 DEF PanelKept, ShownIsHeld, Shown
  <2>4. Abandoned'
    <3>1. ASSUME NEW e \in calls', e.kind = "confirm", e.step = "sent", ~e.heard PROVE Left(e)'
      <4>1. CASE wizard.open
        BY <1>3, <1>6, <2>1, <3>1, <4>1 DEF Left
      <4>2. CASE ~wizard.open
        <5>1. wizard'.preview.list = 0 /\ Awaited' = {}
          BY <1>6, <2>1, <4>2, AwaitedAre DEF PanelShape, NoPreview
        <5>. QED
          BY <1>3, <3>1, <5>1 DEF Left
      <4>. QED
        BY <4>1, <4>2
    <3>. QED
      BY <3>1 DEF Abandoned, Left
  <2>. QED
    BY <1>3, <2>2, <2>3, <2>4 DEF PanelKept
<1>7. CASE c.heard /\ c.kind # "cancel" /\ wizard' # Closed
  <2>1. /\ wizard'.open /\ c \in Awaited /\ c.list # 0
        /\ Awaited' = Awaited \ {c}
    <3>1. wizard.open /\ c.list # 0
      BY <1>7 DEF PanelShape, CallOK
    <3>2. wizard'.open
      BY <1>4, <1>7, <3>1 DEF Hears
    <3>. QED
      BY <1>2, <1>3, <1>7, <3>1, <3>2, AwaitedAre
  <2>2. \A e \in Awaited' : e \in Awaited /\ e # c /\ e.list \in astray /\ c.list \in astray
    BY <2>1 DEF PanelKept, OneAwaited
  <2>3. \/ /\ wizard'.preview = wizard.preview
           /\ c.kind = "mapping" /\ wizard.preview # NoPreview =>
                \/ c.step # "check" /\ ~(c.step = "answered" /\ c.preview # NoPreview)
                \/ c.list \in astray'
        \/ /\ c.kind \in {"upload", "mapping"} /\ c.preview # NoPreview /\ wizard'.preview = c.preview
           /\ c.step = "answered"
    BY <1>4, <1>7 DEF Hears
  <2>4. c.preview # NoPreview => c.preview.list = c.list
    BY DEF PanelShape, CallOK, Carries
  <2>5. OneAwaited'
    <3>1. \A e \in Awaited' :
             wizard'.preview # NoPreview /\ wizard'.preview.list # e.list => wizard'.preview.list \in astray
      BY <2>2, <2>3, <2>4 DEF PanelKept, OneAwaited
    <3>. QED
      BY <1>1, <2>2, <3>1 DEF OneAwaited
  <2>6. ShownIsHeld'
    <3> DEFINE Heard == /\ wizard'.preview = c.preview /\ c.preview # NoPreview
                        /\ c.kind \in {"upload", "mapping"} /\ c.step = "answered"
    <3>1. CASE Heard
      <4>1. AnswersHeld(c)
        BY <2>1 DEF PanelKept, AnswerIsHeld
      <4>2. c.list \in astray' \/ lists'[c.list].mapping = c.preview.mapping
        BY <1>1, <3>1, <4>1 DEF AnswersHeld
      <4>. QED
        BY <2>4, <3>1, <4>2 DEF ShownIsHeld, Shown
    <3>2. CASE wizard'.preview = wizard.preview /\ wizard.preview # NoPreview /\ ~Heard
      <4>1. Shown(wizard.preview)
        BY <3>2 DEF PanelKept, ShownIsHeld
      <4>2. ASSUME NEW w \in Awaited, Told(w), w.list = wizard.preview.list
            PROVE  w.list \in astray' \/ w \in Awaited'
        <5>1. CASE w # c
          BY <2>1, <5>1
        <5>2. CASE w = c
          BY <2>2, <2>3, <3>2, <4>2, <5>2 DEF Told
        <5>. QED
          BY <5>1, <5>2
      <4>3. Shown(wizard.preview)'
        BY <1>1, <3>2, <4>1, <4>2 DEF Shown
      <4>. QED
        BY <4>3 DEF ShownIsHeld
    <3>. QED
      BY <2>3, <3>1, <3>2 DEF ShownIsHeld
  <2>7. Abandoned'
    <3>1. ASSUME NEW e \in calls', e.kind = "confirm", e.step = "sent", ~e.heard PROVE Left(e)'
      <4>1. Left(e) /\ c.list # e.list
        BY <1>3, <2>1, <3>1 DEF Left
      <4>2. wizard'.preview.list # e.list
        BY <2>3, <2>4, <3>1, <4>1 DEF Left
      <4>. QED
        BY <2>1, <3>1, <4>1, <4>2 DEF Left
    <3>. QED
      BY <3>1 DEF Abandoned, Left
  <2>. QED
    BY <1>3, <2>5, <2>6, <2>7 DEF PanelKept
<1>. QED
  BY <1>4, <1>5, <1>6, <1>7 DEF Hears

LEMMA RestKeeps ==
    ASSUME PanelShape, UploadsAlone, PanelKept,
           Turns \/ Closes \/ (\E n \in NewBeats : CreateBeat(n)) \/ UNCHANGED panelVars
    PROVE  PanelKept'
<1>1. CASE Closes
  <2> DEFINE none == {}
  <2>1. /\ lists' = lists /\ beats' = beats /\ astray' = astray /\ wizard' = Closed
        /\ Remain(none, none) /\ "sent" \notin none
    BY <1>1 DEF Closes, Same
  <2> HIDE DEF none
  <2>. QED
    BY <2>1, ClosedKeeps
<1>2. CASE ~Closes
  <2>1. /\ lists' = lists /\ calls' = calls /\ astray' = astray
        /\ wizard' = wizard \/ Turns
        /\ Covers(beats', beats)
    <3>1. \/ Turns \/ UNCHANGED panelVars \/ \E n \in NewBeats : CreateBeat(n)
      BY <1>2
    <3>2. CASE Turns \/ UNCHANGED panelVars
      BY <3>2 DEF Turns, Same, panelVars, Covers
    <3>3. ASSUME NEW n \in NewBeats, CreateBeat(n)
          PROVE  /\ lists' = lists /\ calls' = calls /\ astray' = astray /\ wizard' = wizard
                 /\ Covers(beats', beats)
      <4>1. \E adds : beats' = AddedTo(beats, adds)
        BY <3>3 DEF CreateBeat
      <4>2. lists' = lists /\ calls' = calls /\ astray' = astray /\ wizard' = wizard
        BY <3>3 DEF CreateBeat, Client
      <4>. QED
        BY <4>1, <4>2, AddedCovers
    <3>. QED
      BY <3>1, <3>2, <3>3
  <2>2. Awaited' = Awaited
    BY <2>1 DEF Awaited
  <2>3. /\ wizard'.preview \in {wizard.preview, NoPreview}
        /\ wizard'.busy = wizard.busy \/ Awaited = {}
    BY <2>1, AwaitedAre DEF Turns, PanelShape
  <2>4. OneAwaited'
    BY <2>1, <2>2, <2>3 DEF PanelKept, OneAwaited
  <2>5. ShownIsHeld'
    BY <2>1, <2>2, <2>3 DEF PanelKept, ShownIsHeld, Shown
  <2>6. AnswerIsHeld' /\ ConfirmedIsHeld'
    BY <2>1, <2>2 DEF PanelKept, AnswerIsHeld, AnswersHeld, ConfirmedIsHeld, ConfirmsShown
  <2>7. Abandoned'
    <3>1. \A e \in calls : e.list # 0
      BY DEF PanelShape, CallOK
    <3>. QED
      BY <2>1, <2>2, <2>3, <3>1 DEF PanelKept, Abandoned, Left, NoPreview
  <2>8. ImportedIsThere'
    BY <2>1, ThereStays DEF PanelKept, ImportedIsThere
  <2>. QED
    BY <2>4, <2>5, <2>6, <2>7, <2>8 DEF PanelKept
<1>. QED
  BY <1>1, <1>2

LEMMA PanelInvNext == PanelInv /\ [PanelNext]_panelVars => PanelInv'
<1> SUFFICES ASSUME PanelInv, [PanelNext]_panelVars PROVE PanelInv'
  OBVIOUS
<1>1. PanelShape /\ UploadsAlone /\ PanelKept
  BY DEF PanelInv
<1>2. PanelShape' /\ UploadsAlone'
  BY <1>1, PanelShapeNext
<1>3. PanelKept'
  BY <1>1, PanelSteps, WorkKeeps, EndKeeps, SentKeeps, RestKeeps
<1>. QED
  BY <1>2, <1>3 DEF PanelInv

LEMMA PanelInvInit == ASSUME Readable, PanelInit PROVE PanelInv
<1>1. calls = {} /\ wizard.preview = NoPreview
  BY DEF PanelInit, Opened, Closed
<1>2. PanelKept
  BY <1>1 DEF PanelKept, OneAwaited, ShownIsHeld, AnswerIsHeld, ConfirmedIsHeld, Abandoned, ImportedIsThere, Awaited
<1>. QED
  BY <1>2, PanelShapeInit DEF PanelInv

LEMMA PanelInvHolds == Panel => []PanelInv
BY WizardAssumption, PanelInvInit, PanelInvNext, PTL DEF Panel

(* What the administrator sees is what will be imported: a list that was   *)
(* shown as it is held is read again with the same columns, so its check   *)
(* gives the same beats unless the beats have changed meanwhile            *)
(* (UploadBeatListWizard.tsx, beatImport.routes.ts).                       *)
THEOREM WhatIsShownIsImported == Panel => ShownIsImported
<1> DEFINE A == \A c \in calls : Imports(c) =>
                   \/ c.preview.adds = c.shown.adds
                   \/ c.preview.known # c.shown.known
                   \/ c.list \in astray
<1>1. PanelInv => A
  <2> SUFFICES ASSUME PanelInv, NEW c \in calls, Imports(c), c.preview.known = c.shown.known,
                      c.list \notin astray
               PROVE  c.preview.adds = c.shown.adds
    OBVIOUS
  <2>1. CallOK(c) /\ ConfirmsShown(c) /\ c.kind = "confirm" /\ c.step = "import"
    BY DEF PanelInv, PanelShape, PanelKept, ConfirmedIsHeld, Imports
  <2>2. c.preview.mapping = c.shown.mapping
    BY <2>1 DEF CallOK, Carries, ConfirmsShown
  <2>3. /\ c.preview.list = c.list /\ Faithful(c.preview)
        /\ c.shown.list = c.list /\ Faithful(c.shown)
    BY <2>1 DEF CallOK, Carries
  <2>. QED
    BY <2>2, <2>3 DEF Faithful
<1> HIDE DEF A
<1>2. Panel => [][A]_panelVars
  BY <1>1, PanelInvHolds, PTL DEF Panel
<1>. QED
  BY <1>2 DEF A, ShownIsImported

-----------------------------------------------------------------------------
(* No accepted row is dropped: after a row, and after any further row, its *)
(* beat and its record are among those gathered or those there were.       *)
Found(file, m, known, b, r) ==
    LET n == Cell(file[r], "beatNumber", m)
    IN  \/ n \in DOMAIN known /\ RecordOf(file[r], m) \subseteq known[n]
        \/ n \in DOMAIN b /\ RecordOf(file[r], m) \subseteq b[n].records


LEMMA RowFinds ==
    ASSUME NEW file, NEW m, NEW known, NEW b, NEW r
    PROVE  LET after == AfterRow(file, m, known, b, r)
           IN  /\ ~Refused(file, m, known, r) => Found(file, m, known, after, r)
               /\ \A q : Found(file, m, known, b, q) => Found(file, m, known, after, q)
<1> DEFINE n == Cell(file[r], "beatNumber", m)
           records == RecordOf(file[r], m)
           g == Gather(b, n, file[r], m)
<1>1. /\ n \in DOMAIN g /\ records \subseteq g[n].records
      /\ \A k \in DOMAIN b : k \in DOMAIN g /\ b[k].records \subseteq g[k].records
  <2> DEFINE name == Cell(file[r], "name", m)
             shape == Cell(file[r], "territory", m)
             old == IF n \in DOMAIN b THEN b[n]
                    ELSE [name |-> Empty, territory |-> Empty, records |-> {}]
             new == [name |-> IF old.name = Empty THEN name ELSE old.name,
                     territory |-> IF old.territory = Empty THEN shape ELSE old.territory,
                     records |-> old.records \cup records]
  <2>1. g = [k \in DOMAIN b \cup {n} |-> IF k = n THEN new ELSE b[k]]
    BY DEF Gather
  <2>2. new.records = old.records \cup records
    OBVIOUS
  <2> HIDE DEF new
  <2>3. n \in DOMAIN b => old.records = b[n].records
    OBVIOUS
  <2> HIDE DEF old, n, g, records
  <2>. QED
    BY <2>1, <2>2, <2>3
<1>2. CASE Skip(file, m, known, b, r)
  <2>1. AfterRow(file, m, known, b, r) = b
    BY <1>2 DEF AfterRow
  <2>2. ~Refused(file, m, known, r) => Found(file, m, known, b, r)
    BY <1>2 DEF Skip, AddsNothing, Found
  <2>. QED
    BY <2>1, <2>2
<1>3. CASE ~Skip(file, m, known, b, r)
  <2>1. AfterRow(file, m, known, b, r) = g
    BY <1>3 DEF AfterRow
  <2> HIDE DEF g
  <2>2. Found(file, m, known, g, r)
    BY <1>1 DEF Found
  <2>3. ASSUME NEW q, Found(file, m, known, b, q) PROVE Found(file, m, known, g, q)
    BY <1>1, <2>3 DEF Found
  <2>. QED
    BY <2>1, <2>2, <2>3
<1>. QED
  BY <1>2, <1>3

LEMMA AllAdded ==
    ASSUME NEW file, NEW m, NEW known, Len(file) \in Nat, DOMAIN file = 1..Len(file),
           NEW r \in DOMAIN file, ~Refused(file, m, known, r)
    PROVE  Found(file, m, known, Importable(file, m, known), r)
<1> DEFINE n == Len(file)
           After(b, q) == AfterRow(file, m, known, b, q)
           upTo == CHOOSE f : f = [q \in 0..n |-> IF q = 0 THEN <<>> ELSE After(f[q - 1], q)]
           bad == {k \in 0..n : ~\A q \in 1..k : ~Refused(file, m, known, q) => Found(file, m, known, upTo[k], q)}
<1>1. ~fileProblems(file, m)
  <2>1. "beatNumber" \in m
    BY DEF Refused, Cell
  <2>. QED
    BY <2>1 DEF fileProblems
<1>2. Importable(file, m, known) = upTo[n]
  BY <1>1 DEF Importable
<1>3. upTo = [q \in 0..n |-> IF q = 0 THEN <<>> ELSE After(upTo[q - 1], q)]
  <2>1. \E f : f = [q \in 0..n |-> IF q = 0 THEN <<>> ELSE After(f[q - 1], q)]
    <3>1. PICK g : IsRun(g, n, file, m, known)
      BY RunExists
    <3>2. g = [q \in 0..n |-> IF q = 0 THEN <<>> ELSE AfterRow(file, m, known, g[q - 1], q)]
      BY <3>1 DEF IsRun
    <3>3. \A b, q : After(b, q) = AfterRow(file, m, known, b, q)
      OBVIOUS
    <3> HIDE DEF After, n, upTo
    <3>4. g = [q \in 0..n |-> IF q = 0 THEN <<>> ELSE After(g[q - 1], q)]
      BY <3>2, <3>3
    <3>. QED
      BY <3>4
  <2> HIDE DEF After, n
  <2>. QED
    BY <2>1, Zenon
<1>4. /\ \A b, q : ~Refused(file, m, known, q) => Found(file, m, known, After(b, q), q)
      /\ \A b, q, p : Found(file, m, known, b, p) => Found(file, m, known, After(b, q), p)
  BY RowFinds
<1> HIDE DEF upTo, After
<1>5. ASSUME bad # {} PROVE FALSE
  <2>1. bad \in SUBSET Nat
    OBVIOUS
  <2>2. PICK k \in bad : \A j \in bad : k <= j
    <3>. HIDE DEF bad
    <3>. QED
      BY <1>5, <2>1, HasLeast
  <2>3. k # 0
    BY <2>2
  <2>4. k \in 1..n /\ k - 1 \in 0..n /\ k - 1 \notin bad
    BY <2>2, <2>3
  <2>5. upTo[k] = After(upTo[k - 1], k)
    BY <1>3, <2>2, <2>3
  <2>6. ASSUME NEW q \in 1..k, ~Refused(file, m, known, q)
        PROVE  Found(file, m, known, upTo[k], q)
    <3>1. CASE q = k
      BY <1>4, <2>5, <2>6, <3>1
    <3>2. CASE q # k
      <4>1. Found(file, m, known, upTo[k - 1], q)
        BY <2>4, <2>6, <3>2
      <4>. QED
        BY <1>4, <2>5, <4>1
    <3>. QED
      BY <3>1, <3>2
  <2>. QED
    BY <2>2, <2>6
<1>6. n \notin bad /\ n \in 0..n
  BY <1>5
<1>7. Found(file, m, known, upTo[n], r)
  BY <1>6
<1>. QED
  BY <1>2, <1>7

LEMMA RowsAreNumbered ==
    ASSUME Readable, NEW f \in DOMAIN Files, NEW mapping
    PROVE  LET listed == RowsUnder(Table[f], mapping)
           IN  Len(listed) \in Nat /\ DOMAIN listed = 1..Len(listed)
<1> DEFINE grid == Files[f]
           table == tableFromGrid(grid)
<1>1. Table[f] = table
  BY DEF Table
<1>2. Len(grid) \in Nat /\ DOMAIN grid = 1..Len(grid)
  BY DEF Readable
<1> HIDE DEF grid
<1>3. \E k \in Nat : DOMAIN table.rows = 1..k
  <2>1. CASE grid = <<>>
    <3>1. table.rows = <<>>
      BY <2>1 DEF tableFromGrid
    <3>2. DOMAIN table.rows = 1..0
      BY <3>1
    <3>. QED
      BY <3>2
  <2>2. CASE grid # <<>>
    <3> DEFINE header == grid[findHeaderRow(grid)]
               below == {i \in DOMAIN grid : i > findHeaderRow(grid)}
               columns == {c \in DOMAIN header : header[c] # Empty \/ \E i \in below : At(grid[i], c) # Empty}
               filled == {i \in below : \E c \in columns : At(grid[i], c) # Empty}
    <3>1. DOMAIN table.rows = 1..Cardinality(filled)
      BY <2>2 DEF tableFromGrid
    <3>2. filled \subseteq 1..Len(grid)
      BY <1>2
    <3> HIDE DEF filled
    <3>3. IsFiniteSet(1..Len(grid))
      BY <1>2, FS_Interval
    <3>4. Cardinality(filled) \in Nat
      BY <3>2, <3>3, FS_Subset, FS_CardinalityType
    <3>. QED
      BY <3>1, <3>4
  <2>. QED
    BY <2>1, <2>2
<1> HIDE DEF table
<1>4. PICK k \in Nat : DOMAIN table.rows = 1..k
  BY <1>3
<1> DEFINE listed == RowsUnder(table, mapping)
<1>5. listed = [r \in 1..k |-> RowUnder(table.rows[r], mapping)]
  BY <1>4 DEF RowsUnder
<1> HIDE DEF listed
<1>6. Len(listed) = k /\ DOMAIN listed = 1..k
  BY <1>5
<1>7. Len(listed) \in Nat /\ DOMAIN listed = 1..Len(listed)
  BY <1>4, <1>6
<1>. QED
  BY <1>1, <1>7 DEF listed

(* "Never dropped silently": once a list is imported, every row of it that *)
(* was not refused is among the beats, under its own number, whatever      *)
(* others created meanwhile (beatListImport.ts, beatImport.routes.ts).     *)
THEOREM WhatIsListedIsFound == Panel => ListedIsFound
<1> DEFINE ListedIn(c) == RowsUnder(Table[c.record.file], c.preview.mapping)
           MapOf(c) == Mapped(c.preview.mapping)
           AllFound(c) == LET m == MapOf(c)
                         listed == ListedIn(c)
                     IN \A r \in DOMAIN listed :
                           ~Refused(listed, m, c.preview.known, r) =>
                               /\ Cell(listed[r], "beatNumber", m) \in DOMAIN beats'
                               /\ RecordOf(listed[r], m) \subseteq beats'[Cell(listed[r], "beatNumber", m)]
           A == \A c \in calls : Imports(c) => AllFound(c)
<1>1. PanelInv /\ PanelInv' => A
  <2> SUFFICES ASSUME PanelInv, PanelInv', NEW c \in calls, Imports(c),
                      NEW r \in DOMAIN ListedIn(c), ~Refused(ListedIn(c), MapOf(c), c.preview.known, r)
               PROVE  /\ Cell(ListedIn(c)[r], "beatNumber", MapOf(c)) \in DOMAIN beats'
                      /\ RecordOf(ListedIn(c)[r], MapOf(c)) \subseteq beats'[Cell(ListedIn(c)[r], "beatNumber", MapOf(c))]
    OBVIOUS
  <2> DEFINE listed == ListedIn(c)
             m == MapOf(c)
             adds == c.preview.adds
             known == c.preview.known
             d == [c EXCEPT !.step = "answered"]
  <2>1. CallOK(c) /\ DOMAIN c = CallFields /\ c.kind = "confirm" /\ c.step = "import" /\ d \in calls'
    BY DEF PanelInv, PanelShape, CallOK, Imports
  <2>2. d.kind = "confirm" /\ d.step = "answered" /\ d.preview = c.preview
    BY <2>1 DEF CallFields
  <2>3. IsThere(d)'
    BY <2>1 DEF PanelInv, PanelKept, ImportedIsThere
  <2> HIDE DEF d
  <2>4. /\ c.preview # NoPreview /\ c.preview.list = c.list /\ Faithful(c.preview)
        /\ c.record.file = lists[c.list].file /\ c.list \in DOMAIN lists
    BY <2>1 DEF CallOK, Carries
  <2>5. Covers(beats', known) /\ Gives(beats', adds)
    BY <2>2, <2>3, <2>4 DEF IsThere
  <2>6. c.record.file \in DOMAIN Files
    BY <2>4 DEF PanelInv, PanelShape
  <2>7. Len(listed) \in Nat /\ DOMAIN listed = 1..Len(listed)
    BY <2>6, WizardAssumption, RowsAreNumbered
  <2>8. adds = Importable(listed, m, known)
    BY <2>4 DEF Faithful, checkBeatList
  <2> HIDE DEF listed, m, adds, known
  <2>9. r \in DOMAIN listed /\ ~Refused(listed, m, known, r)
    BY DEF listed, m, known
  <2>10. Found(listed, m, known, adds, r)
    BY <2>7, <2>8, <2>9, AllAdded
  <2>11. /\ Cell(listed[r], "beatNumber", m) \in DOMAIN beats'
         /\ RecordOf(listed[r], m) \subseteq beats'[Cell(listed[r], "beatNumber", m)]
    BY <2>5, <2>10 DEF Found, Covers, Gives
  <2>. QED
    BY <2>11 DEF listed, m
<1> HIDE DEF A
<1>2. Panel => [][A]_panelVars
  BY <1>1, PanelInvHolds, PanelInvNext, PTL DEF Panel
<1>. QED
  BY <1>2 DEF A, ListedIsFound
=============================================================================
