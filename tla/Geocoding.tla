------------------------------ MODULE Geocoding ------------------------------
(* Where is this address: learned locations, the two caches, the provider   *)
(* with its tiers, pauses and retries, and the column updates of every      *)
(* caller (services/geocoding/*, routes/geocoding.routes.ts and             *)
(* dataQuality.routes.ts, the creation of deliveries, "Retry Geocode All"). *)
(* Time passes in units of the pause between two requests.                  *)
EXTENDS AddressLearning, Sequences

CONSTANTS
    Jobs,       \* calls of geocodeAddress that can be in progress
    FirstLine,  \* a parcel's first address line, city and pincode
    CacheKey,   \* all fields of its address
    HasArea,    \* whether the address names an area
    Where,      \* the true point of its address
    AreaCentre, PincodeCentre,
    Gap,        \* units between two requests
    Backoff,    \* units a first refusal costs, twice that the second
    Situations      \* the situations examined

\* The centre of an area or of a pincode is not taken for a house or a street.
IsHonest(a) == a.source \in {"area", "pincode"} => a.precision \notin Precise

\* The rows there are at first were written by the same code, some of them
\* before precisions were stored.
ASSUME GeocodingAssumption ==
    /\ Gap \in Nat /\ Backoff \in Nat
    /\ \A w \in Situations :
         /\ w.jobs \subseteq Jobs /\ IsFiniteSet(w.jobs) /\ w.overlap \in BOOLEAN
         /\ DOMAIN w.rows = Parcels /\ \A p \in Parcels : IsHonest(w.rows[p])

VARIABLES
    situation,      \* one of Situations, fixed
    row,        \* per parcel: the geocode columns of its Address row
    open,       \* the parcels with an open exception a location could resolve
    memory,     \* the provider's inMemoryCache
    since,      \* time since lastRequestAt, as far as Gap
    sinceOwn,       \* per job: time since its own last request (history)
    job,
    bulk,       \* what "Retry Geocode All" has still to start
    lookups     \* the calls the world has left

locateVars == <<location, learning, situation, row, open, memory, since, sinceOwn, job, bulk, lookups>>
geoVars == <<memory, since, sinceOwn>>

NoAnswer == [status |-> "NONE", at |-> 0, source |-> "none", precision |-> "NONE"]
FAILED_RESULT == [status |-> "FAILED", at |-> 0, source |-> "provider", precision |-> "NONE"]
manualGeocode(at) == [status |-> "SUCCESS", at |-> at, source |-> "manual", precision |-> "HOUSE"]

Nowhere == -1
Absent == [status |-> "ABSENT", at |-> Nowhere, source |-> "none", precision |-> "NONE"]
Free == [step |-> "free", parcel |-> "none", via |-> "none", tier |-> 1, attempt |-> 1, wait |-> 0, answer |-> NoAnswer]


\* What a match of Nominatim is, by the fields the code looks at.
nominatimPrecision(m, tier) ==
    IF tier = "pincode" THEN "PINCODE"
    ELSE IF tier = "area" THEN "AREA"
    ELSE IF m.postcode THEN "PINCODE"
    ELSE IF m.numbered \/ (m.kind \in {"house", "yes"} /\ m.class = "building") \/ m.kind = "house" THEN "HOUSE"
    ELSE IF m.class = "highway" \/ m.kind = "street" THEN "STREET"
    ELSE "AREA"

googlePrecision(m, tier) ==
    IF tier = "pincode" THEN "PINCODE"
    ELSE IF tier = "area" THEN "AREA"
    ELSE IF m.postcode THEN "PINCODE"
    ELSE IF m.location = "ROOFTOP" /\ m.point THEN "HOUSE"
    ELSE IF m.location \in {"ROOFTOP", "RANGE_INTERPOLATED"} THEN IF m.route \/ m.point THEN "STREET" ELSE "AREA"
    ELSE IF m.route THEN "STREET"
    ELSE "AREA"

precisionOf(m, tier) ==
    IF situation.provider = "google" THEN googlePrecision(m, tier) ELSE nominatimPrecision(m, tier)

\* For a row from before precisions were stored, which has NONE.
precisionFromSource(source) ==
    CASE source = "manual" -> "HOUSE"
      [] source = "pincode" -> "PINCODE"
      [] source = "area" -> "AREA"
      [] OTHER -> "STREET"

\* From the whole address to its pincode, each query once: without an area the
\* last two ask the same, and the first of them is kept, so that the pincode's
\* centre is stored as that of an area.
Tiers(p) == IF HasArea[p] THEN <<"full", "area", "pincode">> ELSE <<"full", "area">>
maxAttempts == IF situation.provider = "google" THEN 1 ELSE 3
PointOf(p, tier) ==
    CASE tier = "full" -> Where[p]
      [] tier = "area" -> IF HasArea[p] THEN AreaCentre ELSE PincodeCentre
      [] tier = "pincode" -> PincodeCentre

\* A failed result keeps whatever coordinates the address had.
addressGeocodeData(p, answer, manual) ==
    [status |-> IF manual THEN "MANUAL" ELSE answer.status,
     at |-> IF answer.status = "SUCCESS" THEN answer.at ELSE row[p].at,
     source |-> answer.source,
     precision |-> answer.precision]

\* Whether an exception is worth another geocode of its address.
needsGeocodeRetry(p) == ~(row[p].status = "SUCCESS" /\ row[p].precision = "HOUSE")

LocateInit ==
    /\ LearnInit
    /\ situation \in Situations
    /\ row = situation.rows
    /\ open = {p \in Parcels : row[p].status # "ABSENT"}
    /\ memory = [c \in {CacheKey[p] : p \in Parcels} |-> NoAnswer]
    /\ since = Gap
    /\ sinceOwn = [j \in Jobs |-> Gap]
    /\ job = [j \in Jobs |-> Free]
    /\ bulk = {}
    /\ lookups = situation.lookups

Goes(j, step) == job' = [job EXCEPT ![j].step = step]
Answers(j, answer) == job' = [job EXCEPT ![j].step = "write", ![j].answer = answer]

(***************************************************************************)
(* The callers.                                                            *)
(***************************************************************************)

Starts(j, p, via, step, answer) ==
    /\ j \in situation.jobs /\ p \in situation.parcels
    /\ job[j] = Free
    /\ job' = [job EXCEPT ![j] = [Free EXCEPT !.step = step, !.parcel = p, !.via = via, !.answer = answer]]
    /\ UNCHANGED <<learnVars, situation, row, open, geoVars>>

\* A delivery is entered or imported: it is geocoded before it is saved.
Create(j, p) ==
    /\ lookups > 0
    /\ row[p].status = "ABSENT"
    /\ \A k \in Jobs : job[k].parcel # p
    /\ Starts(j, p, "create", "learned", NoAnswer)
    /\ lookups' = lookups - 1
    /\ UNCHANGED bulk

\* The retry of one address: from the exceptions, or from an import row.
RetryGeocode(j, p, via) ==
    /\ lookups > 0
    /\ row[p].status # "ABSENT"
    /\ Starts(j, p, via, "learned", NoAnswer)
    /\ lookups' = lookups - 1
    /\ UNCHANGED bulk

\* An administrator's pin, for a new delivery or a saved one.
Pin(j, p) ==
    /\ lookups > 0
    /\ row[p].status = "ABSENT" => \A k \in Jobs : job[k].parcel # p
    /\ Starts(j, p, IF row[p].status = "ABSENT" THEN "create" ELSE "retry", "write", manualGeocode(Where[p]))
    /\ lookups' = lookups - 1
    /\ UNCHANGED bulk

\* retryGeocodeAllExceptions picks its exceptions; runPool hands them out.
RetryAll ==
    /\ lookups > 0 /\ bulk = {}
    /\ bulk' = {p \in open : needsGeocodeRetry(p)}
    /\ lookups' = lookups - 1
    /\ UNCHANGED <<learnVars, situation, row, open, geoVars, job>>

Pump(j, p) ==
    /\ p \in bulk
    /\ bulk' = bulk \ {p}
    /\ Starts(j, p, "bulk", "learned", NoAnswer)
    /\ UNCHANGED lookups

(***************************************************************************)
(* geocodeAddress.                                                         *)
(***************************************************************************)

SlipPauseOnce(j, tier, attempt) ==
    /\ job' = [job EXCEPT ![j].tier = tier, ![j].attempt = attempt, ![j].step = "asked"]
    /\ since' = 0
    /\ sinceOwn' = [sinceOwn EXCEPT ![j] = 0]

\* The request leaves at once when the last one is long enough ago; else it
\* sleeps for the rest of the pause, and does not look again after it.
Throttled(j, tier, attempt) ==
    LET asking == [job[j] EXCEPT !.tier = tier, !.attempt = attempt]
    IN  IF since >= Gap
        THEN /\ job' = [job EXCEPT ![j] = [asking EXCEPT !.step = "asked"]]
             /\ since' = 0
             /\ sinceOwn' = [sinceOwn EXCEPT ![j] = 0]
        ELSE /\ job' = [job EXCEPT ![j] = [asking EXCEPT !.step = "pausing", !.wait = Gap - since]]
             /\ UNCHANGED <<since, sinceOwn>>

PauseOver(j) ==
    /\ job[j].step = "pausing" /\ job[j].wait = 0
    /\ Goes(j, "asked")
    /\ since' = 0
    /\ sinceOwn' = [sinceOwn EXCEPT ![j] = 0]
    /\ UNCHANGED <<learnVars, situation, row, open, memory, bulk, lookups>>

Learned(p) ==
    LET k == LearnKey[p]
    IN  IF k = NoKey \/ Accepted(k) = {} THEN NoAnswer
        ELSE [status |-> "SUCCESS", at |-> location[k].at, source |-> "learned", precision |-> learnedQuality(Accepted(k))]

\* The provider's own start: its memory is asked in the same step.
AskMemory(j) ==
    LET cached == memory[CacheKey[job[j].parcel]]
    IN  CASE situation.provider = "none" -> Answers(j, FAILED_RESULT)
          [] situation.provider # "none" /\ cached # NoAnswer -> Answers(j, cached)
          [] OTHER -> Goes(j, "database")

\* A location learned from earlier deliveries comes first; a read of it that
\* fails counts as none.
AskLearned(j) ==
    /\ job[j].step = "learned"
    /\ \/ /\ Learned(job[j].parcel) # NoAnswer
          /\ Answers(j, Learned(job[j].parcel))
       \/ AskMemory(j)
    /\ UNCHANGED <<learnVars, situation, row, open, geoVars, bulk, lookups>>


\* Any address with the same first line, city and pincode that was located.
CachedRows(p) == {q \in Parcels : row[q].status = "SUCCESS" /\ FirstLine[q] = FirstLine[p]}

CachedAnswer(q) ==
    [status |-> "SUCCESS", at |-> row[q].at, source |-> row[q].source,
     precision |-> IF row[q].precision = "NONE" THEN precisionFromSource(row[q].source) ELSE row[q].precision]

AskDatabase(j) ==
    LET p == job[j].parcel
    IN  /\ job[j].step = "database"
        /\ \/ /\ CachedRows(p) = {}
              /\ Throttled(j, 1, 1)
              /\ UNCHANGED memory
           \/ \E q \in CachedRows(p) :
              /\ Answers(j, CachedAnswer(q))
              /\ memory' = [memory EXCEPT ![CacheKey[p]] = CachedAnswer(q)]
              /\ UNCHANGED <<since, sinceOwn>>
        /\ UNCHANGED <<learnVars, situation, row, open, bulk, lookups>>

\* The provider found something for this tier.
Found(j, match) ==
    LET p == job[j].parcel
        tier == Tiers(p)[job[j].tier]
        answer == [status |-> "SUCCESS", at |-> PointOf(p, tier), source |-> tier, precision |-> precisionOf(match, tier)]
    IN  /\ job[j].step = "asked"
        /\ Answers(j, answer)
        /\ memory' = [memory EXCEPT ![CacheKey[p]] = answer]
        /\ UNCHANGED <<learnVars, situation, row, open, since, sinceOwn, bulk, lookups>>

\* Nothing found, an error, or one refusal too many: the next tier.
NotFound(j) ==
    /\ job[j].step = "asked"
    /\ IF job[j].tier < Len(Tiers(job[j].parcel))
       THEN Throttled(j, job[j].tier + 1, 1)
       ELSE /\ Answers(j, FAILED_RESULT)
            /\ UNCHANGED <<since, sinceOwn>>
    /\ UNCHANGED <<learnVars, situation, row, open, memory, bulk, lookups>>

\* Nominatim's 429: the same query again, after a longer and longer wait.
Limited(j) ==
    /\ job[j].step = "asked" /\ "limited" \in situation.refusals
    /\ job[j].attempt < maxAttempts
    /\ job' = [job EXCEPT ![j].step = "backoff", ![j].wait = Backoff * job[j].attempt]
    /\ UNCHANGED <<learnVars, situation, row, open, geoVars, bulk, lookups>>

SlipSameAttempt(j) ==
    /\ job[j].step = "backoff" /\ job[j].wait = 0
    /\ Throttled(j, job[j].tier, job[j].attempt)
    /\ UNCHANGED <<learnVars, situation, row, open, memory, bulk, lookups>>

BackoffOver(j) ==
    /\ job[j].step = "backoff" /\ job[j].wait = 0
    /\ Throttled(j, job[j].tier, job[j].attempt + 1)
    /\ UNCHANGED <<learnVars, situation, row, open, memory, bulk, lookups>>

\* Nominatim refuses this client altogether.
Denied(j) ==
    /\ job[j].step = "asked" /\ "denied" \in situation.refusals
    /\ Answers(j, FAILED_RESULT)
    /\ UNCHANGED <<learnVars, situation, row, open, geoVars, bulk, lookups>>

(***************************************************************************)
(* What the callers do with the answer.                                    *)
(***************************************************************************)

\* The retry of an import row writes nothing when it fails.
Writes(j) == job[j].via # "row" \/ job[j].answer.status = "SUCCESS"

WriteRow(j) ==
    LET p == job[j].parcel
        answer == job[j].answer
    IN  /\ job[j].step = "write"
        /\ row' = IF Writes(j) THEN [row EXCEPT ![p] = addressGeocodeData(p, answer, answer.source = "manual")] ELSE row
        /\ Goes(j, "match")
        /\ UNCHANGED <<learnVars, situation, open, geoVars, bulk, lookups>>

\* assignDeliveryToBeat settles the exception or refreshes it (Assignment).
Rematch(j) ==
    /\ job[j].step = "match"
    /\ open' \in {open \ {job[j].parcel}, open \cup {job[j].parcel}}
    /\ job' = [job EXCEPT ![j] = Free]
    /\ UNCHANGED <<learnVars, situation, row, geoVars, bulk, lookups>>

(***************************************************************************)
(* Deliveries teach, time passes, the server stops.                        *)
(***************************************************************************)

\* The door was reached and the delivery completed.
Deliver(p) ==
    /\ row[p].status # "ABSENT"
    /\ \E fix \in situation.fixes[p] : JudgeFix(p, fix, row[p])
    /\ situation.overlap \/ \A q \in Parcels : learning[q].step # "judged"
    /\ UNCHANGED <<situation, row, open, geoVars, job, bulk, lookups>>

Skip(p) == situation.fixes[p] # {} /\ SkipFix(p) /\ UNCHANGED <<situation, row, open, geoVars, job, bulk, lookups>>

Learn(p) ==
    /\ StoreSample(p) \/ CreatedMeanwhile(p)
    /\ UNCHANGED <<situation, row, open, geoVars, job, bulk, lookups>>

Passed(t) == IF t < Gap THEN t + 1 ELSE Gap

TimePasses ==
    /\ since < Gap \/ (\E j \in Jobs : job[j].wait > 0 \/ sinceOwn[j] < Gap)
    /\ since' = Passed(since)
    /\ sinceOwn' = [j \in Jobs |-> Passed(sinceOwn[j])]
    /\ job' = [j \in Jobs |-> IF job[j].wait > 0 THEN [job[j] EXCEPT !.wait = @ - 1] ELSE job[j]]
    /\ UNCHANGED <<learnVars, situation, row, open, memory, bulk, lookups>>

\* The rows and the samples stay; the memory and every call are gone.
Restart ==
    /\ situation.stops
    /\ ForgetLearning
    /\ memory' = [c \in DOMAIN memory |-> NoAnswer]
    /\ job' = [j \in Jobs |-> Free]
    /\ bulk' = {}
    /\ since' = Gap
    /\ sinceOwn' = [j \in Jobs |-> Gap]
    /\ UNCHANGED <<situation, row, open, lookups>>

Advance(j) ==
    \/ AskLearned(j) \/ AskDatabase(j) \/ PauseOver(j) \/ BackoffOver(j)
    \/ (\E m \in situation.matches : Found(j, m)) \/ NotFound(j) \/ Limited(j) \/ Denied(j)
    \/ WriteRow(j) \/ Rematch(j)

LocateNext ==
    \/ \E j \in Jobs, p \in Parcels :
          Create(j, p) \/ RetryGeocode(j, p, "retry") \/ RetryGeocode(j, p, "row") \/ Pin(j, p) \/ Pump(j, p)
    \/ \E j \in Jobs : Advance(j)
    \/ \E p \in Parcels : Deliver(p) \/ Skip(p) \/ Learn(p)
    \/ RetryAll
    \/ TimePasses
    \/ Restart

\* Timers fire; a request is answered or times out after eight seconds; the
\* database answers; the pool hands out its next exception.
LocateFairness ==
    /\ WF_locateVars(TimePasses)
    /\ \A j \in Jobs : WF_locateVars(Advance(j))

Locating == LocateInit /\ [][LocateNext]_locateVars /\ LocateFairness

(***************************************************************************)
(* Properties.                                                             *)
(***************************************************************************)

KnownAnswers == {row[p] : p \in Parcels} \cup {memory[c] : c \in DOMAIN memory} \cup {job[j].answer : j \in Jobs}

\* The centre of an area or of a pincode never passes for a house or a street,
\* whatever the provider calls its match and whichever cache, older row or
\* other address it came through (precision.ts:8-9).
CentreIsNotAHouse == \A a \in KnownAnswers : IsHonest(a)

\* The learned point is the median of the accepted fixes and says how many
\* they are; of deliveries that overlap, of some of them (locationLearning.ts:8-13).
LearnedIsTheMedian ==
    \A k \in Keys : location[k].sampleCount > 0 =>
        \E S \in SUBSET Accepted(k) :
            /\ Cardinality(S) = location[k].sampleCount
            /\ location[k].at = median(S)
            /\ ~situation.overlap => S = Accepted(k)

\* A location that is looked up as a house has two fixes of different
\* deliveries next to the very point that is handed out.
HouseIsAgreed ==
    \A p \in Parcels : ~situation.overlap /\ Learned(p).precision = "HOUSE" =>
        Cardinality({s \in Accepted(LearnKey[p]) : distance(s.at, location[LearnKey[p]].at) <= AGREE_M}) >= 2

\* A point handed out as a house's has a house behind it.
PlacesAreSound == CentreIsNotAHouse /\ LearnedIsTheMedian /\ HouseIsAgreed

\* A retry that runs by itself never turns a located address into a failed
\* one: at worst it gets its own row back from the cache. That takes a provider
\* with a cache: with none, an address that was learned fails when the read of
\* what was learned does.
RetryKeepsSuccess ==
    [][Cardinality(situation.jobs) = 1 /\ situation.provider # "none" =>
        \A p \in Parcels : row[p].status = "SUCCESS" => row'[p].status # "FAILED"]_locateVars

\* One call never sends two requests within the pause, however its tiers,
\* retries and waits interleave with others: with n calls at a time the
\* provider gets at most n requests per pause.
RateIsBoundedByPool ==
    [][\A j \in Jobs : job'[j].step = "asked" /\ job'[j] # job[j] => sinceOwn[j] >= Gap]_locateVars

\* Asking again harms neither what is known nor the provider.
RepeatsAreHarmless == RetryKeepsSuccess /\ RateIsBoundedByPool

\* Every call of geocodeAddress comes to its end: the tiers and the attempts
\* at each run out.
EveryLookupEnds ==
    \A j \in Jobs : job[j] # Free ~> job[j] = Free
=============================================================================
