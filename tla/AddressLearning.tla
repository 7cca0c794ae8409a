--------------------------- MODULE AddressLearning ---------------------------
(* What completed deliveries teach about where an address is                *)
(* (services/addressLearning.service.ts, addressing/locationLearning.ts).   *)
(* A point is a number of metres along one line: latitude and longitude get *)
(* the same treatment, each its own median. Fixes are even, so that the     *)
(* mean of two of them is a whole number. Confidences are left out.         *)
EXTENDS Integers, FiniteSets

CONSTANTS
    Parcels,    \* deliveries; each has an address row of its own
    Keys,       \* normalized addresses that name one place
    LearnKey,   \* the key of a parcel's address, NoKey when it is too vague
    NoKey

ASSUME LearnKeyAssumption == LearnKey \in [Parcels -> Keys \cup {NoKey}]

VARIABLES
    location,   \* per key: the AddressLocation row with its samples
    learning    \* per parcel: its completion, as far as learnFromDelivery got

learnVars == <<location, learning>>

MAX_ACCURACY_M == 50
MAX_FROM_GEOCODE_M == 1000
OUTLIER_M == 150
AGREE_M == 60
HOUSE_LEVEL_SAMPLES == 2

Unstated == -1
Precise == {"HOUSE", "STREET"}

Nobody == [known |-> FALSE, at |-> 0, sampleCount |-> 0, samples |-> {}]
NotStarted == [step |-> "waiting", at |-> 0, known |-> FALSE, basis |-> {}, accept |-> FALSE]

distance(a, b) == IF a < b THEN b - a ELSE a - b

\* The n-th smallest point of a set of samples.
Nth(samples, n) ==
    CHOOSE v \in {s.at : s \in samples} :
        /\ Cardinality({s \in samples : s.at < v}) < n
        /\ n <= Cardinality({s \in samples : s.at <= v})

median(samples) ==
    LET n == Cardinality(samples)
    IN  IF n % 2 = 1 THEN Nth(samples, n \div 2 + 1)
        ELSE (Nth(samples, n \div 2) + Nth(samples, n \div 2 + 1)) \div 2

\* A fix counts when it says how good it is, is near a usable geocode of the
\* address (row) and near the samples accepted so far.
judgeSample(fix, row, accepted) ==
    /\ fix.accuracy # Unstated
    /\ fix.accuracy <= MAX_ACCURACY_M
    /\ row.precision \in Precise => distance(fix.at, row.at) <= MAX_FROM_GEOCODE_M
    /\ accepted # {} => distance(fix.at, median(accepted)) <= OUTLIER_M


\* The precision a learned location is looked up with.
learnedQuality(accepted) ==
    IF accepted = {} THEN "NONE"
    ELSE IF Cardinality({s \in accepted : distance(s.at, median(accepted)) <= AGREE_M}) >= HOUSE_LEVEL_SAMPLES
         THEN "HOUSE"
         ELSE "STREET"

Accepted(k) == {s \in location[k].samples : s.accepted}

LearnInit ==
    /\ location = [k \in Keys |-> Nobody]
    /\ learning = [p \in Parcels |-> NotStarted]

\* learnFromDelivery up to its transaction: the delivery with its address row,
\* then the location with its accepted samples are read, and the fix is judged.
JudgeFix(p, fix, row) ==
    /\ learning[p].step = "waiting"
    /\ LearnKey[p] # NoKey
    /\ LET k == LearnKey[p]
       IN  learning' = [learning EXCEPT ![p] =
               [step |-> "judged", at |-> fix.at, known |-> location[k].known,
                basis |-> Accepted(k), accept |-> judgeSample(fix, row, Accepted(k))]]
    /\ UNCHANGED location

\* An address that is too vague, or a completion without a fix.
SkipFix(p) ==
    /\ learning[p].step = "waiting"
    /\ learning' = [learning EXCEPT ![p].step = "done"]
    /\ UNCHANGED location

SlipBeforeThisOne(p) ==
    IF learning[p].basis # {} THEN learning[p].basis
    ELSE {[parcel |-> p, at |-> learning[p].at, accepted |-> TRUE]}

\* The samples the new point is computed from: the ones read, and this one.
Basis(p) == learning[p].basis \cup {[parcel |-> p, at |-> learning[p].at, accepted |-> TRUE]}

\* The transaction. A rejected fix is kept with its verdict; an accepted one
\* replaces the point by the median.
StoreSample(p) ==
    LET k == LearnKey[p]
        old == location[k]
        sample == [parcel |-> p, at |-> learning[p].at, accepted |-> learning[p].accept]
    IN  /\ learning[p].step = "judged"
        /\ learning[p].known \/ ~old.known
        /\ location' = [location EXCEPT ![k] =
               [known |-> TRUE,
                at |-> IF sample.accepted THEN median(Basis(p))
                       ELSE IF old.known THEN old.at ELSE sample.at,
                sampleCount |-> IF sample.accepted THEN Cardinality(Basis(p)) ELSE old.sampleCount,
                samples |-> old.samples \cup {sample}]]
        /\ learning' = [learning EXCEPT ![p].step = "done"]

\* The transaction creates a location that another one has created since: the
\* unique key refuses it, the route logs the error and the sample is lost.
CreatedMeanwhile(p) ==
    /\ learning[p].step = "judged"
    /\ ~learning[p].known /\ location[LearnKey[p]].known
    /\ learning' = [learning EXCEPT ![p].step = "done"]
    /\ UNCHANGED location

\* A stop of the server between the reads and the transaction.
ForgetLearning ==
    /\ learning' = [p \in Parcels |->
           IF learning[p].step = "judged" THEN [learning[p] EXCEPT !.step = "done"] ELSE learning[p]]
    /\ UNCHANGED location
=============================================================================
