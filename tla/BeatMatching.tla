---------------------------- MODULE BeatMatching ----------------------------
(* How well the words of an address fit the rows of the beat directory      *)
(* (services/addressing/beatMatcher.ts, normalize.ts). Words are compared   *)
(* after normalisation: a segment is a comma-separated part of an address,  *)
(* a phrase a locality, a main area or a beat's name, both sequences of     *)
(* words. Shares of points are in hundredths, weights and points too. The   *)
(* database returns the rows in any order, so they are a set.               *)
EXTENDS Integers, Sequences, SequencesExt, FiniteSets

CONSTANTS
    Spelling,       \* [pairs of words -> hundredths]: nearly the same spelling
    Numbers,        \* the words that are numbers
    GENERIC_ADDRESS_WORDS,
    OfficeArea,     \* "BHANDUP WEST": the post office's own area
    Idf             \* [rows -> [rows with the word -> its weight]]

ASSUME MatchingAssumption ==
    /\ \A pair \in DOMAIN Spelling : Spelling[pair] \in 0..100
    /\ OfficeArea \in Seq(Range(OfficeArea)) /\ OfficeArea # <<>>

LOCALITY == 60
MAIN_AREA == 30
LOCALITY_FIELD == 15
POST_OFFICE == 5
PINCODE == 5
FACTOR == [SEGMENT_EXACT |-> 100, SEGMENT_FUZZY |-> 92, PHRASE |-> 93, FUZZY_PHRASE |-> 85, TOKENS |-> 75, PARTIAL |-> 55]
UNKNOWN_WORD == 250         \* weight of a word that is in no locality
GENERIC_WORD == 10
INFORMATIVE == 220

tokenSimilarity(a, b) == IF a = b THEN 100 ELSE IF {a, b} \in DOMAIN Spelling THEN Spelling[{a, b}] ELSE 0
Similar(a, b) == tokenSimilarity(a, b) > 0

\* The office's area at the end names no locality, unless nothing else does.
localityTokens(words) ==
    LET EndsIn(tail) == Len(words) > Len(tail) /\ IsSuffix(tail, words)
    IN  IF EndsIn(OfficeArea) THEN SubSeq(words, 1, Len(words) - Len(OfficeArea))
        ELSE IF EndsIn(<<OfficeArea[1]>>) THEN Front(words) ELSE words

\* House numbers at both ends and the city's name go, then the office's area.
withoutOfficeTail(segment) ==
    LET Starts(i) == segment[i] \notin Numbers
        Ends(k) == segment[k] \notin Numbers \cup GENERIC_ADDRESS_WORDS
        n == Len(segment)
        from == CHOOSE i \in 1..n : (i = n \/ Starts(i)) /\ \A j \in 1..(i - 1) : ~Starts(j)
        to == CHOOSE k \in from..n : (k = from \/ Ends(k)) /\ \A j \in (k + 1)..n : ~Ends(j)
    IN  localityTokens(SubSeq(segment, from, to))

AlikeAt(tokens, phrase, start) == \A i \in DOMAIN phrase : Similar(phrase[i], tokens[start + i - 1])
PhraseStarts(tokens, phrase) == {s \in 1..(Len(tokens) - Len(phrase) + 1) : AlikeAt(tokens, phrase, s)}

\* Words that many rows share weigh less.
Weight(index, t) ==
    LET with == {e \in index : t \in Range(e.locality)}
    IN  IF t \in GENERIC_ADDRESS_WORDS THEN GENERIC_WORD
        ELSE IF with = {} THEN UNKNOWN_WORD ELSE Idf[Cardinality(index)][Cardinality(with)]

Total(numbers) ==
    LET upTo[i \in 0..Len(numbers)] == IF i = 0 THEN 0 ELSE upTo[i - 1] + numbers[i]
    IN  upTo[Len(numbers)]

\* Of the words of a phrase that occur, the best spelling of each by its weight.
BestSpelling(t, tokens) ==
    CHOOSE s \in {tokenSimilarity(t, a) : a \in Range(tokens)} \cup {0} :
        \A a \in Range(tokens) : tokenSimilarity(t, a) <= s
bagCoverage(phrase, tokens, index) ==
    LET weight == [i \in DOMAIN phrase |-> Weight(index, phrase[i])]
        got == [i \in DOMAIN phrase |-> weight[i] * BestSpelling(phrase[i], tokens)]
    IN  [coverage |-> IF Total(weight) = 0 THEN 0 ELSE Total(got) \div Total(weight),
         allPresent |-> \A t \in Range(phrase) : BestSpelling(t, tokens) > 0]

NoMatch == [kind |-> "NONE", share |-> 0]
Match(kind, coverage) == [kind |-> kind, share |-> (FACTOR[kind] * coverage) \div 100]

\* An address: its segments; its dedicated locality field; whether it names the
\* office's area, and whether its pincode is the office's.
normalizeAddress(segments, field, office, pincode) ==
    [segments |-> segments,
     tokens   |-> FlattenSeq(segments),
     readings |-> FlattenSeq([i \in DOMAIN segments |-> <<segments[i], withoutOfficeTail(segments[i])>>]),
     field    |-> localityTokens(field), office |-> office, pincode |-> pincode]

\* A whole part of the address is the phrase, or nearly: the first such part.
SegmentMatch(phrase, addr) ==
    LET Fits(i) == Len(addr.readings[i]) = Len(phrase) /\ AlikeAt(addr.readings[i], phrase, 1)
        fitting == {i \in DOMAIN addr.readings : Fits(i)}
        first == CHOOSE i \in fitting : \A k \in fitting : i <= k
    IN  IF fitting = {} THEN NoMatch
        ELSE Match(IF addr.readings[first] = phrase THEN "SEGMENT_EXACT" ELSE "SEGMENT_FUZZY", 100)

\* Its words in a row somewhere, or all in one part, or the telling ones.
TextMatch(phrase, addr, index, bag) ==
    LET tokens == addr.tokens
        starts == PhraseStarts(tokens, phrase)
        first == CHOOSE s \in starts : \A k \in starts : s <= k
        inOneSegment == \E i \in DOMAIN addr.segments : bagCoverage(phrase, addr.segments[i], index).allPresent
        informativeMissing == \E t \in Range(phrase) : Weight(index, t) >= INFORMATIVE /\ \A a \in Range(tokens) : ~Similar(t, a)
    IN  IF starts # {} THEN Match(IF SubSeq(tokens, first, first + Len(phrase) - 1) = phrase THEN "PHRASE" ELSE "FUZZY_PHRASE", 100)
        ELSE IF bag.allPresent /\ inOneSegment THEN Match("TOKENS", bag.coverage)
        ELSE IF bag.coverage >= 50 /\ ~informativeMissing THEN Match("PARTIAL", bag.coverage)
        ELSE NoMatch

matchField(phrase, addr, index) ==
    LET segment == SegmentMatch(phrase, addr)
    IN  IF phrase = <<>> THEN NoMatch
        ELSE IF segment # NoMatch THEN segment
        ELSE TextMatch(phrase, addr, index, bagCoverage(phrase, addr.tokens, index))

containsPhrase(long, short) ==
    Len(long) > Len(short) /\ \E s \in 0..(Len(long) - Len(short)) : SubSeq(long, s + 1, s + Len(short)) = short

\* A row [beat, locality, area, name] counts as it is and, when the beat has a
\* name of its own, once more under that name.
buildIndex(directory) ==
    LET rows == {[beat |-> e.beat, locality |-> localityTokens(e.locality), area |-> e.area, byName |-> FALSE] : e \in directory}
        names == {[beat |-> e.beat, locality |-> localityTokens(e.name), area |-> <<>>, byName |-> TRUE] :
                    e \in {d \in directory : d.name # <<>>}}
    IN  {e \in rows \cup names : e.locality # <<>>}

\* The dedicated locality field of the delivery, when its source has one.
FieldPoints(locality, field) ==
    IF field = <<>> \/ Len(field) # Len(locality) THEN 0
    ELSE IF field = locality THEN 100 * LOCALITY_FIELD
    ELSE IF AlikeAt(field, locality, 1) THEN 80 * LOCALITY_FIELD ELSE 0

\* match: how the row's main area fits the address.
AreaPoints(e, match) == IF e.area = <<>> \/ e.area = e.locality THEN 0 ELSE MAIN_AREA * match.share

\* The pincode is the office's; a row has none of its own here.
FurtherPoints(e, addr, index) ==
    FieldPoints(e.locality, addr.field) + AreaPoints(e, matchField(e.area, addr, index))
    + (IF addr.office THEN 100 * POST_OFFICE ELSE 0)
    + (IF addr.pincode THEN 100 * PINCODE ELSE 0)

Rounded(points) == IF points > 10000 THEN 100 ELSE (points + 50) \div 100

ScoreOf(e, match, addr, index) ==
    LET locality == LOCALITY * match.share
    IN  IF match.kind = "NONE" \/ locality < 1500 THEN {}
        ELSE {[row |-> e, kind |-> match.kind,
               score |-> Rounded(locality + FurtherPoints(e, addr, index))]}
Scored(addr, index) == UNION {ScoreOf(e, matchField(e.locality, addr, index), addr, index) : e \in index}

\* The best row of each beat.
BestPerBeat(scored) ==
    LET strong == {s \in scored : s.kind \in {"SEGMENT_EXACT", "PHRASE"}}
        \* Part of a longer locality that matched is no match of its own.
        Kept(s) == \/ s.kind \notin {"PHRASE", "FUZZY_PHRASE", "SEGMENT_FUZZY"}
                   \/ \A o \in strong : ~containsPhrase(o.row.locality, s.row.locality)
        kept == {s \in scored : Kept(s)}
        BestOf(b) == CHOOSE n \in {s.score : s \in {k \in kept : k.row.beat = b}} :
                         \A s \in kept : s.row.beat = b => s.score <= n
    IN  {[beat |-> b, score |-> BestOf(b)] : b \in {s.row.beat : s \in kept}}

scoreEntries(addr, directory) ==
    IF addr.tokens = <<>> THEN {} ELSE BestPerBeat(Scored(addr, buildIndex(directory)))
=============================================================================
