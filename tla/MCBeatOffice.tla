---------------------------- MODULE MCBeatOffice ----------------------------
(* Two beats and two territories that overlap; an address in both, whose    *)
(* locality x is written out and whose y has a slip of the pen.             *)
EXTENDS BeatOffice, TLC

CONSTANTS b1, b2, x, y, z, s1, s2, d1, p1, p2

TwoShapes == [s \in Shapes |-> [t \in Shapes |-> 1000]]
Vocabulary == x :> <<"FARID", "NAGAR">> @@ y :> <<"TEMBHIPADA", "ROAD">> @@ z :> <<"SAI", "CHAWL">> @@ Empty :> <<>>
Misspelt == {"TEMBHIPADA", "TEMBIPADA"} :> 90
BhandupWest == <<"BHANDUP", "WEST">>
\* Hundredths of ln((n + 1) / (df + 0.5)) for n rows, df of them with the word.
LogTable == << <<29>>, <<69, 18>>,
               <<98, 47, 13>>, <<120, 69, 36, 11>>,
               <<139, 88, 54, 29, 9>>,
               <<154, 103, 69, 44, 24, 7>>,
               <<167, 116, 83, 58, 37, 21, 6>>,
               <<179, 128, 94, 69, 49, 33, 18, 6>>,
               <<190, 139, 105, 80, 60, 43, 29, 16, 5>>,
               <<199, 148, 115, 89, 69, 53, 38, 26, 15, 5>>,
               <<208, 157, 123, 98, 78, 61, 47, 34, 23, 13, 4>>,
               <<216, 165, 131, 106, 86, 69, 55, 42, 31, 21, 12, 4>> >>
Written(segments, field) == [segments |-> segments, field |-> field, office |-> TRUE, pincode |-> FALSE]
Received(letter) == normalizeAddress(letter.segments, letter.field, letter.office, letter.pincode)
InWest == <<"TEMBIPADA", "ROAD", "BHANDUP", "WEST", "MUMBAI">>
FirstLetter == Written(<< <<"21", "FARID", "NAGAR">>, InWest >>, <<"FARID", "NAGAR">>)
Nameless == Written(<< <<"21", "MUMBAI">> >>, <<>>)
Addresses == [d \in Deliveries |-> Received(IF d = d1 THEN FirstLetter ELSE Nameless)]
AllLetters == {FirstLetter, Written(<< <<"FARID", "NAGAR">>, <<"SAI", "CHAWL">> >>, <<>>),
               Written(<< <<"ROAD", "TEMBHIPADA">>, <<"CHAWL", "NO", "21">> >>, <<>>), Written(<< <<"SAI", "CHAWL">>, InWest >>, <<>>)}
SameSlots == Permutations(Slots)
Houses == [d \in Deliveries |-> [precision |-> "HOUSE", within |-> {s1, s2}]]
NoNeighbours == [d \in Deliveries |-> <<>>]
Postman == b1 :> p1 @@ b2 :> p2

Line(n, l, a, t) ==
    [beatNumber |-> n, postOffice |-> Empty, name |-> Empty, locality |-> l,
     mainArea |-> a, territory |-> t, flaw |-> FALSE]
TheList == <<Line(b1, x, Empty, s1), Line(b1, y, Empty, Empty), Line(b2, y, z, s2)>>
AllFields == Fields
OnePerBeat == Fields \ {"locality", "mainArea"}
TwoMappings == {AllFields, OnePerBeat}

(* An office at work, and how many requests it gets.                        *)
Bounds ==
    {"create", "draw", "verify", "status", "deliver"} :> 4
    @@ {"create", "deliver", "overlap"} :> 2
    @@ {"rename", "status", "list", "verify", "deliver", "overlap"} :> 3
    @@ {"create", "rename", "list", "verify", "deliver", "stop"} :> 4
    @@ {"create", "status", "deliver", "notices"} :> 4
    @@ {"create", "deliver", "notices", "stop"} :> 4
OfficeWorlds == DOMAIN Bounds
=============================================================================
