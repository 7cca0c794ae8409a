------------------------------ MODULE BeatList ------------------------------
(***************************************************************************)
(* What an uploaded beat list adds (checkBeatList in beatListImport.ts):   *)
(* every row is checked on its own, against the rows before it and against *)
(* the beats there are, and either adds to a beat, adds nothing, or is     *)
(* refused.  A row is the record of its cells; a mapping is the set of     *)
(* fields that a column was chosen for, and an unmapped cell reads empty.  *)
(***************************************************************************)
EXTENDS Naturals, Sequences, FiniteSets

Empty == "Empty"
Fields == {"beatNumber", "postOffice", "name", "locality", "mainArea", "territory"}

(* cells.flaw: a cell fails the check of its own field (too long, no       *)
(* readable word, a territory that cannot be read or is not sound).        *)
Cell(row, field, mapping) == IF field \in mapping THEN row[field] ELSE Empty
structured(mapping) == mapping \cap {"locality", "mainArea"} # {}
fileProblems(rows, mapping) == "beatNumber" \notin mapping \/ rows = <<>>

(* A repeated number, or one that exists, is a duplicate only in a list    *)
(* with one row per beat.                                                  *)
SameNumber(rows, mapping, n) ==
    {r \in DOMAIN rows : Cell(rows[r], "beatNumber", mapping) = n
                           /\ Cell(rows[r], "postOffice", mapping) \in {Empty, "own"}}

Refused(rows, mapping, known, r) ==
    LET row == rows[r]
        n == Cell(row, "beatNumber", mapping)
        office == Cell(row, "postOffice", mapping)
    IN \/ n = Empty \/ row.flaw
       \/ office \notin {Empty, "own"}      \* not recognised, or not the administrator's
       \/ /\ ~structured(mapping)
          /\ Cardinality(SameNumber(rows, mapping, n)) > 1 \/ n \in DOMAIN known
       \/ /\ structured(mapping)
          /\ Cell(row, "locality", mapping) = Empty
          /\ Cell(row, "mainArea", mapping) # Empty

(* The locality record of a row: empty when it names none.                 *)
RecordOf(row, mapping) ==
    IF Cell(row, "locality", mapping) = Empty THEN {}
    ELSE {<<Cell(row, "locality", mapping), Cell(row, "mainArea", mapping)>>}

(* known maps the beat numbers that exist to their locality records.  The  *)
(* beats gathered from the rows so far: number -> name, territory, records *)
SlipAnyBeat(known, beats, n, records, listed) ==
    \/ records # {} /\ \E m \in DOMAIN beats : records \subseteq beats[m].records
    \/ listed /\ records = {} /\ n \in DOMAIN beats
AddsNothing(known, beats, n, records, listed) ==
    \/ records # {} /\ n \in DOMAIN beats /\ records \subseteq beats[n].records
    \/ records # {} /\ n \in DOMAIN known /\ records \subseteq known[n]
    \/ listed /\ records = {} /\ (n \in DOMAIN known \/ n \in DOMAIN beats)

(* The first name and the first territory of a beat's rows are kept; a     *)
(* name made up from the number gives way to a given one.                  *)
Gather(beats, n, row, mapping) ==
    LET name == Cell(row, "name", mapping)
        shape == Cell(row, "territory", mapping)
        old == IF n \in DOMAIN beats THEN beats[n]
               ELSE [name |-> Empty, territory |-> Empty, records |-> {}]
        new == [name |-> IF old.name = Empty THEN name ELSE old.name,
                territory |-> IF old.territory = Empty THEN shape ELSE old.territory,
                records |-> old.records \cup RecordOf(row, mapping)]
    IN [m \in DOMAIN beats \cup {n} |-> IF m = n THEN new ELSE beats[m]]

(* Row r comes after the rows that have given these beats.                 *)
Skip(rows, mapping, known, beats, r) ==
    LET n == Cell(rows[r], "beatNumber", mapping)
    IN \/ Refused(rows, mapping, known, r)
       \/ AddsNothing(known, beats, n, RecordOf(rows[r], mapping), structured(mapping))
AfterRow(rows, mapping, known, beats, r) ==
    IF Skip(rows, mapping, known, beats, r) THEN beats
    ELSE Gather(beats, Cell(rows[r], "beatNumber", mapping), rows[r], mapping)

(* The beats to import: the rows taken one after the other.                *)
Importable(rows, mapping, known) ==
    LET upTo[r \in 0..Len(rows)] ==
            IF r = 0 THEN <<>> ELSE AfterRow(rows, mapping, known, upTo[r - 1], r)
    IN IF fileProblems(rows, mapping) THEN <<>> ELSE upTo[Len(rows)]
=============================================================================
