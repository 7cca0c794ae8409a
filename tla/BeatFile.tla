------------------------------ MODULE BeatFile ------------------------------
(* Reading an uploaded beat list: from a grid of cells to the rows that      *)
(* module BeatList checks (the first half of beatListImport.ts, and          *)
(* parseTerritoryCell and analyseTerritory in territory.ts).                 *)
(* A grid is a sequence of lines, a line a sequence of cells, a cell a text  *)
(* or Empty; a column is its position. Whether a text is a known header, the *)
(* words of an office and the measures of a territory are given.             *)
EXTENDS BeatList, TLC

CONSTANTS
    HeaderField,    \* [known headers -> the field they name]
    NumberLike,     \* headers that speak of a beat and of a number
    Offices,        \* [id, name, code]; names and codes are words
    OwnOffice,      \* the id of the administrator's office
    OfficeWords,    \* [cells -> words]
    Survey          \* [territory cells -> [format, closed, simple, area, distance]]

NoColumn == 0
At(line, i) == IF i \in DOMAIN line THEN line[i] ELSE Empty
Filled(line) == {i \in DOMAIN line : line[i] # Empty}

(* The line among the first ten that looks most like a header.             *)
HeaderScore(line) ==
    300 * Cardinality({i \in Filled(line) : line[i] \in DOMAIN HeaderField}) + Cardinality(Filled(line))
findHeaderRow(grid) ==
    LET likely == {i \in DOMAIN grid : i <= 10 /\ Cardinality(Filled(grid[i])) >= 2}
        Better(i, k) == \/ HeaderScore(grid[i]) > HeaderScore(grid[k])
                        \/ HeaderScore(grid[i]) = HeaderScore(grid[k]) /\ i <= k
    IN  IF likely = {} THEN 1 ELSE CHOOSE i \in likely : \A k \in likely : Better(i, k)

(* A column without a header counts when something is below it, and a line *)
(* when something is in one of the columns.                                *)
tableFromGrid(grid) ==
    LET header == grid[findHeaderRow(grid)]
        below == {i \in DOMAIN grid : i > findHeaderRow(grid)}
        columns == {c \in DOMAIN header : header[c] # Empty \/ \E i \in below : At(grid[i], c) # Empty}
        isRow(i) == \E c \in columns : At(grid[i], c) # Empty
    IN  IF grid = <<>> THEN [columns |-> {}, header |-> <<>>, rows |-> <<>>]
        ELSE [columns |-> columns, header |-> header,
              rows |-> [k \in 1..Cardinality({i \in below : isRow(i)}) |->
                          LET i == CHOOSE j \in below : isRow(j) /\ Cardinality({n \in below : isRow(n) /\ n <= j}) = k
                          IN  [rowNumber |-> i, cells |-> [c \in columns |-> At(grid[i], c)]]]]

(* A repeated header is renamed, and no longer known by its name.          *)
TermOf(table, c) ==
    IF table.header[c] \notin DOMAIN HeaderField \/ \E b \in table.columns : b < c /\ table.header[b] = table.header[c]
    THEN Empty ELSE HeaderField[table.header[c]]
First(columns) == IF columns = {} THEN NoColumn ELSE CHOOSE c \in columns : \A b \in columns : c <= b
suggestBeatMapping(table) ==
    LET exact == [f \in Fields |-> First({c \in table.columns : TermOf(table, c) = f})]
        free == table.columns \ {exact[f] : f \in Fields}
        guess == First({c \in free : table.header[c] \in NumberLike})
    IN  IF exact["beatNumber"] # NoColumn THEN exact ELSE [exact EXCEPT !["beatNumber"] = guess]

-----------------------------------------------------------------------------
RoleSuffixes == {<<"SO">>, <<"HO">>, <<"BO">>, <<"PO">>, <<"POST", "OFFICE">>}
EndsWith(words, tail) ==
    Len(words) >= Len(tail) /\ SubSeq(words, Len(words) - Len(tail) + 1, Len(words)) = tail
stripOfficeSuffix(words) ==
    LET roles == {s \in RoleSuffixes : EndsWith(words, s)}
    IN  IF roles = {} THEN words ELSE SubSeq(words, 1, Len(words) - Len(CHOOSE s \in roles : TRUE))
Within(short, long) == \E i \in 0..(Len(long) - Len(short)) : SubSeq(long, i + 1, i + Len(short)) = short
Alike(a, b) == Within(a, b) \/ Within(b, a)

UnknownOffice == "unknown"
findOffice(text) ==
    LET n == OfficeWords[text]
        core == stripOfficeSuffix(n)
        IdOf(offices) == (CHOOSE o \in offices : TRUE).id
        exact == {o \in Offices : n \in {o.name, o.code}}
        partial == {o \in Offices : Alike(o.name, n)}
        coreExact == {o \in Offices : core # <<>> /\ stripOfficeSuffix(o.name) = core}
        corePartial == {o \in Offices : stripOfficeSuffix(o.name) # <<>> /\ Alike(stripOfficeSuffix(o.name), core)}
    IN  IF exact # {} THEN IdOf(exact)
        ELSE IF Cardinality(partial) = 1 THEN IdOf(partial)
        ELSE IF coreExact # {} THEN IdOf(coreExact)
        ELSE IF Cardinality(corePartial) = 1 THEN IdOf(corePartial) ELSE UnknownOffice

minAreaM2 == 1000
maxAreaM2 == 25000000
maxDistanceFromOfficeM == 30000
parseTerritoryCell(cell) ==     \* can it be read?
    Survey[cell].format \in {"GEOJSON", "FEATURE", "WKT"} /\ Survey[cell].closed
analyseTerritory(cell) ==       \* is it sound?
    /\ Survey[cell].simple
    /\ Survey[cell].area \in minAreaM2..maxAreaM2
    /\ Survey[cell].distance <= maxDistanceFromOfficeM
FitTerritory(cell) == cell = Empty \/ (parseTerritoryCell(cell) /\ analyseTerritory(cell))

(* A row as BeatList reads it, under a mapping from fields to columns.     *)
Mapped(m) == {f \in Fields : m[f] # NoColumn}
RowUnder(row, m) ==
    LET cell == [f \in Fields |-> IF m[f] = NoColumn THEN Empty ELSE row.cells[m[f]]]
        office == IF cell["postOffice"] = Empty THEN Empty
                  ELSE IF findOffice(cell["postOffice"]) = OwnOffice THEN "own" ELSE UnknownOffice
    IN  [cell EXCEPT !["postOffice"] = office] @@ [flaw |-> ~FitTerritory(cell["territory"])]
RowsUnder(table, m) == [r \in DOMAIN table.rows |-> RowUnder(table.rows[r], m)]
checkBeatList(table, m, known) == Importable(RowsUnder(table, m), Mapped(m), known)
=============================================================================
