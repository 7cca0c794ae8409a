--------------------------- MODULE BeatListWizard ---------------------------
(***************************************************************************)
(* A beat list from the file to the beats: the administrator's wizard      *)
(* (UploadBeatListWizard.tsx) and the requests it sends                    *)
(* (beatImport.routes.ts).  The server holds the list and checks it again  *)
(* for every answer; a request loads the record, and what it does with the *)
(* copy may be out of date.  An answer can get lost at any time; the       *)
(* server does not notice.  Other administrators create beats meanwhile.   *)
(***************************************************************************)
EXTENDS BeatFile

CONSTANTS
    Files,          \* [names -> the grid of the file, <<>> if it cannot be read]
    Columns,        \* choices of the select boxes: pairs of a field and a column
    Beats0,         \* the beats there are: [numbers -> locality records]
    NewBeats,       \* numbers of beats that others may create
    MaxRows,
    ListBounds,         \* lists and changes of columns: one pair per behaviour
    MaxCalls        \* bound: requests under way at once

(* A file is a grid, or nothing that can be read.                          *)
Readable ==
    /\ \A f \in DOMAIN Files : Len(Files[f]) \in Nat /\ DOMAIN Files[f] = 1..Len(Files[f])
    /\ \A b \in ListBounds : DOMAIN b = {"lists", "changes"} /\ b.lists \in Nat
ASSUME WizardAssumption == Readable

VARIABLES
    wizard,     \* the component's state
    calls,      \* requests under way
    lists,      \* the BeatImport rows, by the number of their upload
    beats,      \* the office's beats: [numbers -> locality records]
    left,       \* bound: how many lists, and how many more changes of columns
    astray      \* history: lists of which the wizard may show an old preview,
                \* as an answer was lost, or two were awaited at once

panelVars == <<wizard, calls, lists, beats, left, astray>>

Table == [f \in DOMAIN Files |-> tableFromGrid(Files[f])]
Suggestion == [f \in DOMAIN Files |-> suggestBeatMapping(Table[f])]

NoPreview == [list |-> 0]
Closed == [open |-> FALSE, step |-> 0, preview |-> NoPreview, busy |-> FALSE, done |-> FALSE]
Opened == [Closed EXCEPT !.open = TRUE]

PanelInit ==
    /\ wizard = Opened /\ calls = {} /\ lists = <<>>
    /\ beats = Beats0 /\ left \in ListBounds /\ astray = {}

-----------------------------------------------------------------------------
(* The answers.                                                            *)

buildPreview(i, record) ==
    [list |-> i, mapping |-> record.mapping, known |-> beats,
     adds |-> checkBeatList(Table[record.file], record.mapping, beats)]
canContinue == wizard.preview # NoPreview /\ wizard.preview.adds # <<>>

(* "answered" with the preview, or NoPreview for a refusal.                *)
Answered(c, preview) == [c EXCEPT !.step = "answered", !.preview = preview]
Goes(c, next) == calls' = (calls \ {c}) \cup {next}
Client == <<wizard, left>>

-----------------------------------------------------------------------------
(* The server: one handler for each request, cut at its awaits.            *)

(* The file is read, and held with the mapping its headers suggest.        *)
CreateImport(c) ==
    /\ c.kind = "upload" /\ c.step = "sent"
    /\ IF Table[c.file].columns = {} \/ Len(Table[c.file].rows) > MaxRows
         THEN /\ Goes(c, Answered(c, NoPreview)) /\ UNCHANGED lists
         ELSE LET record == [file |-> c.file, mapping |-> Suggestion[c.file], status |-> "PREVIEW_READY"]
              IN  /\ Goes(c, [c EXCEPT !.step = "check", !.record = record])
                  /\ lists' = [i \in DOMAIN lists \cup {c.list} |-> IF i = c.list THEN record ELSE lists[i]]
    /\ UNCHANGED <<Client, beats, astray>>

loadImport(c) ==
    /\ c.kind # "upload" /\ c.step = "sent"
    /\ LET record == lists[c.list]
           next == IF c.kind = "confirm" THEN "check"
                   ELSE IF record.status = "PREVIEW_READY" THEN "write" ELSE "answered"
       IN  Goes(c, [c EXCEPT !.step = next, !.record = record])
    /\ UNCHANGED <<Client, lists, beats, astray>>

SlipNotStored(c) ==
    /\ c.kind = "mapping" /\ c.step = "write"
    /\ Goes(c, [c EXCEPT !.step = "check", !.record.mapping = c.mapping])
    /\ UNCHANGED <<Client, lists, beats, astray>>
WriteMapping(c) ==
    /\ c.kind = "mapping" /\ c.step = "write"
    /\ lists' = [lists EXCEPT ![c.list].mapping = c.mapping]
    /\ Goes(c, [c EXCEPT !.step = "check", !.record.mapping = c.mapping])
    /\ astray' = IF c.heard THEN astray ELSE astray \cup {c.list}
    /\ UNCHANGED <<Client, beats>>

WriteCancelled(c) ==
    /\ c.kind = "cancel" /\ c.step = "write"
    /\ lists' = [lists EXCEPT ![c.list].status = "CANCELLED"]
    /\ Goes(c, Answered(c, NoPreview))
    /\ UNCHANGED <<Client, beats, astray>>

AnswerPreview(c) ==
    /\ c.kind \in {"upload", "mapping"} /\ c.step = "check"
    /\ Goes(c, Answered(c, buildPreview(c.list, c.record)))
    /\ UNCHANGED <<Client, lists, beats, astray>>

(* The list is checked once more, and imported if anything is left of it.  *)
CheckForImport(c) ==
    /\ c.kind = "confirm" /\ c.step = "check"
    /\ LET now == buildPreview(c.list, c.record)
       IN IF c.record.status # "PREVIEW_READY" \/ now.adds = <<>>
            THEN Goes(c, Answered(c, NoPreview))
            ELSE Goes(c, [c EXCEPT !.step = "import", !.preview = now])
    /\ UNCHANGED <<Client, lists, beats, astray>>

(* One transaction: a beat that was not there when the list was checked is *)
(* inserted, and its number may be taken by now.                           *)
AddedTo(known, adds) == [n \in DOMAIN known \cup DOMAIN adds |->
    (IF n \in DOMAIN known THEN known[n] ELSE {}) \cup (IF n \in DOMAIN adds THEN adds[n].records ELSE {})]
Taken(c) == (DOMAIN c.preview.adds \ DOMAIN c.preview.known) \cap DOMAIN beats # {}

ImportList(c) ==
    /\ c.kind = "confirm" /\ c.step = "import" /\ ~Taken(c)
    /\ beats' = AddedTo(beats, c.preview.adds)
    /\ lists' = [lists EXCEPT ![c.list].status = "CONFIRMED"]
    /\ Goes(c, [c EXCEPT !.step = "answered"])
    /\ UNCHANGED <<Client, astray>>

NumberTaken(c) ==
    /\ c.kind = "confirm" /\ c.step = "import" /\ Taken(c)
    /\ Goes(c, Answered(c, NoPreview))
    /\ UNCHANGED <<Client, lists, beats, astray>>

CreateBeat(n) ==
    /\ n \notin DOMAIN beats
    /\ beats' = AddedTo(beats, [m \in {n} |-> [records |-> {}]])
    /\ UNCHANGED <<Client, calls, lists, astray>>

-----------------------------------------------------------------------------
(* The wizard.                                                             *)

(* What is sent along: a file, a mapping, or what was shown.               *)
Request(kind, i, file, mapping, shown) ==
    [kind |-> kind, list |-> i, step |-> "sent", heard |-> TRUE, preview |-> NoPreview, record |-> NoPreview,
     file |-> file, mapping |-> mapping, shown |-> shown]
NoFile == "none"
NoMapping == <<>>
Send(c) == Cardinality(calls) < MaxCalls /\ calls' = calls \cup {c}
Uploads == {c.list : c \in {d \in calls : d.kind = "upload"}} \cup DOMAIN lists

(* A file can be dropped while another answer is still awaited, also after *)
(* a third has ended the wizard's being busy.                              *)
Awaited == {c \in calls : c.heard /\ c.kind # "cancel"}
upload(f) ==
    /\ wizard.open /\ wizard.step = 0
    /\ Cardinality(Uploads) < left.lists
    /\ wizard' = [wizard EXCEPT !.preview = NoPreview, !.busy = TRUE]
    /\ LET i == CHOOSE k \in 1..left.lists : k \notin Uploads
       IN  /\ Send(Request("upload", i, f, NoMapping, NoPreview))
           /\ astray' = IF Awaited = {} THEN astray ELSE astray \cup {i} \cup {c.list : c \in Awaited}
    /\ UNCHANGED <<lists, beats, left>>

(* A file of another kind is turned away, and the preview is gone.         *)
NotAList ==
    /\ wizard.open /\ wizard.step = 0 /\ wizard.preview # NoPreview
    /\ wizard' = [wizard EXCEPT !.preview = NoPreview]
    /\ UNCHANGED <<calls, lists, beats, left, astray>>

changeMapping(field, column) ==
    /\ wizard.open /\ wizard.step = 1 /\ wizard.preview # NoPreview /\ ~wizard.busy
    /\ column \in Table[lists[wizard.preview.list].file].columns \cup {NoColumn}
    /\ wizard.preview.mapping[field] # column
    /\ left.changes > 0 /\ left' = [left EXCEPT !.changes = @ - 1]
    /\ wizard' = [wizard EXCEPT !.busy = TRUE]
    /\ Send(Request("mapping", wizard.preview.list, NoFile,
                    [wizard.preview.mapping EXCEPT ![field] = column], NoPreview))
    /\ UNCHANGED <<lists, beats, astray>>

Continue ==
    /\ wizard.open /\ wizard.step \in 0..2 /\ wizard.preview # NoPreview
    /\ wizard.step \in {0, 1} => ~wizard.busy
    /\ wizard.step \in {1, 2} => canContinue
    /\ wizard' = [wizard EXCEPT !.step = @ + 1]
    /\ UNCHANGED <<calls, lists, beats, left, astray>>

Back ==
    /\ wizard.open /\ wizard.step > 0 /\ wizard.preview # NoPreview /\ ~wizard.done
    /\ wizard' = [wizard EXCEPT !.step = @ - 1]
    /\ UNCHANGED <<calls, lists, beats, left, astray>>

runImport ==
    /\ wizard.open /\ wizard.step = 3 /\ wizard.preview # NoPreview
    /\ ~wizard.done /\ ~wizard.busy
    /\ wizard' = [wizard EXCEPT !.busy = TRUE]
    /\ Send(Request("confirm", wizard.preview.list, NoFile, NoMapping, wizard.preview))
    /\ UNCHANGED <<lists, beats, left, astray>>

(* A list that is shown and not imported is cancelled first; the wizard    *)
(* stays open until that is answered.                                      *)
close ==
    /\ wizard.open
    /\ IF wizard.preview # NoPreview /\ ~wizard.done
         THEN /\ Send(Request("cancel", wizard.preview.list, NoFile, NoMapping, NoPreview))
              /\ UNCHANGED wizard
         ELSE /\ wizard' = Closed
              /\ calls' = {[c EXCEPT !.heard = FALSE] : c \in calls}
    /\ UNCHANGED <<lists, beats, left, astray>>

Reopen ==
    /\ ~wizard.open
    /\ wizard' = Opened
    /\ UNCHANGED <<calls, lists, beats, left, astray>>

(* An answer, or an error, reaches the wizard.  After a cancel it closes   *)
(* whatever the answer is.                                                 *)
Hear(c, preview) ==
    CASE ~c.heard -> UNCHANGED wizard
      [] c.heard /\ c.kind = "cancel" -> wizard' = Closed
      [] c.heard /\ c.kind = "confirm" ->
           wizard' = [wizard EXCEPT !.busy = FALSE, !.done = @ \/ preview # NoPreview]
      [] OTHER ->
           wizard' = [wizard EXCEPT !.busy = FALSE, !.preview = IF preview = NoPreview THEN @ ELSE preview]
Deaf(others) == IF wizard'.open THEN others ELSE {[c EXCEPT !.heard = FALSE] : c \in others}

Answer(c) ==
    /\ c.step = "answered"
    /\ Hear(c, c.preview)
    /\ calls' = Deaf(calls \ {c})
    /\ UNCHANGED <<lists, beats, left, astray>>

(* The request or its answer is lost: an error for the wizard; a request   *)
(* that has arrived is worked on.                                          *)
Lose(c) ==
    /\ c.heard
    /\ Hear(c, NoPreview)
    /\ calls' = Deaf((calls \ {c}) \cup (IF c.step = "sent" THEN {} ELSE {[c EXCEPT !.heard = FALSE]}))
    /\ astray' = IF c.kind = "mapping" /\ c.step \in {"check", "answered"} THEN astray \cup {c.list} ELSE astray
    /\ UNCHANGED <<lists, beats, left>>

Handler(c) ==
    \/ CreateImport(c) \/ loadImport(c) \/ WriteMapping(c) \/ WriteCancelled(c)
    \/ AnswerPreview(c) \/ CheckForImport(c) \/ ImportList(c) \/ NumberTaken(c)

PanelNext ==
    \/ \E c \in calls : Handler(c) \/ Answer(c) \/ Lose(c)
    \/ \E n \in NewBeats : CreateBeat(n)
    \/ \E f \in DOMAIN Files : upload(f)
    \/ \E choice \in Columns : changeMapping(choice[1], choice[2])
    \/ NotAList \/ Continue \/ Back \/ runImport \/ close \/ Reopen

Panel == PanelInit /\ [][PanelNext]_panelVars

-----------------------------------------------------------------------------
(* Properties *)

Imports(c) == c.kind = "confirm" /\ c.step = "import" /\ ~Taken(c) /\ c \notin calls'
                /\ [c EXCEPT !.step = "answered"] \in calls'

(* "what is shown is exactly what will be imported": the beats and records *)
(* that are written are those of the preview on the screen when Import was *)
(* pressed, whatever files were dropped and columns changed before. It     *)
(* takes a beat that someone else created, a lost answer, or a file that   *)
(* is dropped while an answer is awaited, to import anything else.         *)
ShownIsImported ==
    [][\A c \in calls : Imports(c) =>
          \/ c.preview.adds = c.shown.adds
          \/ c.preview.known # c.shown.known
          \/ c.list \in astray]_panelVars

(* "never dropped silently": once a list is imported, every row of it that *)
(* was not refused is in the directory, under its own beat.                *)
ListedIsFound ==
    [][\A c \in calls : Imports(c) =>
          LET m == Mapped(c.preview.mapping)
              rows == RowsUnder(Table[c.record.file], c.preview.mapping)
          IN \A r \in DOMAIN rows :
                ~Refused(rows, m, c.preview.known, r) =>
                    /\ Cell(rows[r], "beatNumber", m) \in DOMAIN beats'
                    /\ RecordOf(rows[r], m) \subseteq beats'[Cell(rows[r], "beatNumber", m)]]_panelVars
=============================================================================
