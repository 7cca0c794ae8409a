---------------------------- MODULE ImportConfirm ----------------------------
(***************************************************************************)
(* Importing deliveries from a file (import.service.ts): the upload stores *)
(* the rows, the administrator may change the column mapping, and          *)
(* confirming writes the valid rows one by one, each with its delivery in  *)
(* one transaction, and has it matched to a beat.  The server may stop at  *)
(* any point; when it starts again it repairs deliveries that were saved   *)
(* and never matched (repairUnassignedDeliveries).  A delivery's match is  *)
(* one step here (module Assignment has its detail).                       *)
(***************************************************************************)
EXTENDS Naturals, FiniteSets

CONSTANTS
    Imports,        \* uploads, each one file
    RowNumbers,     \* 1 .. n, the rows of a file
    Ids,            \* tracking ids
    Mappings,       \* column mappings the administrator may choose
    Suggested,      \* the mapping suggested at upload
    Content,        \* [Mappings -> [Imports -> [RowNumbers -> Ids or NoId]]]
    Handlers,       \* requests in flight
    Worlds,         \* what may go wrong: sets of FaultKinds, one per behaviour
    MaxCrashes      \* bound: how often the server stops

NoId == "NoId"      \* a row that lacks a required field
FaultKinds ==
    {"run", "outside", "row", "match", "crash", "quickRestart", "overlap", "remap"}

ASSUME ImportAssumption ==
    /\ NoId \notin Ids
    /\ IsFiniteSet(RowNumbers) /\ RowNumbers = 1..Cardinality(RowNumbers)
    /\ \A m \in Mappings :
         Content[m] \in [Imports -> [RowNumbers -> Ids \cup {NoId}]]
    /\ Suggested \in Mappings
    /\ Worlds \subseteq SUBSET FaultKinds /\ MaxCrashes \in Nat

VARIABLES
    import,     \* [Imports -> DeliveryImport.status]
    row,        \* [Imports -> [RowNumbers -> DeliveryImportRow]]
    saved,      \* [Ids -> the row a delivery was made from, or None]
    matched,    \* deliveries that were matched (to a beat or an exception)
    young,      \* deliveries created less than a minute ago
    handler,    \* [Handlers -> the request in flight]
    repair,     \* deliveries the startup repair still has to match
    up,         \* the server runs
    crashes,
    lapped,     \* history: imports re-mapped while, or after, a run had their rows
    dropped,    \* history: imports whose upload or run ended where nothing catches
    skipped,    \* history: deliveries the repair passed over at the last start
    faults      \* what may go wrong in this behaviour; it never changes

tables == <<import, row, saved, matched, young>>
server == <<repair, up, crashes, lapped, dropped, skipped, faults>>
vars == <<tables, handler, server>>

ImportStatus == {"NONE", "PROCESSING", "PREVIEW_READY", "CONFIRMED", "CANCELLED"}
RowStatus == {"VALID", "MISSING_DATA", "DUPLICATE", "INVALID", "IMPORTED"}
Row  == [status : RowStatus, id : Ids \cup {NoId}]
None == <<>>

Idle == [pc |-> "idle"]
RunSteps ==
    {"claimed", "load", "check", "create", "match", "audit", "release"}
IsHandler(h) ==
    \/ h = Idle
    \/ /\ h.pc \in {"preview", "remap"}
       /\ h \in [pc : {h.pc}, import : Imports, rows : [RowNumbers -> Row]]
    \/ /\ h.pc \in RunSteps
       /\ DOMAIN h = {"pc", "import", "rest"}
       /\ h.import \in Imports
       /\ h.rest \subseteq [row : RowNumbers, id : Ids]

TypeOK ==
    /\ import \in [Imports -> ImportStatus]
    /\ row \in [Imports -> [RowNumbers -> Row]]
    /\ saved \in [Ids -> (Imports \X RowNumbers) \cup {None}]
    /\ matched \subseteq Ids /\ young \subseteq Ids /\ repair \subseteq Ids
    /\ DOMAIN handler = Handlers /\ \A h \in Handlers : IsHandler(handler[h])
    /\ up \in BOOLEAN /\ crashes \in 0..MaxCrashes
    /\ lapped \subseteq Imports /\ dropped \subseteq Imports /\ skipped \subseteq Ids
    /\ faults \subseteq FaultKinds

NoRow == [status |-> "MISSING_DATA", id |-> NoId]

Init ==
    /\ import = [i \in Imports |-> "NONE"]
    /\ row = [i \in Imports |-> [r \in RowNumbers |-> NoRow]]
    /\ saved = [id \in Ids |-> None]
    /\ matched = {} /\ young = {} /\ repair = {}
    /\ handler = [h \in Handlers |-> Idle]
    /\ up = TRUE /\ crashes = 0 /\ lapped = {} /\ dropped = {} /\ skipped = {}
    /\ faults \in Worlds

Exists(id) == saved[id] # None

(* Requests are alike, so a new one takes one of the free slots, whichever. *)
Accept(h) ==
    /\ up /\ handler[h] = Idle /\ h = CHOOSE g \in Handlers : handler[g] = Idle
    /\ "overlap" \in faults \/ \A g \in Handlers : handler[g] = Idle
Put(h, v)  == handler' = [handler EXCEPT ![h] = v]

-----------------------------------------------------------------------------
(* Upload, mapping, cancel *)

(* Validation row by row: the first valid row with a tracking id that no   *)
(* delivery has is VALID, later ones with the same id are DUPLICATE.       *)
Validated(i, m) ==
    [r \in RowNumbers |->
       LET id == Content[m][i][r] IN
       [id |-> id,
        status |-> IF id = NoId THEN "MISSING_DATA"
                   ELSE IF Exists(id) \/ \E q \in 1..(r - 1) : Content[m][i][q] = id
                     THEN "DUPLICATE" ELSE "VALID"]]

Upload(h, i) ==
    /\ Accept(h) /\ import[i] = "NONE"
    /\ import' = [import EXCEPT ![i] = "PROCESSING"]
    /\ Put(h, [pc |-> "preview", import |-> i, rows |-> Validated(i, Suggested)])
    /\ UNCHANGED <<row, saved, matched, young, server>>

StorePreview(h) ==
    /\ handler[h].pc = "preview"
    /\ row' = [row EXCEPT ![handler[h].import] = handler[h].rows]
    /\ import' = [import EXCEPT ![handler[h].import] = "PREVIEW_READY"]
    /\ Put(h, Idle)
    /\ UNCHANGED <<saved, matched, young, server>>

StartRemap(h, i, m) ==
    /\ Accept(h) /\ import[i] = "PREVIEW_READY"
    /\ m = Suggested \/ "remap" \in faults
    /\ Put(h, [pc |-> "remap", import |-> i, rows |-> Validated(i, m)])
    /\ UNCHANGED <<tables, server>>

StoreRemap(h) ==
    /\ handler[h].pc = "remap"
    /\ row' = [row EXCEPT ![handler[h].import] = handler[h].rows]
    /\ lapped' = IF import[handler[h].import] = "PREVIEW_READY" THEN lapped
                 ELSE lapped \cup {handler[h].import}
    /\ Put(h, Idle)
    /\ UNCHANGED <<import, saved, matched, young, repair, up, crashes, dropped,
                   skipped, faults>>

Cancellable == {"PROCESSING", "PREVIEW_READY"}

CancelImport(i) ==
    /\ up /\ import[i] \in Cancellable
    /\ import' = [import EXCEPT ![i] = "CANCELLED"]
    /\ UNCHANGED <<row, saved, matched, young, handler, server>>

-----------------------------------------------------------------------------
(* confirmImport *)

SlipClaimAgain(i) == import[i] \in {"PREVIEW_READY", "PROCESSING"}
Claimable(i) == import[i] = "PREVIEW_READY"

(* The claim is one conditional update: it takes the import or fails.  The *)
(* try block begins after the import has been read once more.              *)
ClaimImport(h, i) ==
    /\ Accept(h) /\ Claimable(i)
    /\ import' = [import EXCEPT ![i] = "PROCESSING"]
    /\ Put(h, [pc |-> "claimed", import |-> i, rest |-> {}])
    /\ UNCHANGED <<row, saved, matched, young, server>>

ReadImport(h) ==
    /\ handler[h].pc = "claimed"
    /\ Put(h, [handler[h] EXCEPT !.pc = "load"])
    /\ UNCHANGED <<tables, server>>

(* The rows a run still has to import; it takes them by their number.      *)
ValidRows(i) ==
    {[row |-> r, id |-> row[i][r].id] : r \in {q \in RowNumbers : row[i][q].status = "VALID"}}
First(rest) == CHOOSE e \in rest : \A f \in rest : e.row <= f.row
SlipTakesOne(i) == {e \in ValidRows(i) : e = First(ValidRows(i))}
RowsToImport(i) == ValidRows(i)

LoadValidRows(h) ==
    /\ handler[h].pc = "load"
    /\ Put(h, [handler[h] EXCEPT !.pc = "check",
                                 !.rest = RowsToImport(handler[h].import)])
    /\ UNCHANGED <<tables, server>>

Current(h) == First(handler[h].rest)
NextRow(h) == [handler[h] EXCEPT !.pc = "check", !.rest = @ \ {Current(h)}]
SetRow(h, st) == row' = [row EXCEPT ![handler[h].import][Current(h).row].status = st]

(* Another import, or a delivery made by hand, may have taken the id since *)
(* the preview.  If not, the address is geocoded, which takes a while.     *)
CheckRow(h) ==
    /\ handler[h].pc = "check" /\ handler[h].rest # {}
    /\ IF Exists(Current(h).id)
         THEN SetRow(h, "DUPLICATE") /\ Put(h, NextRow(h))
         ELSE Put(h, [handler[h] EXCEPT !.pc = "create"]) /\ UNCHANGED row
    /\ UNCHANGED <<import, saved, matched, young, server>>

RowTaken(i, r) == \E id \in Ids : saved[id] = <<i, r>>

FailedRow == "INVALID"

(* The delivery and the row's IMPORTED in one transaction; the tracking id *)
(* and the row are unique among deliveries, so a second one is refused.    *)
CreateDelivery(h) ==
    LET i == handler[h].import
        r == Current(h).row
        id == Current(h).id
    IN /\ handler[h].pc = "create"
       /\ \/ /\ ~Exists(id) /\ ~RowTaken(i, r)
             /\ saved' = [saved EXCEPT ![id] = <<i, r>>]
             /\ young' = young \cup {id}
             /\ SetRow(h, "IMPORTED")
             /\ Put(h, [handler[h] EXCEPT !.pc = "match"])
          \/ /\ Exists(id) \/ RowTaken(i, r) \/ "row" \in faults
             /\ SetRow(h, FailedRow)
             /\ Put(h, NextRow(h))
             /\ UNCHANGED <<saved, young>>
       /\ UNCHANGED <<import, matched, server>>

(* A match that throws is logged; the delivery stays saved.                *)
MatchDelivery(h) ==
    /\ handler[h].pc = "match"
    /\ \/ matched' = matched \cup {Current(h).id}
       \/ "match" \in faults /\ UNCHANGED matched
    /\ Put(h, NextRow(h))
    /\ UNCHANGED <<import, row, saved, young, server>>

ConfirmImport(h) ==
    /\ handler[h].pc = "check" /\ handler[h].rest = {}
    /\ import' = [import EXCEPT ![handler[h].import] = "CONFIRMED"]
    /\ Put(h, [handler[h] EXCEPT !.pc = "audit"])
    /\ UNCHANGED <<row, saved, matched, young, server>>

RecordAudit(h) ==
    /\ handler[h].pc = "audit"
    /\ Put(h, Idle)
    /\ UNCHANGED <<tables, server>>

(* A database error in the try block, outside the row's own: also when the *)
(* row cannot be marked, or the audit of a confirmed import is not written.*)
RunFails(h) ==
    /\ "run" \in faults
    /\ handler[h].pc \in {"load", "check", "create", "audit"}
    /\ Put(h, [handler[h] EXCEPT !.pc = "release", !.rest = {}])
    /\ UNCHANGED <<tables, server>>

SlipReleased(st) == "PREVIEW_READY"
Released(st) == IF st = "PROCESSING" THEN "PREVIEW_READY" ELSE st

(* The catch block: it gives the claim back.                               *)
ReleaseClaim(h) ==
    /\ handler[h].pc = "release"
    /\ import' = [import EXCEPT ![handler[h].import] = Released(@)]
    /\ Put(h, Idle)
    /\ UNCHANGED <<row, saved, matched, young, server>>

(* A database error where nothing catches it: while an upload stores its   *)
(* rows, or after it has; in a re-map, whose writes are one transaction;   *)
(* between the claim and the try block; in the catch block.                *)
RequestFails(h) ==
    LET i == handler[h].import IN
    /\ "outside" \in faults
    /\ handler[h].pc \in {"preview", "remap", "claimed", "release"}
    /\ \/ UNCHANGED row
       \/ handler[h].pc = "preview" /\ row' = [row EXCEPT ![i] = handler[h].rows]
    /\ dropped' = IF handler[h].pc = "remap" THEN dropped ELSE dropped \cup {i}
    /\ Put(h, Idle)
    /\ UNCHANGED <<import, saved, matched, young, repair, up, crashes, lapped,
                   skipped, faults>>

-----------------------------------------------------------------------------
(* The server stops and starts again *)

Crash ==
    /\ "crash" \in faults /\ up /\ crashes < MaxCrashes
    /\ up' = FALSE /\ crashes' = crashes + 1 /\ repair' = {}
    /\ handler' = [h \in Handlers |-> Idle]
    /\ UNCHANGED <<tables, lapped, dropped, skipped, faults>>

SlipOnlyOfConfirmed ==
    {id \in Ids : Exists(id) /\ id \notin matched
                     /\ import[saved[id][1]] = "CONFIRMED"}
Unmatched == {id \in Ids : Exists(id) /\ id \notin matched}

(* repairUnassignedDeliveries runs once, at the start, and skips what was  *)
(* created in the last minute; without "quickRestart" the server stays     *)
(* down at least that long.                                                *)
Restart ==
    /\ ~up
    /\ "quickRestart" \notin faults => young = {}
    /\ up' = TRUE
    /\ repair' = Unmatched \ young
    /\ skipped' = Unmatched \cap young
    /\ UNCHANGED <<tables, handler, crashes, lapped, dropped, faults>>

RepairOne(id) ==
    /\ up /\ id \in repair
    /\ matched' = matched \cup {id}
    /\ repair' = repair \ {id}
    /\ UNCHANGED <<import, row, saved, young, handler, up, crashes, lapped, dropped,
                   skipped, faults>>

(* A match that throws ends the repair.                                    *)
RepairFails ==
    /\ "match" \in faults /\ up /\ repair # {}
    /\ repair' = {}
    /\ UNCHANGED <<tables, handler, up, crashes, lapped, dropped, skipped, faults>>

(* Only a restart asks how old a delivery is.                              *)
MinutePasses ==
    /\ "crash" \in faults /\ young # {}
    /\ young' = {}
    /\ UNCHANGED <<import, row, saved, matched, handler, server>>

Step(h) ==
    \/ StorePreview(h) \/ StoreRemap(h)
    \/ ReadImport(h) \/ LoadValidRows(h) \/ CheckRow(h) \/ CreateDelivery(h)
    \/ MatchDelivery(h) \/ ConfirmImport(h) \/ RecordAudit(h) \/ ReleaseClaim(h)

Next ==
    \/ \E h \in Handlers : Step(h) \/ RunFails(h) \/ RequestFails(h)
    \/ \E h \in Handlers, i \in Imports :
         \/ Upload(h, i) \/ ClaimImport(h, i)
         \/ \E m \in Mappings : StartRemap(h, i, m)
    \/ \E i \in Imports : CancelImport(i)
    \/ \E id \in Ids : RepairOne(id)
    \/ Crash \/ Restart \/ RepairFails \/ MinutePasses

Spec == Init /\ [][Next]_vars

(* Node runs every accepted request on, the operating system restarts the  *)
(* server, the repair works through its list, and time passes.             *)
Fairness ==
    /\ \A h \in Handlers : WF_vars(Step(h))
    /\ \A id \in Ids : WF_vars(RepairOne(id))
    /\ WF_vars(Restart) /\ WF_vars(MinutePasses)

FairSpec == Spec /\ Fairness

-----------------------------------------------------------------------------
(* Properties *)

Runs(h, i) == handler[h] # Idle /\ handler[h].import = i
Confirms(h, i) == Runs(h, i) /\ handler[h].pc \in RunSteps

(* "two simultaneous confirms cannot both run (an atomic status claim)",   *)
(* whatever was cancelled, failed or re-mapped in between.                 *)
OneRunAtATime ==
    \A i \in Imports, g, h \in Handlers :
        Confirms(g, i) /\ Confirms(h, i) => g = h

(* A confirmed import has dealt with every row of the preview: it is a     *)
(* delivery, or it says why not; IMPORTED is said only of a delivery that  *)
(* was saved, and DUPLICATE only of one that exists or of an earlier row.  *)
EveryRowAccounted ==
    \A i \in Imports, r \in RowNumbers :
        /\ row[i][r].status = "IMPORTED" => RowTaken(i, r)
        /\ i \notin lapped =>
             /\ import[i] = "CONFIRMED" => row[i][r].status # "VALID"
             /\ row[i][r].status = "DUPLICATE" =>
                  \/ Exists(row[i][r].id)
                  \/ \E q \in 1..(r - 1) : row[i][q].id = row[i][r].id

(* "If the whole run fails the import returns to PREVIEW_READY so it can   *)
(* be confirmed again": an import that is PROCESSING is being uploaded or  *)
(* confirmed, and however that fails inside confirmImport's try block it   *)
(* is given back.  The two ways to be left PROCESSING with nobody at work  *)
(* are a stop of the server and an error no catch gives it back for.       *)
NotWedged ==
    \A i \in Imports :
        crashes = 0 /\ import[i] = "PROCESSING" /\ i \notin dropped =>
            \E h \in Handlers : Runs(h, i) /\ handler[h].pc # "remap"

(* An import that is PROCESSING has one run that processes it, and no two. *)
ProcessingIsOneRun == OneRunAtATime /\ NotWedged

(* A confirmed import stays confirmed: it cannot be cancelled and a late   *)
(* failure does not make it confirmable again.                             *)
ConfirmedIsFinal ==
    [][\A i \in Imports : import[i] = "CONFIRMED" => import'[i] = "CONFIRMED"]_vars

(* Every delivery that was saved is matched in the end, by its import or   *)
(* by the repair at the next start, where no match throws; unless that     *)
(* start came so soon that the repair passed it over.                      *)
EventuallyMatched ==
    \A id \in Ids :
        ("match" \notin faults /\ Exists(id)) ~> (id \in matched \/ id \in skipped)
=============================================================================
