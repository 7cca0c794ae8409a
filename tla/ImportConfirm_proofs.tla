------------------------ MODULE ImportConfirm_proofs ------------------------
(***************************************************************************)
(* The claim on an import, for any number of imports, rows and requests    *)
(* and any faults: one run at a time, none wedged but by a stop or by an   *)
(* error that nothing catches, and a confirmed import is final. And its rows: each is accounted for by *)
(* what was saved, what was there before, and what failed (Books).         *)
(***************************************************************************)
EXTENDS ImportConfirm, TLAPS, FiniteSetTheorems, WellFoundedInduction

Confirming == {"claimed", "load", "check", "create", "match", "audit", "release"}
Running    == Confirming \ {"audit", "release"}
Storing    == {"preview", "remap"}

(* What the proofs need to know of a handler: its step and its import.     *)
HandlerOK(x) ==
    \/ x = Idle
    \/ /\ x.pc \in Storing \cup Confirming /\ x.import \in Imports
       /\ DOMAIN x = {"pc", "import", IF x.pc \in Storing THEN "rows" ELSE "rest"}

(* A handler owns its import from the upload or the claim to its end; a    *)
(* re-map does not.                                                        *)
Owns(h, i) ==
    handler[h].pc \in Confirming \cup {"preview"} /\ handler[h].import = i

(* What an import is while its owner is at a step.                         *)
OwnedAs(pc) ==
    IF pc = "audit" THEN {"CONFIRMED"}
    ELSE IF pc = "release" THEN {"PROCESSING", "CANCELLED", "CONFIRMED"}
    ELSE {"PROCESSING", "CANCELLED"}

(* An import has at most one owner, an owned import stays PROCESSING or is *)
(* CANCELLED under its owner until that has confirmed it, and until the    *)
(* server stops a PROCESSING import has an owner, unless an error that     *)
(* nothing catches ended the last one.                                     *)
Claims ==
    /\ DOMAIN import = Imports /\ DOMAIN handler = Handlers /\ crashes \in Nat
    /\ \A h \in Handlers : HandlerOK(handler[h])
    /\ \A g, h \in Handlers, i \in Imports : Owns(g, i) /\ Owns(h, i) => g = h
    /\ \A h \in Handlers, i \in Imports :
         Owns(h, i) => import[i] \in OwnedAs(handler[h].pc)
    /\ \A i \in Imports : crashes = 0 /\ import[i] = "PROCESSING" /\ i \notin dropped =>
         \E h \in Handlers : Owns(h, i)

-----------------------------------------------------------------------------
(* What a step does to the claims. *)

(* h comes to own i, which nobody owned.                                   *)
Takes(h, i) ==
    /\ handler[h] = Idle /\ import[i] \in {"NONE", "PREVIEW_READY"}
    /\ import' = [import EXCEPT ![i] = "PROCESSING"]
    /\ handler' = [handler EXCEPT ![h] = handler'[h]]
    /\ HandlerOK(handler'[h]) /\ handler'[h].import = i
    /\ handler'[h].pc \in {"claimed", "preview"}
    /\ UNCHANGED <<crashes, dropped>>

(* h goes on with the import it owns, which stays as it is.                *)
GoesOn(h) ==
    /\ handler[h].pc \in Confirming /\ handler'[h].pc \in Confirming
    /\ handler' = [handler EXCEPT ![h] = handler'[h]]
    /\ HandlerOK(handler'[h]) /\ handler'[h].import = handler[h].import
    /\ OwnedAs(handler[h].pc) \subseteq OwnedAs(handler'[h].pc)
    /\ UNCHANGED <<import, crashes, dropped>>

(* h confirms the import it owns, and goes on.                             *)
Confirmed(h) ==
    /\ handler[h].pc \in Confirming /\ handler'[h].pc = "audit"
    /\ handler' = [handler EXCEPT ![h] = handler'[h]]
    /\ HandlerOK(handler'[h]) /\ handler'[h].import = handler[h].import
    /\ import' = [import EXCEPT ![handler[h].import] = "CONFIRMED"]
    /\ UNCHANGED <<crashes, dropped>>

(* h leaves the import it owns, which is PROCESSING no longer or dropped.  *)
Leaves(h) ==
    /\ handler[h].pc \in Confirming \cup {"preview"}
    /\ handler' = [handler EXCEPT ![h] = Idle]
    /\ DOMAIN import' = DOMAIN import
    /\ \A i \in DOMAIN import \ {handler[h].import} : import'[i] = import[i]
    /\ dropped \subseteq dropped'
    /\ import'[handler[h].import] # "PROCESSING" \/ handler[h].import \in dropped'
    /\ import[handler[h].import] = "CONFIRMED" => import'[handler[h].import] = "CONFIRMED"
    /\ UNCHANGED crashes

(* h owns nothing, before and after.                                       *)
StandsBy(h) ==
    /\ handler[h].pc \in {"idle", "remap"}
    /\ handler' = [handler EXCEPT ![h] = handler'[h]]
    /\ HandlerOK(handler'[h]) /\ handler'[h].pc \in {"idle", "remap"}
    /\ UNCHANGED <<import, crashes, dropped>>

LEMMA IdleHandler == HandlerOK(Idle) /\ Idle.pc = "idle"
BY DEF HandlerOK, Idle

LEMMA TakesKeepsClaims ==
    ASSUME Claims, NEW h \in Handlers, NEW i \in Imports, Takes(h, i)
    PROVE  Claims'
<1>1. /\ DOMAIN handler' = Handlers /\ DOMAIN import' = Imports
      /\ \A g \in Handlers \ {h} : handler'[g] = handler[g]
      /\ import'[i] = "PROCESSING"
      /\ \A j \in Imports \ {i} : import'[j] = import[j]
  BY DEF Takes, Claims
<1>2. \A g \in Handlers, j \in Imports :
        Owns(g, j)' <=> (g = h /\ j = i) \/ (g # h /\ Owns(g, j))
  BY <1>1 DEF Owns, Takes, Confirming
<1>3. \A g \in Handlers : ~Owns(g, i)
  <2>1. import[i] \in {"NONE", "PREVIEW_READY"}
    BY DEF Takes
  <2>2. \A pc : import[i] \notin OwnedAs(pc)
    BY <2>1 DEF OwnedAs
  <2>. QED
    BY <2>2 DEF Claims
<1>4. (\A g \in Handlers : HandlerOK(handler[g]))'
  <2>1. \A g \in Handlers : HandlerOK(handler'[g])
    BY <1>1 DEF Takes, Claims
  <2>. QED
    BY <2>1 DEF HandlerOK
<1>5. \A j \in Imports : ~Owns(h, j)
  BY IdleHandler DEF Takes, Owns, Confirming
<1>6. crashes' = crashes /\ dropped' = dropped
  BY DEF Takes
<1>7. import'[i] \in OwnedAs(handler'[h].pc)
  BY <1>1 DEF OwnedAs, Takes
<1>8. ASSUME NEW g \in Handlers, NEW j \in Imports, Owns(g, j)'
      PROVE  import'[j] \in OwnedAs(handler'[g].pc)
  BY <1>1, <1>2, <1>3, <1>7, <1>8 DEF Claims
<1>. QED
  BY <1>1, <1>2, <1>3, <1>4, <1>5, <1>6, <1>8 DEF Claims

LEMMA GoesOnKeepsClaims ==
    ASSUME Claims, NEW h \in Handlers, GoesOn(h)
    PROVE  Claims'
<1>1. /\ DOMAIN handler' = Handlers
      /\ \A g \in Handlers \ {h} : handler'[g] = handler[g]
  BY DEF GoesOn, Claims
<1>2. \A g \in Handlers, j \in Imports : Owns(g, j)' <=> Owns(g, j)
  BY <1>1 DEF Owns, GoesOn
<1>3. (\A g \in Handlers : HandlerOK(handler[g]))'
  <2>1. \A g \in Handlers : HandlerOK(handler'[g])
    BY <1>1 DEF GoesOn, Claims
  <2>. QED
    BY <2>1 DEF HandlerOK
<1>. QED
  BY <1>1, <1>2, <1>3 DEF Claims, GoesOn, Owns

LEMMA ConfirmedKeepsClaims ==
    ASSUME Claims, NEW h \in Handlers, Confirmed(h)
    PROVE  Claims'
<1>1. /\ DOMAIN handler' = Handlers /\ DOMAIN import' = Imports
      /\ \A g \in Handlers \ {h} : handler'[g] = handler[g]
  BY DEF Confirmed, Claims
<1> DEFINE i == handler[h].import
<1>2. i \in Imports /\ Owns(h, i)
  BY DEF Confirmed, Claims, HandlerOK, Idle, Owns, Confirming
<1>3. \A g \in Handlers, j \in Imports : Owns(g, j)' <=> Owns(g, j)
  BY <1>1 DEF Owns, Confirmed, Confirming
<1>4. /\ import'[i] = "CONFIRMED" /\ \A j \in Imports : j # i => import'[j] = import[j]
      /\ handler'[h].pc = "audit" /\ crashes' = crashes /\ dropped' = dropped
  BY <1>2 DEF Confirmed, Claims
<1>5. (\A g \in Handlers : HandlerOK(handler[g]))'
  <2>1. \A g \in Handlers : HandlerOK(handler'[g])
    BY <1>1 DEF Confirmed, Claims
  <2>. QED
    BY <2>1 DEF HandlerOK
<1>6. \A j \in Imports : Owns(h, j) => j = i
  BY DEF Owns
<1>. HIDE DEF i
<1>. QED
  BY <1>1, <1>2, <1>3, <1>4, <1>5, <1>6 DEF Claims, OwnedAs

LEMMA LeavesKeepsClaims ==
    ASSUME Claims, NEW h \in Handlers, Leaves(h)
    PROVE  Claims'
<1>1. /\ DOMAIN handler' = Handlers /\ DOMAIN import' = Imports
      /\ \A g \in Handlers \ {h} : handler'[g] = handler[g]
      /\ handler'[h] = Idle
  BY DEF Leaves, Claims
<1> DEFINE i == handler[h].import
<1>2. i \in Imports /\ Owns(h, i)
  BY DEF Leaves, Claims, HandlerOK, Idle, Owns, Confirming
<1>3. \A g \in Handlers, j \in Imports : Owns(g, j)' <=> g # h /\ Owns(g, j)
  BY <1>1, IdleHandler DEF Owns, Confirming
<1>4. \A j \in Imports : j # i => import'[j] = import[j]
  BY DEF Leaves, Claims
<1>5. \A j \in Imports : Owns(h, j) => j = i
  BY DEF Owns
<1>6. (\A g \in Handlers : HandlerOK(handler[g]))'
  <2>1. \A g \in Handlers : HandlerOK(handler'[g])
    BY <1>1, IdleHandler DEF Claims
  <2>. QED
    BY <2>1 DEF HandlerOK
<1>7. /\ import'[i] # "PROCESSING" \/ i \in dropped'
      /\ dropped \subseteq dropped' /\ crashes' = crashes
  BY DEF Leaves
<1>. HIDE DEF i
<1>. QED
  BY <1>1, <1>2, <1>3, <1>4, <1>5, <1>6, <1>7 DEF Claims

LEMMA StandsByKeepsClaims ==
    ASSUME Claims, NEW h \in Handlers, StandsBy(h)
    PROVE  Claims'
<1>1. /\ DOMAIN handler' = Handlers
      /\ \A g \in Handlers \ {h} : handler'[g] = handler[g]
  BY DEF StandsBy, Claims
<1>2. \A g \in Handlers, j \in Imports : Owns(g, j)' <=> Owns(g, j)
  BY <1>1 DEF Owns, StandsBy, Confirming
<1>3. (\A g \in Handlers : HandlerOK(handler[g]))'
  <2>1. \A g \in Handlers : HandlerOK(handler'[g])
    BY <1>1 DEF StandsBy, Claims
  <2>. QED
    BY <2>1 DEF HandlerOK
<1>4. UNCHANGED <<import, crashes, dropped>> /\ \A j \in Imports : ~Owns(h, j)
  BY DEF StandsBy, Owns, Confirming
<1>5. ASSUME NEW g \in Handlers, NEW j \in Imports, Owns(g, j)'
      PROVE  import'[j] \in OwnedAs(handler'[g].pc)
  BY <1>1, <1>2, <1>4, <1>5 DEF Claims
<1>. QED
  BY <1>1, <1>2, <1>3, <1>4, <1>5 DEF Claims

-----------------------------------------------------------------------------
(* Every action is one of these. *)

LEMMA UploadTakes ==
    ASSUME Claims, NEW h \in Handlers, NEW i \in Imports, Upload(h, i)
    PROVE  Takes(h, i)
<1> DEFINE rows == Validated(i, Suggested)
<1>1. /\ handler[h] = Idle /\ import[i] = "NONE"
      /\ import' = [import EXCEPT ![i] = "PROCESSING"] /\ UNCHANGED <<crashes, dropped>>
      /\ handler' = [handler EXCEPT ![h] = [pc |-> "preview", import |-> i, rows |-> rows]]
  BY DEF Upload, Accept, Put, server
<1>. HIDE DEF rows
<1>. QED
  BY <1>1 DEF Takes, HandlerOK, Storing, Claims

LEMMA ClaimTakes ==
    ASSUME Claims, NEW h \in Handlers, NEW i \in Imports, ClaimImport(h, i)
    PROVE  Takes(h, i)
<1>1. /\ handler[h] = Idle /\ import[i] = "PREVIEW_READY"
      /\ import' = [import EXCEPT ![i] = "PROCESSING"] /\ UNCHANGED <<crashes, dropped>>
      /\ handler' = [handler EXCEPT ![h] = [pc |-> "claimed", import |-> i, rest |-> {}]]
  BY DEF ClaimImport, Claimable, Accept, Put, server
<1>. QED
  BY <1>1 DEF Takes, HandlerOK, Storing, Confirming, Claims

(* A confirming handler that only moves on in its list of rows.            *)
LEMMA MovesOnGoesOn ==
    ASSUME Claims, NEW h \in Handlers, handler[h].pc \in Confirming,
           NEW pc \in Confirming, NEW rest, OwnedAs(handler[h].pc) \subseteq OwnedAs(pc),
           Put(h, [handler[h] EXCEPT !.pc = pc, !.rest = rest]),
           UNCHANGED <<import, crashes, dropped>>
    PROVE  GoesOn(h)
<1>1. /\ DOMAIN handler[h] = {"pc", "import", "rest"}
      /\ handler[h].import \in Imports
  BY IdleHandler DEF Claims, HandlerOK, Confirming, Storing
<1>2. handler'[h] = [handler[h] EXCEPT !.pc = pc, !.rest = rest]
  BY DEF Put, Claims
<1>3. /\ DOMAIN handler'[h] = {"pc", "import", "rest"}
      /\ handler'[h].pc = pc /\ handler'[h].import = handler[h].import
  BY <1>1, <1>2
<1>4. handler' = [handler EXCEPT ![h] = handler'[h]]
  BY <1>2 DEF Put
<1>5. HandlerOK(handler'[h])
  BY <1>1, <1>3 DEF HandlerOK, Confirming, Storing
<1>. QED
  BY <1>3, <1>4, <1>5 DEF GoesOn

LEMMA NextRowGoesOn ==
    ASSUME Claims, NEW h \in Handlers, handler[h].pc \in Running,
           Put(h, NextRow(h)), UNCHANGED <<import, crashes, dropped>>
    PROVE  GoesOn(h)
<1> DEFINE rest == handler[h].rest \ {Current(h)}
<1>1. DOMAIN handler[h] = {"pc", "import", "rest"}
  BY IdleHandler DEF Claims, HandlerOK, Confirming, Running, Storing
<1>2. NextRow(h) = [handler[h] EXCEPT !.pc = "check", !.rest = rest]
  BY <1>1 DEF NextRow
<1>3. /\ "check" \in Confirming /\ handler[h].pc \in Confirming
      /\ OwnedAs(handler[h].pc) \subseteq OwnedAs("check")
  BY DEF Confirming, Running, OwnedAs
<1>. HIDE DEF rest
<1>. QED
  BY <1>2, <1>3, MovesOnGoesOn

LEMMA SameRestGoesOn ==
    ASSUME Claims, NEW h \in Handlers, handler[h].pc \in Running,
           NEW pc \in Running, Put(h, [handler[h] EXCEPT !.pc = pc]),
           UNCHANGED <<import, crashes, dropped>>
    PROVE  GoesOn(h)
<1>1. DOMAIN handler[h] = {"pc", "import", "rest"}
  BY IdleHandler DEF Claims, HandlerOK, Confirming, Running, Storing
<1>2. [handler[h] EXCEPT !.pc = pc]
        = [handler[h] EXCEPT !.pc = pc, !.rest = handler[h].rest]
  BY <1>1
<1>3. /\ pc \in Confirming /\ handler[h].pc \in Confirming
      /\ OwnedAs(handler[h].pc) \subseteq OwnedAs(pc)
  BY DEF Confirming, Running, OwnedAs
<1>. QED
  BY <1>2, <1>3, MovesOnGoesOn

(* A step of a confirming run that neither confirms nor leaves the import. *)
Processes(h) ==
    \/ ReadImport(h) \/ LoadValidRows(h) \/ CheckRow(h)
    \/ CreateDelivery(h) \/ MatchDelivery(h) \/ RunFails(h)

LEMMA ProcessesGoesOn ==
    ASSUME Claims, NEW h \in Handlers, Processes(h)
    PROVE  GoesOn(h)
<1>1. /\ {"claimed", "load", "check", "create", "match"} \subseteq Running
      /\ Running \subseteq Confirming
      /\ \A pc, to \in Running : OwnedAs(pc) \subseteq OwnedAs(to)
      /\ \A pc \in Confirming : OwnedAs(pc) \subseteq OwnedAs("release")
  BY DEF Confirming, Running, OwnedAs
<1>2. CASE LoadValidRows(h)
  <2> DEFINE rest == RowsToImport(handler[h].import)
  <2>1. /\ handler[h].pc = "load" /\ UNCHANGED <<import, crashes, dropped>>
        /\ Put(h, [handler[h] EXCEPT !.pc = "check", !.rest = rest])
    BY <1>2 DEF LoadValidRows, tables, server
  <2>. HIDE DEF rest
  <2>. QED
    BY <1>1, <2>1, MovesOnGoesOn
<1>3. CASE CheckRow(h)
  <2>1. /\ handler[h].pc = "check" /\ UNCHANGED <<import, crashes, dropped>>
        /\ Put(h, NextRow(h)) \/ Put(h, [handler[h] EXCEPT !.pc = "create"])
    BY <1>3 DEF CheckRow, server
  <2>. QED
    BY <1>1, <2>1, NextRowGoesOn, SameRestGoesOn
<1>4. CASE CreateDelivery(h)
  <2>1. /\ handler[h].pc = "create" /\ UNCHANGED <<import, crashes, dropped>>
        /\ Put(h, NextRow(h)) \/ Put(h, [handler[h] EXCEPT !.pc = "match"])
    BY <1>4 DEF CreateDelivery, server
  <2>. QED
    BY <1>1, <2>1, NextRowGoesOn, SameRestGoesOn
<1>5. CASE MatchDelivery(h)
  <2>1. /\ handler[h].pc = "match" /\ UNCHANGED <<import, crashes, dropped>>
        /\ Put(h, NextRow(h))
    BY <1>5 DEF MatchDelivery, server
  <2>. QED
    BY <1>1, <2>1, NextRowGoesOn
<1>6. CASE ReadImport(h)
  <2>1. /\ handler[h].pc = "claimed" /\ UNCHANGED <<import, crashes, dropped>>
        /\ Put(h, [handler[h] EXCEPT !.pc = "load"])
    BY <1>6 DEF ReadImport, tables, server
  <2>. QED
    BY <1>1, <2>1, SameRestGoesOn
<1>7. CASE RunFails(h)
  <2>1. /\ handler[h].pc \in {"load", "check", "create", "audit"}
        /\ UNCHANGED <<import, crashes, dropped>>
        /\ Put(h, [handler[h] EXCEPT !.pc = "release", !.rest = {}])
    BY <1>7 DEF RunFails, tables, server
  <2>2. handler[h].pc \in Confirming /\ "release" \in Confirming
    BY <2>1 DEF Confirming
  <2>. QED
    BY <1>1, <2>1, <2>2, MovesOnGoesOn
<1>. QED
  BY <1>2, <1>3, <1>4, <1>5, <1>6, <1>7 DEF Processes

LEMMA ConfirmsConfirmed ==
    ASSUME Claims, NEW h \in Handlers, ConfirmImport(h)
    PROVE  Confirmed(h)
<1>1. /\ handler[h].pc = "check" /\ UNCHANGED <<crashes, dropped>>
      /\ handler' = [handler EXCEPT ![h] = [handler[h] EXCEPT !.pc = "audit"]]
      /\ import' = [import EXCEPT ![handler[h].import] = "CONFIRMED"]
  BY DEF ConfirmImport, Put, server
<1>2. /\ DOMAIN handler[h] = {"pc", "import", "rest"} /\ DOMAIN handler = Handlers
      /\ handler[h].import \in Imports
  BY <1>1, IdleHandler DEF Claims, HandlerOK, Confirming, Storing
<1>3. handler'[h] = [handler[h] EXCEPT !.pc = "audit"]
  BY <1>1, <1>2
<1>4. /\ DOMAIN handler'[h] = {"pc", "import", "rest"}
      /\ handler'[h].pc = "audit" /\ handler'[h].import = handler[h].import
  BY <1>2, <1>3
<1>5. HandlerOK(handler'[h])
  BY <1>2, <1>4 DEF HandlerOK, Confirming, Storing
<1>. QED
  BY <1>1, <1>3, <1>4, <1>5 DEF Confirmed, Confirming

(* The ends of an upload and of a run.                                     *)
Ends(h) ==
    \/ StorePreview(h) \/ RecordAudit(h) \/ ReleaseClaim(h)
    \/ RequestFails(h) /\ handler[h].pc # "remap"

LEMMA EndsLeaves ==
    ASSUME Claims, NEW h \in Handlers, Ends(h)
    PROVE  Leaves(h)
<1> DEFINE i == handler[h].import
<1>1. /\ handler[h].pc \in Confirming \cup {"preview"}
      /\ handler' = [handler EXCEPT ![h] = Idle] /\ UNCHANGED crashes
      /\ dropped \subseteq dropped'
  BY DEF Ends, StorePreview, RecordAudit, ReleaseClaim, RequestFails, Put, server, Confirming
<1>2. i \in Imports /\ Owns(h, i)
  BY <1>1 DEF Claims, HandlerOK, Idle, Owns, Confirming
<1>3. /\ DOMAIN import = Imports
      /\ import[i] \in OwnedAs(handler[h].pc)
  BY <1>2 DEF Claims
<1>4. /\ DOMAIN import' = Imports /\ \A j \in Imports \ {i} : import'[j] = import[j]
      /\ import'[i] # "PROCESSING" \/ i \in dropped'
      /\ import[i] = "CONFIRMED" => import'[i] = "CONFIRMED"
  <2>1. CASE StorePreview(h)
    <3>1. import[i] # "CONFIRMED"
      BY <1>3, <2>1 DEF StorePreview, OwnedAs
    <3>2. import' = [import EXCEPT ![i] = "PREVIEW_READY"]
      BY <2>1 DEF StorePreview
    <3>. QED
      BY <1>2, <1>3, <3>1, <3>2
  <2>2. CASE ReleaseClaim(h)
    <3>1. Released(import[i]) # "PROCESSING"
          /\ (import[i] = "CONFIRMED" => Released(import[i]) = "CONFIRMED")
      BY <1>3 DEF Released, OwnedAs
    <3>2. import' = [import EXCEPT ![i] = Released(import[i])]
      BY <2>2 DEF ReleaseClaim
    <3>. QED
      BY <1>2, <1>3, <3>1, <3>2
  <2>3. CASE RecordAudit(h)
    BY <1>3, <2>3 DEF RecordAudit, OwnedAs, tables
  <2>4. CASE RequestFails(h) /\ handler[h].pc # "remap"
    BY <1>3, <2>4 DEF RequestFails
  <2>. QED
    BY <2>1, <2>2, <2>3, <2>4 DEF Ends
<1>. QED
  BY <1>1, <1>3, <1>4 DEF Leaves

LEMMA RemapStandsBy ==
    ASSUME Claims, NEW h \in Handlers,
           \/ StoreRemap(h) \/ \E i \in Imports, m \in Mappings : StartRemap(h, i, m)
           \/ RequestFails(h) /\ handler[h].pc = "remap"
    PROVE  StandsBy(h)
<1>1. CASE StoreRemap(h) \/ (RequestFails(h) /\ handler[h].pc = "remap")
  BY <1>1, IdleHandler DEF StoreRemap, RequestFails, StandsBy, Put, server, Claims
<1>2. ASSUME NEW i \in Imports, NEW m \in Mappings, StartRemap(h, i, m)
      PROVE  StandsBy(h)
  <2> DEFINE rows == Validated(i, m)
  <2>1. /\ handler[h] = Idle /\ UNCHANGED <<import, crashes, dropped>>
        /\ handler' = [handler EXCEPT ![h] = [pc |-> "remap", import |-> i, rows |-> rows]]
    BY <1>2 DEF StartRemap, Accept, Put, tables, server
  <2>. HIDE DEF rows
  <2>. QED
    BY <2>1, IdleHandler DEF StandsBy, HandlerOK, Storing, Claims
<1>. QED
  BY <1>1, <1>2

(* The steps that only one handler takes, and what is left of Next.        *)
LEMMA NextIsOneOf ==
    ASSUME Claims, [Next]_vars
    PROVE  \/ \E h \in Handlers : GoesOn(h) \/ Confirmed(h) \/ Leaves(h) \/ StandsBy(h)
           \/ \E h \in Handlers, i \in Imports : Takes(h, i)
           \/ \E i \in Imports : CancelImport(i)
           \/ Crash
           \/ UNCHANGED <<import, handler, crashes, dropped>>
<1>1. CASE UNCHANGED vars
  BY <1>1 DEF vars, tables, server
<1>2. CASE \E h \in Handlers : Step(h) \/ RunFails(h) \/ RequestFails(h)
  BY <1>2, ProcessesGoesOn, ConfirmsConfirmed, EndsLeaves, RemapStandsBy
     DEF Step, Processes, Ends
<1>3. CASE \E h \in Handlers, i \in Imports :
             \/ Upload(h, i) \/ ClaimImport(h, i)
             \/ \E m \in Mappings : StartRemap(h, i, m)
  BY <1>3, ClaimTakes, UploadTakes, RemapStandsBy
<1>4. CASE Restart \/ MinutePasses \/ RepairFails \/ \E id \in Ids : RepairOne(id)
  BY <1>4 DEF Restart, MinutePasses, RepairFails, RepairOne, tables, server
<1>. QED
  BY <1>1, <1>2, <1>3, <1>4 DEF Next

LEMMA ClaimsInit == Init => Claims
BY IdleHandler DEF Init, Claims, Owns, Confirming

LEMMA ClaimsNext == Claims /\ [Next]_vars => Claims'
<1> SUFFICES ASSUME Claims, [Next]_vars PROVE Claims'
  OBVIOUS
<1>1. ASSUME NEW i \in Imports, CancelImport(i) PROVE Claims'
  <2>1. /\ import' = [import EXCEPT ![i] = "CANCELLED"] /\ import[i] # "CONFIRMED"
        /\ UNCHANGED <<handler, crashes, dropped>>
    BY <1>1 DEF CancelImport, Cancellable, server
  <2>. QED
    BY <2>1 DEF Claims, Owns, HandlerOK, OwnedAs
<1>2. CASE Crash
  <2>1. /\ handler' = [h \in Handlers |-> Idle] /\ import' = import
        /\ crashes' = crashes + 1
    BY <1>2 DEF Crash, tables
  <2>2. \A h \in Handlers, i \in Imports : ~Owns(h, i)'
    BY <2>1, IdleHandler DEF Owns, Confirming
  <2>3. (\A h \in Handlers : HandlerOK(handler[h]))'
    BY <2>1 DEF HandlerOK
  <2>4. crashes' # 0 /\ crashes' \in Nat
    BY <2>1 DEF Claims
  <2>. QED
    BY <2>1, <2>2, <2>3, <2>4 DEF Claims
<1>3. CASE UNCHANGED <<import, handler, crashes, dropped>>
  BY <1>3 DEF Claims, Owns, HandlerOK
<1>. QED
  BY <1>1, <1>2, <1>3, NextIsOneOf, TakesKeepsClaims, GoesOnKeepsClaims,
     ConfirmedKeepsClaims, LeavesKeepsClaims, StandsByKeepsClaims

(* "Two simultaneous confirms cannot both run (an atomic status claim)":   *)
(* OneRunAtATime for any number of requests and imports, with cancels,     *)
(* failures, re-maps and stops of the server anywhere.                     *)
THEOREM ConfirmRunsOnce == Spec => []OneRunAtATime
<1>1. Claims => OneRunAtATime
  BY DEF Claims, OneRunAtATime, Confirms, Runs, RunSteps, Owns, Confirming
<1>. QED
  BY ClaimsInit, ClaimsNext, <1>1, PTL DEF Spec

(* Until the server stops, an import that is PROCESSING is being uploaded  *)
(* or confirmed, unless an error outside every try block ended that: a run *)
(* that fails in confirmImport's try block gives its claim back, and one   *)
(* whose audit fails leaves the import confirmed.                          *)
THEOREM ClaimIsGivenBack == Spec => []NotWedged
<1>1. Claims => NotWedged
  BY IdleHandler DEF Claims, NotWedged, Runs, Owns, Confirming
<1>. QED
  BY ClaimsInit, ClaimsNext, <1>1, PTL DEF Spec

(* Both together: one run for an import that is PROCESSING.                *)
THEOREM OneRunWhileProcessing == Spec => []ProcessingIsOneRun
  BY ConfirmRunsOnce, ClaimIsGivenBack, PTL DEF ProcessingIsOneRun

(* A confirmed import is never cancelled, released or confirmed again.     *)
THEOREM ConfirmedStays == Spec => ConfirmedIsFinal
<1>1. ASSUME Claims, [Next]_vars
      PROVE  \A i \in Imports : import[i] = "CONFIRMED" => import'[i] = "CONFIRMED"
  <2>1. ASSUME NEW h \in Handlers, NEW j \in Imports, Takes(h, j)
        PROVE  \A i \in Imports : import[i] = "CONFIRMED" => import'[i] = "CONFIRMED"
    BY <1>1, <2>1 DEF Takes, Claims
  <2>2. ASSUME NEW h \in Handlers, Leaves(h)
        PROVE  \A i \in Imports : import[i] = "CONFIRMED" => import'[i] = "CONFIRMED"
    <3>1. handler[h].import \in Imports
      BY <1>1, <2>2 DEF Leaves, Claims, HandlerOK, Idle, Confirming
    <3>. QED
      BY <1>1, <2>2, <3>1 DEF Leaves, Claims
  <2>3. ASSUME NEW j \in Imports, CancelImport(j)
        PROVE  \A i \in Imports : import[i] = "CONFIRMED" => import'[i] = "CONFIRMED"
    BY <1>1, <2>3 DEF CancelImport, Cancellable, Claims
  <2>. QED
    BY <1>1, <2>1, <2>2, <2>3, NextIsOneOf
       DEF GoesOn, Confirmed, StandsBy, Crash, tables, Claims
<1>. QED
  BY ClaimsInit, ClaimsNext, <1>1, PTL DEF Spec, ConfirmedIsFinal
-----------------------------------------------------------------------------
(* What becomes of the rows.                                               *)

(* A set of row numbers has a least one: the sets 1 .. n are ordered as    *)
(* the numbers are, and being a strict subset is well-founded.             *)
LEMMA HasLeast ==
    ASSUME NEW T \in SUBSET Nat, T # {}
    PROVE  \E n \in T : \A m \in T : n <= m
<1> DEFINE U == {1 .. n : n \in T}
<1>1. U \subseteq FiniteSubsetsOf(Nat) /\ U # {}
  <2>1. \A n \in T : IsFiniteSet(1 .. n)
    BY FS_Interval
  <2>2. \A n \in T : 1 .. n \in SUBSET Nat
    OBVIOUS
  <2>. QED
    BY <2>1, <2>2 DEF FiniteSubsetsOf
<1>2. PICK x \in U : \A y \in U : <<y, x>> \notin StrictSubsetOrdering(Nat)
  <2>. HIDE DEF U
  <2>. QED
    BY <1>1, FS_StrictSubsetOrderingWellFounded, WFMin
<1>3. PICK n \in T : x = 1 .. n
  OBVIOUS
<1>4. ASSUME NEW m \in T, m < n
      PROVE  FALSE
  <2>1. 1 .. m \in U /\ 1 .. m \subseteq 1 .. n /\ n \in 1 .. n /\ n \notin 1 .. m
    BY <1>4
  <2>2. <<1 .. m, x>> \in StrictSubsetOrdering(Nat)
    BY <1>3, <2>1 DEF StrictSubsetOrdering
  <2>. QED
    BY <1>2, <2>1, <2>2
<1>. QED
  BY <1>3, <1>4

Todo == [row : RowNumbers, id : Ids]

LEMMA RowsAreNumbers ==
    /\ RowNumbers \subseteq Nat
    /\ \A r \in RowNumbers : \A q \in 1 .. (r - 1) : q \in RowNumbers
<1>1. Cardinality(RowNumbers) \in Nat /\ RowNumbers = 1 .. Cardinality(RowNumbers)
  BY ImportAssumption, FS_CardinalityType
<1>. HIDE DEF ImportAssumption
<1>. DEFINE n == Cardinality(RowNumbers)
<1>2. n \in Nat /\ RowNumbers = 1 .. n
  BY <1>1
<1>. HIDE DEF n
<1>. QED
  BY <1>2

LEMMA FirstIsIn ==
    ASSUME NEW rest \in SUBSET Todo, rest # {}
    PROVE  First(rest) \in rest
<1> DEFINE T == {e.row : e \in rest}
<1>1. T \in SUBSET Nat /\ T # {}
  BY RowsAreNumbers DEF Todo
<1>2. \E n \in T : \A m \in T : n <= m
  <2>. HIDE DEF T
  <2>. QED
    BY <1>1, HasLeast
<1>3. \E e \in rest : \A f \in rest : e.row <= f.row
  BY <1>2
<1>. QED
  BY <1>3 DEF First

(* The rows of a preview: what is valid has an id, and what is a duplicate *)
(* repeats a delivery or an earlier row.                                   *)
Repeats(rows, r, known) ==
    \/ rows[r].id \in known
    \/ \E q \in 1 .. (r - 1) : rows[q].id = rows[r].id

PreviewOK(rows, known) ==
    /\ rows \in [RowNumbers -> Row]
    /\ \A r \in RowNumbers :
         /\ rows[r].status # "IMPORTED"
         /\ rows[r].status = "VALID" => rows[r].id \in Ids
         /\ rows[r].status = "DUPLICATE" => Repeats(rows, r, known)

Known == {id \in Ids : Exists(id)}

(* What a confirming run still has to do: rows as they are in the preview, *)
(* and every valid one of them, unless the import was re-mapped under it.  *)
Left(x) == IF x.pc = "match" THEN x.rest \ {First(x.rest)} ELSE x.rest

RunOK(x, rows, hasLapped) ==
    /\ x.rest \in SUBSET Todo
    /\ x.pc \in {"create", "match"} => x.rest # {}
    /\ ~hasLapped =>
         /\ \A e \in x.rest : rows[e.row].id = e.id
         /\ x.pc \notin {"claimed", "load", "release"} => \A r \in RowNumbers :
                rows[r].status = "VALID" => \E e \in Left(x) : e.row = r

Settled(rows, known, isConfirmed) ==
    \A r \in RowNumbers :
        /\ isConfirmed => rows[r].status # "VALID"
        /\ rows[r].status = "DUPLICATE" => Repeats(rows, r, known)

HandlerBooks(x, rows, known, gone) ==
    /\ x.pc \in Storing => PreviewOK(x.rows, known)
    /\ x.pc \in Confirming => RunOK(x, rows[x.import], x.import \in gone)

RowBooks(rows, i, deliveries) ==
    \A r \in RowNumbers :
        /\ rows[r].status = "VALID" => rows[r].id \in Ids
        /\ rows[r].status = "IMPORTED" => \E id \in Ids : deliveries[id] = <<i, r>>

BookTypes     == DOMAIN saved = Ids /\ row \in [Imports -> [RowNumbers -> Row]]
RunsBooked    == \A h \in Handlers : HandlerBooks(handler[h], row, Known, lapped)
RowsBooked    == \A i \in Imports : RowBooks(row[i], i, saved)
ImportsBooked == \A i \in Imports \ lapped :
                     Settled(row[i], Known, import[i] = "CONFIRMED")

Books == BookTypes /\ RunsBooked /\ RowsBooked /\ ImportsBooked

LEMMA KnownGrows ==
    ASSUME NEW k, NEW l, k \subseteq l
    PROVE  /\ \A rows : PreviewOK(rows, k) => PreviewOK(rows, l)
           /\ \A rows : \A c \in BOOLEAN : Settled(rows, k, c) => Settled(rows, l, c)
<1>1. \A rows : \A r \in RowNumbers : Repeats(rows, r, k) => Repeats(rows, r, l)
  BY DEF Repeats
<1>. QED
  BY <1>1 DEF PreviewOK, Settled

(* Steps that change no row: a request begins, goes on or ends.            *)
LEMMA QuietBooks ==
    ASSUME Books, UNCHANGED <<row, saved, lapped>>,
           \A g \in Handlers : \/ handler'[g] = handler[g]
                               \/ HandlerBooks(handler'[g], row, Known, lapped),
           \A i \in Imports \ lapped : Settled(row[i], Known, import'[i] = "CONFIRMED")
    PROVE  Books'
<1>1. Known' = Known
  BY DEF Known, Exists
<1>2. RowsBooked' /\ BookTypes'
  BY DEF Books, RowsBooked, BookTypes
<1>3. RunsBooked'
  BY <1>1 DEF Books, RunsBooked
<1>4. ImportsBooked'
  BY <1>1 DEF ImportsBooked
<1>. QED
  BY <1>2, <1>3, <1>4 DEF Books

LEMMA ValidatedIsOK ==
    ASSUME NEW i \in Imports, NEW m \in Mappings
    PROVE  PreviewOK(Validated(i, m), Known)
<1> DEFINE file == Content[m][i]
           st(r) == IF file[r] = NoId THEN "MISSING_DATA"
                    ELSE IF Exists(file[r]) \/ \E q \in 1 .. (r - 1) : file[q] = file[r]
                      THEN "DUPLICATE" ELSE "VALID"
           rows == Validated(i, m)
<1>1. file \in [RowNumbers -> Ids \cup {NoId}] /\ NoId \notin Ids
  BY ImportAssumption
<1>2. /\ DOMAIN rows = RowNumbers
      /\ \A r \in RowNumbers : rows[r] = [id |-> file[r], status |-> st(r)]
  BY DEF Validated
<1>. HIDE DEF file, rows
<1>3. \A r \in RowNumbers : rows[r] \in Row /\ rows[r].id = file[r] /\ rows[r].status = st(r)
  <2> TAKE r \in RowNumbers
  <2>1. st(r) \in RowStatus
    BY DEF RowStatus
  <2>2. file[r] \in Ids \cup {NoId}
    BY <1>1
  <2>. HIDE DEF st
  <2>. QED
    BY <1>2, <2>1, <2>2 DEF Row
<1>4. rows \in [RowNumbers -> Row]
  <2>1. rows = [r \in RowNumbers |-> rows[r]]
    BY DEF rows, Validated
  <2>. QED
    BY <1>3, <2>1
<1>5. ASSUME NEW r \in RowNumbers
      PROVE  /\ rows[r].status # "IMPORTED"
             /\ rows[r].status = "VALID" => rows[r].id \in Ids
             /\ rows[r].status = "DUPLICATE" => Repeats(rows, r, Known)
  <2>1. rows[r].status # "IMPORTED"
    BY <1>3
  <2>2. rows[r].status = "VALID" => rows[r].id \in Ids
    BY <1>1, <1>3
  <2>3. ASSUME rows[r].status = "DUPLICATE" PROVE Repeats(rows, r, Known)
    <3>1. file[r] \in Ids /\ (Exists(file[r]) \/ \E q \in 1 .. (r - 1) : file[q] = file[r])
      BY <1>1, <1>3, <2>3
    <3>2. \A q \in 1 .. (r - 1) : rows[q].id = file[q]
      BY <1>3, RowsAreNumbers
    <3>. QED
      BY <1>3, <3>1, <3>2 DEF Repeats, Known
  <2>. QED
    BY <2>1, <2>2, <2>3
<1>. QED
  BY <1>4, <1>5 DEF PreviewOK, rows

(* A run is done with its first row: the row says what became of it.       *)
RowDone(h, x, st) ==
    LET i == handler[h].import
        e == First(handler[h].rest)
    IN  /\ handler[h].pc \in {"check", "create"} /\ handler[h].rest # {}
        /\ row' = [row EXCEPT ![i][e.row].status = st]
        /\ st \in {"DUPLICATE", "IMPORTED", "INVALID"}
        /\ st = "DUPLICATE" => e.id \in Known'
        /\ st = "IMPORTED" => saved'[e.id] = <<i, e.row>>
        /\ DOMAIN saved' = Ids /\ \A id \in Known : saved'[id] = saved[id]
        /\ Known \subseteq Known'
        /\ handler' = [handler EXCEPT ![h] = x]
        /\ x.import = i /\ x.rest \subseteq handler[h].rest
        /\ x.pc \in {"check", "match"} /\ (x.pc = "match" => x.rest # {})
        /\ handler[h].rest \ {e} \subseteq Left(x)
        /\ UNCHANGED <<import, lapped>>

LEMMA RowDoneBooks ==
    ASSUME Claims, Books, NEW h \in Handlers, NEW x, NEW st, RowDone(h, x, st)
    PROVE  Books'
<1> DEFINE i == handler[h].import
           e == First(handler[h].rest)
           r == e.row
<1>1. /\ i \in Imports /\ Owns(h, i) /\ handler[h].pc \in Confirming /\ DOMAIN handler = Handlers
      /\ \A g \in Handlers : Owns(g, i) => g = h
      /\ import[i] # "CONFIRMED"
  <2>1. handler[h].pc \in Confirming /\ HandlerOK(handler[h])
    BY DEF RowDone, Confirming, Claims
  <2>2. i \in Imports /\ Owns(h, i)
    BY <2>1, IdleHandler DEF HandlerOK, Owns, Confirming
  <2>3. OwnedAs(handler[h].pc) = {"PROCESSING", "CANCELLED"}
    BY DEF RowDone, OwnedAs
  <2>. QED
    BY <2>1, <2>2, <2>3 DEF Claims
<1>2. RunOK(handler[h], row[i], i \in lapped)
  BY <1>1 DEF Books, RunsBooked, HandlerBooks
<1>3. e \in handler[h].rest /\ e \in Todo /\ handler[h].rest \in SUBSET Todo
  BY <1>2, FirstIsIn DEF RunOK, RowDone
<1>4. r \in RowNumbers /\ e.id \in Ids
  BY <1>3 DEF Todo
<1>5. /\ row \in [Imports -> [RowNumbers -> Row]]
      /\ row' = [row EXCEPT ![i][r].status = st]
      /\ st \in {"DUPLICATE", "IMPORTED", "INVALID"}
  BY DEF RowDone, Books, BookTypes
<1>. DEFINE old == row[i]
            new == row'[i]
<1>6. /\ row' \in [Imports -> [RowNumbers -> Row]]
      /\ \A j \in Imports : j # i => row'[j] = row[j]
      /\ new \in [RowNumbers -> Row]
      /\ \A q \in RowNumbers : new[q].id = old[q].id
      /\ \A q \in RowNumbers : q # r => new[q] = old[q]
      /\ new[r].status = st
  <2>1. old \in [RowNumbers -> Row]
    BY <1>1, <1>5
  <2>2. new = [old EXCEPT ![r].status = st]
    BY <1>1, <1>5
  <2>3. \A j \in Imports : j # i => row'[j] = row[j]
    BY <1>1, <1>5
  <2>. HIDE DEF old, new
  <2>4. old[r] \in Row
    BY <1>4, <2>1
  <2>5. new[r] = [old[r] EXCEPT !.status = st] /\ \A q \in RowNumbers : q # r => new[q] = old[q]
    BY <1>4, <2>1, <2>2
  <2>6. new[r] \in Row /\ new[r].status = st /\ new[r].id = old[r].id
    BY <1>5, <2>4, <2>5 DEF Row, RowStatus
  <2>7. new \in [RowNumbers -> Row]
    BY <2>1, <2>2, <2>5, <2>6
  <2>8. row' \in [Imports -> [RowNumbers -> Row]]
    <3>1. row' = [j \in Imports |-> row'[j]]
      BY <1>5
    <3>2. \A j \in Imports : row'[j] \in [RowNumbers -> Row]
      BY <1>1, <1>5, <2>3, <2>7 DEF new
    <3>. QED
      BY <3>1, <3>2
  <2>. QED
    BY <2>3, <2>5, <2>6, <2>7, <2>8
<1>. DEFINE y == handler[h]
<1>7. /\ y.pc \in {"check", "create"} /\ y.rest # {}
      /\ (st = "DUPLICATE" => e.id \in Known') /\ (st = "IMPORTED" => saved'[e.id] = <<i, r>>)
      /\ DOMAIN saved' = Ids /\ (\A id \in Known : saved'[id] = saved[id])
      /\ Known \subseteq Known'
      /\ handler' = [handler EXCEPT ![h] = x]
      /\ x.import = i /\ x.rest \subseteq y.rest
      /\ x.pc \in {"check", "match"} /\ (x.pc = "match" => x.rest # {})
      /\ y.rest \ {e} \subseteq Left(x)
      /\ UNCHANGED <<import, lapped>>
  BY DEF RowDone
<1>8. i \notin lapped => /\ \A f \in y.rest : old[f.row].id = f.id
                         /\ \A q \in RowNumbers : old[q].status = "VALID" =>
                              \E f \in y.rest : f.row = q
  BY <1>2, <1>7 DEF RunOK, Left
<1>9. RowBooks(old, i, saved) /\ (i \notin lapped => Settled(old, Known, FALSE))
  BY <1>1 DEF Books, RowsBooked, ImportsBooked
<1>10. \A j \in Imports : RowBooks(row[j], j, saved)
  BY DEF Books, RowsBooked
<1>. HIDE DEF i, e, r, old, new
<1>11. RowsBooked'
  <2>1. ASSUME NEW j \in Imports, NEW id \in Ids, NEW q, saved[id] = <<j, q>>
        PROVE  saved'[id] = <<j, q>>
    BY <1>7, <2>1 DEF Known, Exists, None
  <2>2. ASSUME NEW j \in Imports, j # i
        PROVE  RowBooks(row'[j], j, saved')
    BY <1>6, <1>10, <2>1, <2>2 DEF RowBooks
  <2>3. RowBooks(new, i, saved')
    <3>1. ASSUME NEW q \in RowNumbers
          PROVE  /\ new[q].status = "VALID" => new[q].id \in Ids
                 /\ new[q].status = "IMPORTED" => \E id \in Ids : saved'[id] = <<i, q>>
      <4>1. CASE q = r
        BY <1>4, <1>5, <1>6, <1>7, <4>1
      <4>2. CASE q # r
        BY <1>1, <1>6, <1>9, <2>1, <4>2 DEF RowBooks
      <4>. QED
        BY <4>1, <4>2
    <3>. QED
      BY <3>1 DEF RowBooks
  <2>. QED
    BY <2>2, <2>3 DEF RowsBooked, new
<1>12. ImportsBooked'
  <2>1. ASSUME NEW j \in Imports \ lapped, j # i
        PROVE  Settled(row'[j], Known', import'[j] = "CONFIRMED")
    BY <1>6, <1>7, <2>1, KnownGrows DEF Books, ImportsBooked
  <2>2. ASSUME i \notin lapped
        PROVE  Settled(new, Known', FALSE)
    <3>1. \A q \in RowNumbers : Repeats(old, q, Known) => Repeats(new, q, Known')
      BY <1>6, <1>7, RowsAreNumbers DEF Repeats
    <3>2. st = "DUPLICATE" => Repeats(new, r, Known')
      BY <1>3, <1>4, <1>6, <1>7, <1>8, <2>2 DEF Repeats, r
    <3>3. \A q \in RowNumbers : old[q].status = "DUPLICATE" => Repeats(old, q, Known)
      BY <1>9, <2>2 DEF Settled
    <3>. QED
      BY <1>4, <1>6, <3>1, <3>2, <3>3 DEF Settled
  <2>. QED
    BY <1>1, <1>7, <2>1, <2>2 DEF ImportsBooked, new
<1>13. RunsBooked'
  <2>1. ASSUME NEW g \in Handlers, g # h
        PROVE  HandlerBooks(handler'[g], row', Known', lapped')
    <3>1. handler'[g] = handler[g] /\ HandlerBooks(handler[g], row, Known, lapped)
      BY <1>7, <2>1 DEF Books, RunsBooked
    <3>2. handler[g].pc \in Confirming => handler[g].import # i /\ handler[g].import \in Imports
      BY <1>1, <2>1, IdleHandler DEF Owns, Claims, HandlerOK, Confirming
    <3>3. handler[g].pc \in Confirming => row'[handler[g].import] = row[handler[g].import]
      BY <1>6, <3>2
    <3>. QED
      BY <1>7, <3>1, <3>3, KnownGrows DEF HandlerBooks
  <2>2. HandlerBooks(x, row', Known', lapped')
    <3>1. x.pc \in Confirming /\ x.pc \notin Storing
      BY <1>7 DEF Confirming, Storing
    <3>2. \A f \in y.rest : f.row \in RowNumbers
      BY <1>3 DEF Todo
    <3>3. ASSUME i \notin lapped
          PROVE  /\ \A f \in x.rest : new[f.row].id = f.id
                 /\ \A q \in RowNumbers : new[q].status = "VALID" => \E f \in Left(x) : f.row = q
      <4>1. \A f \in x.rest : new[f.row].id = f.id
        BY <1>6, <1>7, <1>8, <3>2, <3>3
      <4>2. ASSUME NEW q \in RowNumbers, new[q].status = "VALID"
            PROVE  \E f \in Left(x) : f.row = q
        <5>1. q # r /\ old[q].status = "VALID"
          BY <1>5, <1>6, <4>2
        <5>2. PICK f \in y.rest : f.row = q
          BY <1>8, <3>3, <5>1
        <5>3. f # e
          BY <5>1, <5>2 DEF r
        <5>. QED
          BY <1>7, <5>2, <5>3
      <4>. QED
        BY <4>1, <4>2
    <3>4. RunOK(x, new, i \in lapped)
      BY <1>3, <1>7, <3>3 DEF RunOK
    <3>. QED
      BY <1>7, <3>1, <3>4 DEF HandlerBooks, new
  <2>3. handler'[h] = x
    BY <1>1, <1>7
  <2>. QED
    BY <2>1, <2>2, <2>3 DEF RunsBooked
<1>14. BookTypes'
  BY <1>6, <1>7 DEF BookTypes
<1>. QED
  BY <1>11, <1>12, <1>13, <1>14 DEF Books

(* A preview or a re-map is stored.  No run has the rows, or the import    *)
(* counts as lapped from now on.                                           *)
StoresRows(h) ==
    LET i == handler[h].import IN
    /\ handler[h].pc \in Storing
    /\ row' = [row EXCEPT ![i] = handler[h].rows]
    /\ handler' = [handler EXCEPT ![h] = Idle]
    /\ UNCHANGED saved /\ lapped \subseteq lapped' /\ lapped' \subseteq lapped \cup {i}
    /\ i \notin lapped' => /\ import'[i] # "CONFIRMED"
                           /\ \A g \in Handlers \ {h} : ~Owns(g, i)
    /\ \A j \in Imports \ {i} : import'[j] = import[j]

LEMMA StoresRowsBooks ==
    ASSUME Claims, Books, NEW h \in Handlers, StoresRows(h)
    PROVE  Books'
<1> DEFINE i == handler[h].import
           rows == handler[h].rows
<1>1. i \in Imports /\ DOMAIN handler = Handlers
  <2>1. HandlerOK(handler[h]) /\ handler[h].pc # "idle"
    BY DEF StoresRows, Claims, Storing
  <2>. QED
    BY <2>1, IdleHandler DEF HandlerOK, Claims
<1>2. PreviewOK(rows, Known)
  BY DEF StoresRows, Books, RunsBooked, HandlerBooks
<1>3. /\ row' = [row EXCEPT ![i] = rows] /\ handler' = [handler EXCEPT ![h] = Idle]
      /\ UNCHANGED saved /\ lapped \subseteq lapped' /\ lapped' \subseteq lapped \cup {i}
      /\ (i \notin lapped' => /\ import'[i] # "CONFIRMED"
                              /\ \A g \in Handlers \ {h} : ~Owns(g, i))
      /\ \A j \in Imports \ {i} : import'[j] = import[j]
  BY DEF StoresRows
<1>. HIDE DEF i, rows
<1>4. rows \in [RowNumbers -> Row]
  BY <1>2 DEF PreviewOK
<1>5. /\ row' \in [Imports -> [RowNumbers -> Row]] /\ row'[i] = rows
      /\ \A j \in Imports : j # i => row'[j] = row[j]
  BY <1>1, <1>3, <1>4 DEF Books, BookTypes
<1>6. Known' = Known
  BY <1>3 DEF Known, Exists
<1>7. BookTypes'
  BY <1>3, <1>5 DEF Books, BookTypes
<1>8. RowsBooked'
  <2>1. RowBooks(rows, i, saved)
    BY <1>2 DEF PreviewOK, RowBooks
  <2>2. \A j \in Imports : RowBooks(row'[j], j, saved')
    BY <1>3, <1>5, <2>1 DEF Books, RowsBooked
  <2>. QED
    BY <2>2 DEF RowsBooked
<1>9. ImportsBooked'
  <2>1. i \notin lapped' => Settled(rows, Known, import'[i] = "CONFIRMED")
    BY <1>2, <1>3 DEF PreviewOK, Settled
  <2>2. ASSUME NEW j \in Imports \ lapped'
        PROVE  Settled(row'[j], Known', import'[j] = "CONFIRMED")
    <3>1. CASE j = i
      BY <1>5, <1>6, <2>1, <2>2, <3>1
    <3>2. CASE j # i
      BY <1>3, <1>5, <1>6, <2>2, <3>2 DEF Books, ImportsBooked
    <3>. QED
      BY <3>1, <3>2
  <2>. QED
    BY <2>2 DEF ImportsBooked
<1>10. RunsBooked'
  <2>1. HandlerBooks(Idle, row', Known', lapped')
    BY IdleHandler DEF HandlerBooks, Storing, Confirming
  <2>2. ASSUME NEW g \in Handlers, g # h
        PROVE  HandlerBooks(handler[g], row', Known', lapped')
    <3>1. HandlerBooks(handler[g], row, Known, lapped)
      BY DEF Books, RunsBooked
    <3>2. ASSUME handler[g].pc \in Confirming
          PROVE  RunOK(handler[g], row'[handler[g].import], handler[g].import \in lapped')
      <4>1. RunOK(handler[g], row[handler[g].import], handler[g].import \in lapped)
        BY <3>1, <3>2 DEF HandlerBooks
      <4>2. handler[g].import \in Imports
        BY <3>2, IdleHandler DEF Claims, HandlerOK, Confirming
      <4>3. CASE handler[g].import = i
        <5>1. Owns(g, i)
          BY <3>2, <4>3 DEF Owns
        <5>2. i \in lapped'
          BY <1>3, <2>2, <5>1
        <5>. QED
          BY <4>1, <4>3, <5>2 DEF RunOK
      <4>4. CASE handler[g].import # i
        BY <1>3, <1>5, <4>1, <4>2, <4>4 DEF RunOK
      <4>. QED
        BY <4>3, <4>4
    <3>. QED
      BY <1>6, <3>1, <3>2 DEF HandlerBooks
  <2>3. \A g \in Handlers : handler'[g] = IF g = h THEN Idle ELSE handler[g]
    BY <1>1, <1>3
  <2>. QED
    BY <2>1, <2>2, <2>3 DEF RunsBooked
<1>. QED
  BY <1>7, <1>8, <1>9, <1>10 DEF Books

-----------------------------------------------------------------------------
(* Every action is one of these.                                           *)

(* What is known of a confirming run in the books.                         *)
LEMMA RunIsBooked ==
    ASSUME Claims, Books, NEW h \in Handlers, handler[h].pc \in Confirming
    PROVE  /\ DOMAIN handler[h] = {"pc", "import", "rest"} /\ DOMAIN handler = Handlers
           /\ handler[h].import \in Imports /\ Owns(h, handler[h].import)
           /\ handler[h].rest \in SUBSET Todo
           /\ RunOK(handler[h], row[handler[h].import], handler[h].import \in lapped)
<1>1. HandlerOK(handler[h]) /\ HandlerBooks(handler[h], row, Known, lapped) /\ DOMAIN handler = Handlers
  BY DEF Claims, Books, RunsBooked
<1>2. RunOK(handler[h], row[handler[h].import], handler[h].import \in lapped)
  BY <1>1 DEF HandlerBooks
<1>3. handler[h].rest \in SUBSET Todo
  BY <1>2 DEF RunOK
<1>. QED
  BY <1>1, <1>2, <1>3, IdleHandler DEF HandlerOK, Confirming, Storing, Owns

LEMMA StoresBooks ==
    ASSUME Claims, Books, NEW h \in Handlers,
           StorePreview(h) \/ StoreRemap(h) \/ (RequestFails(h) /\ row' # row)
    PROVE  Books'
<1> DEFINE i == handler[h].import
<1>1. DOMAIN import = Imports /\ i \in Imports
  <2>1. HandlerOK(handler[h]) /\ handler[h].pc # "idle"
    BY DEF StorePreview, StoreRemap, RequestFails, Claims
  <2>. QED
    BY <2>1, IdleHandler DEF HandlerOK, Claims
<1>2. CASE StorePreview(h) \/ (RequestFails(h) /\ row' # row)
  <2>1. /\ handler[h].pc = "preview" /\ UNCHANGED <<saved, lapped>>
        /\ row' = [row EXCEPT ![i] = handler[h].rows]
        /\ handler' = [handler EXCEPT ![h] = Idle]
        /\ import' = [import EXCEPT ![i] = "PREVIEW_READY"] \/ import' = import
    BY <1>2 DEF StorePreview, RequestFails, Put, server
  <2>2. Owns(h, i) /\ OwnedAs("preview") = {"PROCESSING", "CANCELLED"}
    BY <1>1, <2>1 DEF Owns, OwnedAs
  <2>3. import[i] # "CONFIRMED" /\ \A g \in Handlers \ {h} : ~Owns(g, i)
    BY <1>1, <2>1, <2>2 DEF Claims
  <2>4. import'[i] # "CONFIRMED" /\ \A j \in Imports \ {i} : import'[j] = import[j]
    BY <1>1, <2>1, <2>3
  <2>5. StoresRows(h)
    BY <2>1, <2>3, <2>4 DEF StoresRows, Storing
  <2>. QED
    BY <2>5, StoresRowsBooks
<1>3. CASE StoreRemap(h)
  <2>1. import[i] = "PREVIEW_READY" => \A g \in Handlers : ~Owns(g, i)
    BY <1>1 DEF Claims, OwnedAs
  <2>2. lapped' = IF import[i] = "PREVIEW_READY" THEN lapped ELSE lapped \cup {i}
    BY <1>3 DEF StoreRemap
  <2>3. handler[h].pc \in Storing
    BY <1>3 DEF StoreRemap, Storing
  <2>4. StoresRows(h)
    BY <1>3, <2>1, <2>2, <2>3 DEF StoreRemap, StoresRows, Put
  <2>. QED
    BY <2>4, StoresRowsBooks
<1>. QED
  BY <1>2, <1>3

LEMMA CheckBooks ==
    ASSUME Claims, Books, NEW h \in Handlers, CheckRow(h)
    PROVE  Books'
<1> DEFINE y == handler[h]
           e == First(y.rest)
<1>1. y.pc = "check" /\ y.rest # {} /\ UNCHANGED <<import, saved, lapped>>
  BY DEF CheckRow, server
<1>2. y.pc \in Confirming
  BY <1>1 DEF Confirming
<1>3. /\ DOMAIN y = {"pc", "import", "rest"} /\ DOMAIN handler = Handlers
      /\ y.rest \in SUBSET Todo /\ y.import \in Imports
      /\ RunOK(y, row[y.import], y.import \in lapped)
  BY <1>2, RunIsBooked
<1>4. e \in y.rest /\ e \in Todo
  BY <1>1, <1>3, FirstIsIn
<1>5. Known' = Known /\ DOMAIN saved' = Ids
  BY <1>1 DEF Known, Exists, Books, BookTypes
<1>6. CASE Exists(e.id)
  <2> DEFINE x == [y EXCEPT !.pc = "check", !.rest = y.rest \ {e}]
  <2>1. row' = [row EXCEPT ![y.import][e.row].status = "DUPLICATE"]
        /\ handler' = [handler EXCEPT ![h] = x]
    BY <1>6 DEF CheckRow, SetRow, Put, NextRow, Current
  <2>2. x.pc = "check" /\ x.import = y.import /\ x.rest = y.rest \ {e}
    BY <1>3
  <2>3. Left(x) = y.rest \ {e}
    BY <2>2 DEF Left
  <2>4. e.id \in Known
    BY <1>4, <1>6 DEF Known, Todo
  <2>. HIDE DEF x
  <2>5. RowDone(h, x, "DUPLICATE")
    BY <1>1, <1>5, <2>1, <2>2, <2>3, <2>4 DEF RowDone
  <2>. QED
    BY <2>5, RowDoneBooks
<1>7. CASE ~Exists(e.id)
  <2> DEFINE x == [y EXCEPT !.pc = "create"]
  <2>1. handler' = [handler EXCEPT ![h] = x] /\ UNCHANGED row
    BY <1>7 DEF CheckRow, Put, Current
  <2>2. x.pc = "create" /\ x.import = y.import /\ x.rest = y.rest
    BY <1>3
  <2>. HIDE DEF x
  <2>3. RunOK(x, row[y.import], y.import \in lapped)
    BY <1>1, <1>3, <2>2 DEF RunOK, Left
  <2>4. HandlerBooks(x, row, Known, lapped)
    BY <2>2, <2>3 DEF HandlerBooks, Storing
  <2>5. \A g \in Handlers : handler'[g] = IF g = h THEN x ELSE handler[g]
    BY <1>3, <2>1
  <2>6. \A i \in Imports \ lapped : Settled(row[i], Known, import'[i] = "CONFIRMED")
    BY <1>1 DEF Books, ImportsBooked
  <2>. QED
    BY <1>1, <2>1, <2>4, <2>5, <2>6, QuietBooks
<1>. QED
  BY <1>6, <1>7

LEMMA CreateBooks ==
    ASSUME Claims, Books, NEW h \in Handlers, CreateDelivery(h)
    PROVE  Books'
<1> DEFINE y == handler[h]
           e == First(y.rest)
<1>1. y.pc = "create" /\ UNCHANGED <<import, lapped>>
  BY DEF CreateDelivery, server
<1>2. y.pc \in Confirming
  BY <1>1 DEF Confirming
<1>3. /\ DOMAIN y = {"pc", "import", "rest"} /\ DOMAIN handler = Handlers
      /\ y.rest \in SUBSET Todo /\ y.import \in Imports
      /\ RunOK(y, row[y.import], y.import \in lapped)
  BY <1>2, RunIsBooked
<1>4. y.rest # {} /\ e \in y.rest /\ e \in Todo
  <2>1. y.rest # {}
    BY <1>1, <1>3 DEF RunOK
  <2>. QED
    BY <1>3, <2>1, FirstIsIn
<1>5. DOMAIN saved = Ids /\ e.id \in Ids
  BY <1>4 DEF Books, BookTypes, Todo
<1>6. CASE /\ ~Exists(e.id)
           /\ saved' = [saved EXCEPT ![e.id] = <<y.import, e.row>>]
           /\ SetRow(h, "IMPORTED")
           /\ Put(h, [y EXCEPT !.pc = "match"])
  <2> DEFINE x == [y EXCEPT !.pc = "match"]
  <2>1. /\ row' = [row EXCEPT ![y.import][e.row].status = "IMPORTED"]
        /\ handler' = [handler EXCEPT ![h] = x]
    BY <1>6 DEF SetRow, Put, Current
  <2>2. x.pc = "match" /\ x.import = y.import /\ x.rest = y.rest
    BY <1>3
  <2>3. Left(x) = y.rest \ {e}
    BY <2>2 DEF Left
  <2>. HIDE DEF x
  <2>4. /\ DOMAIN saved' = Ids /\ saved'[e.id] = <<y.import, e.row>>
        /\ \A id \in Known : saved'[id] = saved[id]
    BY <1>5, <1>6 DEF Known
  <2>5. Known \subseteq Known'
    BY <2>4 DEF Known, Exists
  <2>6. RowDone(h, x, "IMPORTED")
    BY <1>1, <1>4, <2>1, <2>2, <2>3, <2>4, <2>5 DEF RowDone
  <2>. QED
    BY <2>6, RowDoneBooks
<1>7. CASE SetRow(h, FailedRow) /\ Put(h, NextRow(h)) /\ UNCHANGED saved
  <2> DEFINE x == [y EXCEPT !.pc = "check", !.rest = y.rest \ {e}]
  <2>1. /\ row' = [row EXCEPT ![y.import][e.row].status = "INVALID"]
        /\ handler' = [handler EXCEPT ![h] = x]
    BY <1>7 DEF SetRow, Put, NextRow, Current, FailedRow
  <2>2. x.pc = "check" /\ x.import = y.import /\ x.rest = y.rest \ {e}
    BY <1>3
  <2>3. Left(x) = y.rest \ {e}
    BY <2>2 DEF Left
  <2>4. Known' = Known /\ DOMAIN saved' = Ids
    BY <1>5, <1>7 DEF Known, Exists
  <2>. HIDE DEF x
  <2>5. RowDone(h, x, "INVALID")
    BY <1>1, <1>4, <1>7, <2>1, <2>2, <2>3, <2>4 DEF RowDone
  <2>. QED
    BY <2>5, RowDoneBooks
<1>. QED
  BY <1>6, <1>7 DEF CreateDelivery, Current

(* A run goes on without touching a row.                                   *)
LEMMA RunBooks ==
    ASSUME Claims, Books, NEW h \in Handlers,
           ReadImport(h) \/ LoadValidRows(h) \/ MatchDelivery(h) \/ RunFails(h)
    PROVE  Books'
<1> DEFINE y == handler[h]
<1>1. y.pc \in Confirming /\ UNCHANGED <<import, row, saved, lapped>>
  BY DEF ReadImport, LoadValidRows, MatchDelivery, RunFails, tables, server, Confirming
<1>2. /\ DOMAIN y = {"pc", "import", "rest"} /\ DOMAIN handler = Handlers
      /\ y.rest \in SUBSET Todo /\ y.import \in Imports
      /\ RunOK(y, row[y.import], y.import \in lapped)
  BY <1>1, RunIsBooked
<1>3. ASSUME NEW x, handler' = [handler EXCEPT ![h] = x], x.pc \in {"check", "load", "release"},
             x.import = y.import, RunOK(x, row[y.import], y.import \in lapped)
      PROVE  Books'
  <2>1. HandlerBooks(x, row, Known, lapped)
    BY <1>3 DEF HandlerBooks, Storing
  <2>2. \A g \in Handlers : handler'[g] = IF g = h THEN x ELSE handler[g]
    BY <1>2, <1>3
  <2>3. \A i \in Imports \ lapped : Settled(row[i], Known, import'[i] = "CONFIRMED")
    BY <1>1 DEF Books, ImportsBooked
  <2>. QED
    BY <1>1, <2>1, <2>2, <2>3, QuietBooks
<1>4. CASE LoadValidRows(h)
  <2> DEFINE rest == ValidRows(y.import)
             x == [y EXCEPT !.pc = "check", !.rest = rest]
  <2>1. handler' = [handler EXCEPT ![h] = x]
    BY <1>4 DEF LoadValidRows, Put, RowsToImport
  <2>2. x.pc = "check" /\ x.import = y.import /\ x.rest = rest
    BY <1>2
  <2>3. RowBooks(row[y.import], y.import, saved)
    BY <1>2 DEF Books, RowsBooked
  <2>4. /\ rest \in SUBSET Todo
        /\ \A e \in rest : row[y.import][e.row].id = e.id
        /\ \A r \in RowNumbers : row[y.import][r].status = "VALID" => \E e \in rest : e.row = r
    <3> DEFINE old == row[y.import]
               e(r) == [row |-> r, id |-> old[r].id]
    <3>1. rest = {e(r) : r \in {q \in RowNumbers : old[q].status = "VALID"}}
      BY DEF ValidRows
    <3>2. \A r \in RowNumbers : /\ e(r).row = r /\ e(r).id = old[r].id
                                /\ old[r].status = "VALID" => e(r) \in Todo
      BY <2>3 DEF RowBooks, Todo
    <3>. HIDE DEF rest, old, e
    <3>3. rest \in SUBSET Todo
      BY <3>1, <3>2
    <3>4. \A f \in rest : old[f.row].id = f.id
      BY <3>1, <3>2
    <3>5. \A r \in RowNumbers : old[r].status = "VALID" => \E f \in rest : f.row = r
      BY <3>1, <3>2
    <3>. QED
      BY <3>3, <3>4, <3>5 DEF old
  <2>5. Left(x) = x.rest
    BY <2>2 DEF Left
  <2>. HIDE DEF rest, x
  <2>6. RunOK(x, row[y.import], y.import \in lapped)
    BY <2>2, <2>4, <2>5 DEF RunOK
  <2>. QED
    BY <1>3, <2>1, <2>2, <2>6
<1>5. CASE MatchDelivery(h)
  <2> DEFINE e == First(y.rest)
             x == [y EXCEPT !.pc = "check", !.rest = y.rest \ {e}]
  <2>1. y.pc = "match" /\ handler' = [handler EXCEPT ![h] = x]
    BY <1>5 DEF MatchDelivery, Put, NextRow, Current
  <2>2. x.pc = "check" /\ x.import = y.import /\ x.rest = y.rest \ {e}
    BY <1>2
  <2>3. Left(y) = y.rest \ {e} /\ Left(x) = x.rest
    BY <2>1, <2>2 DEF Left
  <2>. HIDE DEF e, x
  <2>4. RunOK(x, row[y.import], y.import \in lapped)
    BY <1>2, <2>1, <2>2, <2>3 DEF RunOK
  <2>. QED
    BY <1>3, <2>1, <2>2, <2>4
<1>6. CASE ReadImport(h)
  <2> DEFINE x == [y EXCEPT !.pc = "load"]
  <2>1. handler' = [handler EXCEPT ![h] = x]
    BY <1>6 DEF ReadImport, Put
  <2>2. x.pc = "load" /\ x.import = y.import /\ x.rest = y.rest
    BY <1>2
  <2>. HIDE DEF x
  <2>3. RunOK(x, row[y.import], y.import \in lapped)
    BY <1>2, <2>2 DEF RunOK
  <2>. QED
    BY <1>3, <2>1, <2>2, <2>3
<1>7. CASE RunFails(h)
  <2> DEFINE x == [y EXCEPT !.pc = "release", !.rest = {}]
  <2>1. handler' = [handler EXCEPT ![h] = x]
    BY <1>7 DEF RunFails, Put
  <2>2. x.pc = "release" /\ x.import = y.import /\ x.rest = {}
    BY <1>2
  <2>. HIDE DEF x
  <2>3. RunOK(x, row[y.import], y.import \in lapped)
    BY <2>2 DEF RunOK
  <2>. QED
    BY <1>3, <2>1, <2>2, <2>3
<1>. QED
  BY <1>4, <1>5, <1>6, <1>7

(* A request begins with a preview or an empty list; a run ends only when  *)
(* nothing is left, or gives its claim back.                               *)
LEMMA BeginsBooks ==
    ASSUME Claims, Books, NEW h \in Handlers, NEW i \in Imports,
           Upload(h, i) \/ ClaimImport(h, i) \/ \E m \in Mappings : StartRemap(h, i, m)
    PROVE  Books'
<1>1. UNCHANGED <<row, saved, lapped>> /\ DOMAIN handler = Handlers
  BY DEF Upload, ClaimImport, StartRemap, tables, server, Claims
<1>2. \A j \in Imports : import'[j] = "CONFIRMED" => import[j] = "CONFIRMED"
  BY DEF Upload, ClaimImport, StartRemap, tables, Claims
<1>3. ASSUME NEW x, HandlerBooks(x, row, Known, lapped), handler' = [handler EXCEPT ![h] = x]
      PROVE  Books'
  <2>1. \A g \in Handlers : handler'[g] = IF g = h THEN x ELSE handler[g]
    BY <1>1, <1>3
  <2>2. \A j \in Imports \ lapped : Settled(row[j], Known, import'[j] = "CONFIRMED")
    BY <1>2 DEF Books, ImportsBooked, Settled
  <2>. QED
    BY <1>1, <1>3, <2>1, <2>2, QuietBooks
<1>4. ASSUME NEW pc \in Storing, NEW rows, PreviewOK(rows, Known),
             Put(h, [pc |-> pc, import |-> i, rows |-> rows])
      PROVE  Books'
  <2> DEFINE x == [pc |-> pc, import |-> i, rows |-> rows]
  <2>1. x.pc = pc /\ x.rows = rows /\ handler' = [handler EXCEPT ![h] = x]
    BY <1>4 DEF Put
  <2>. HIDE DEF x
  <2>2. HandlerBooks(x, row, Known, lapped)
    BY <1>4, <2>1 DEF HandlerBooks, Storing, Confirming
  <2>. QED
    BY <1>3, <2>1, <2>2
<1>5. CASE Upload(h, i)
  BY <1>4, <1>5, ValidatedIsOK, ImportAssumption DEF Upload, Storing
<1>6. ASSUME NEW m \in Mappings, StartRemap(h, i, m)
      PROVE  Books'
  BY <1>4, <1>6, ValidatedIsOK DEF StartRemap, Storing
<1>7. CASE ClaimImport(h, i)
  <2> DEFINE x == [pc |-> "claimed", import |-> i, rest |-> {}]
  <2>1. x.pc = "claimed" /\ x.import = i /\ x.rest = {} /\ handler' = [handler EXCEPT ![h] = x]
    BY <1>7 DEF ClaimImport, Put
  <2>. HIDE DEF x
  <2>2. HandlerBooks(x, row, Known, lapped)
    BY <2>1 DEF HandlerBooks, RunOK, Storing, Confirming
  <2>. QED
    BY <1>3, <2>1, <2>2
<1>. QED
  BY <1>5, <1>6, <1>7

LEMMA ConfirmBooks ==
    ASSUME Claims, Books, NEW h \in Handlers, ConfirmImport(h)
    PROVE  Books'
<1> DEFINE y == handler[h]
           i == y.import
           x == [y EXCEPT !.pc = "audit"]
<1>1. /\ y.pc = "check" /\ y.rest = {} /\ UNCHANGED <<row, saved, lapped>>
      /\ handler' = [handler EXCEPT ![h] = x]
      /\ import' = [import EXCEPT ![i] = "CONFIRMED"]
  BY DEF ConfirmImport, Put, server
<1>2. /\ DOMAIN handler = Handlers /\ i \in Imports /\ DOMAIN import = Imports
      /\ DOMAIN y = {"pc", "import", "rest"}
      /\ RunOK(y, row[i], i \in lapped)
  BY <1>1, RunIsBooked DEF Confirming, Claims
<1>3. x.pc = "audit" /\ x.import = i /\ x.rest = {}
  BY <1>1, <1>2
<1>. HIDE DEF x
<1>4. Left(y) = {} /\ Left(x) = {}
  BY <1>1, <1>3 DEF Left
<1>5. i \notin lapped => \A r \in RowNumbers : row[i][r].status # "VALID"
  BY <1>1, <1>2, <1>4 DEF RunOK
<1>6. RunOK(x, row[i], i \in lapped)
  BY <1>3, <1>4, <1>5 DEF RunOK
<1>7. HandlerBooks(x, row, Known, lapped)
  BY <1>3, <1>6 DEF HandlerBooks, Storing
<1>8. \A g \in Handlers : handler'[g] = IF g = h THEN x ELSE handler[g]
  BY <1>1, <1>2
<1>9. i \notin lapped => Settled(row[i], Known, import'[i] = "CONFIRMED")
  BY <1>2, <1>5 DEF Books, ImportsBooked, Settled
<1>10. \A j \in Imports : j # i => import'[j] = import[j]
  BY <1>1, <1>2
<1>11. \A j \in Imports \ lapped : Settled(row[j], Known, import'[j] = "CONFIRMED")
  BY <1>9, <1>10 DEF Books, ImportsBooked
<1>. QED
  BY <1>1, <1>7, <1>8, <1>11, QuietBooks

(* A request that ends, with no row of its own to store.                   *)
LEMMA EndsBooks ==
    ASSUME Claims, Books, NEW h \in Handlers,
           RecordAudit(h) \/ ReleaseClaim(h) \/ (RequestFails(h) /\ row' = row)
    PROVE  Books'
<1>1. handler' = [handler EXCEPT ![h] = Idle] /\ UNCHANGED <<row, saved, lapped>>
  BY DEF RecordAudit, ReleaseClaim, RequestFails, Put, tables, server
<1>2. DOMAIN handler = Handlers /\ DOMAIN import = Imports
  BY DEF Claims
<1>3. \A g \in Handlers : handler'[g] = IF g = h THEN Idle ELSE handler[g]
  BY <1>1, <1>2
<1>4. HandlerBooks(Idle, row, Known, lapped)
  BY IdleHandler DEF HandlerBooks, Storing, Confirming
<1>5. \A j \in Imports : import'[j] = "CONFIRMED" => import[j] = "CONFIRMED"
  <2>1. CASE ReleaseClaim(h)
    <3>1. import' = [import EXCEPT ![handler[h].import] = Released(import[handler[h].import])]
      BY <2>1 DEF ReleaseClaim
    <3>. QED
      BY <1>2, <3>1 DEF Released
  <2>2. CASE RecordAudit(h) \/ RequestFails(h)
    BY <2>2 DEF RecordAudit, RequestFails, tables
  <2>. QED
    BY <2>1, <2>2
<1>6. \A j \in Imports \ lapped : Settled(row[j], Known, import'[j] = "CONFIRMED")
  BY <1>5 DEF Books, ImportsBooked, Settled
<1>. QED
  BY <1>1, <1>3, <1>4, <1>6, QuietBooks

LEMMA OthersBooks ==
    ASSUME Claims, Books,
           \/ Crash \/ Restart \/ RepairFails \/ MinutePasses \/ UNCHANGED vars
           \/ \E i \in Imports : CancelImport(i)
           \/ \E id \in Ids : RepairOne(id)
    PROVE  Books'
<1>1. UNCHANGED <<row, saved, lapped>>
  BY DEF Crash, Restart, RepairFails, MinutePasses, CancelImport, RepairOne, tables, server, vars
<1>2. \A j \in Imports : import'[j] = "CONFIRMED" => import[j] = "CONFIRMED"
  BY DEF Crash, Restart, RepairFails, MinutePasses, CancelImport, RepairOne, tables, server, vars, Claims
<1>3. \A g \in Handlers : handler'[g] = handler[g] \/ handler'[g] = Idle
  BY DEF Crash, Restart, RepairFails, MinutePasses, CancelImport, RepairOne, vars
<1>4. HandlerBooks(Idle, row, Known, lapped)
  BY IdleHandler DEF HandlerBooks, Storing, Confirming
<1>5. \A j \in Imports \ lapped : Settled(row[j], Known, import'[j] = "CONFIRMED")
  BY <1>2 DEF Books, ImportsBooked, Settled
<1>. QED
  BY <1>1, <1>3, <1>4, <1>5, QuietBooks

LEMMA BooksInit == Init => Books
<1> SUFFICES ASSUME Init PROVE Books
  OBVIOUS
<1>1. NoRow \in Row /\ NoRow.status = "MISSING_DATA"
  BY DEF NoRow, Row, RowStatus
<1>2. /\ row = [i \in Imports |-> [r \in RowNumbers |-> NoRow]]
      /\ handler = [h \in Handlers |-> Idle]
      /\ saved = [id \in Ids |-> None]
      /\ \A i \in Imports : import[i] # "CONFIRMED"
  BY DEF Init
<1>. HIDE DEF NoRow
<1>3. BookTypes
  BY <1>1, <1>2 DEF BookTypes
<1>4. RunsBooked
  BY <1>2, IdleHandler DEF RunsBooked, HandlerBooks, Storing, Confirming
<1>5. \A i \in Imports, r \in RowNumbers : row[i][r].status = "MISSING_DATA"
  BY <1>1, <1>2
<1>6. RowsBooked /\ ImportsBooked
  BY <1>2, <1>5 DEF RowsBooked, RowBooks, ImportsBooked, Settled
<1>. QED
  BY <1>3, <1>4, <1>6 DEF Books

LEMMA BooksNext == Claims /\ Books /\ [Next]_vars => Books'
BY StoresBooks, CheckBooks, CreateBooks, RunBooks, BeginsBooks, ConfirmBooks, EndsBooks,
   OthersBooks
   DEF Next, Step

(* EveryRowAccounted for any number of imports, rows and requests and any  *)
(* faults: the run of an import that nobody re-mapped has every row that   *)
(* is still VALID in its list, under the id the preview gave it.           *)
THEOREM RowsAreAccounted == Spec => []EveryRowAccounted
<1>1. Books => EveryRowAccounted
  BY DEF Books, RowsBooked, RowBooks, ImportsBooked, Settled, Repeats, Known,
         EveryRowAccounted, RowTaken
<1>. QED
  BY ClaimsInit, ClaimsNext, BooksInit, BooksNext, <1>1, PTL DEF Spec
================================================================================
