-------------------------- MODULE MCDeliveryChange --------------------------
(* A change of a delivery's status on its way: the handlers of the server,  *)
(* one request at a time, or the queue of the phone in front of them. The   *)
(* two are checked side by side: a behaviour is one of either.              *)
EXTENDS DeliveryLifecycle

CONSTANTS
    Deliveries, Choices, OfficeChoices, ProofRequired, MaxProofAttempts, MaxQueued

VARIABLES
    server, proven, mine, made, applied, online, queue, clock, conflicts, disk,
    ops, loaded, drain, direct, saved, settled, reopened, world

phoneVars == <<server, proven, mine, made, applied, online, queue, clock, conflicts,
               disk, ops, loaded, drain, direct, saved, settled, reopened, world>>

LiveWorld == {"lostRequest", "lostResponse", "reassign", "syncNow", "office"}
NoPhone == {}

Queue == INSTANCE OfflineSync WITH MaxChanges <- MaxQueued, Worlds <- {NoPhone, LiveWorld}

Handlers == world = NoPhone /\ Next /\ UNCHANGED phoneVars
Phone == world # NoPhone /\ Queue!Next /\ UNCHANGED vars

HandlersOrPhone ==
    /\ Init /\ Queue!Init
    /\ [][Handlers \/ Phone]_<<vars, phoneVars>>
    /\ \A r \in Requests : WF_vars(StatusStep(r))
    /\ Queue!Fairness

SavedIsSettled == Queue!SavedIsSettled
=============================================================================
