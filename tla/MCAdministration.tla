-------------------------- MODULE MCAdministration --------------------------
(* What administrators do to beats and to postmen: a behaviour is one of    *)
(* BeatOffice or one of Staff, which share no row that either changes.      *)
EXTENDS MCBeatOffice

CONSTANTS StaffRequests, StaffWorlds, MaxPhotos

VARIABLES postman, login, named, severed, files, uploads, staffRequests, staffWorld

Staff == INSTANCE Staff WITH Requests <- StaffRequests, Worlds <- StaffWorlds,
                             requests <- staffRequests, world <- staffWorld

staffVars == <<postman, login, named, severed, files, uploads, staffRequests, staffWorld>>

Nothing == {}       \* the work of an office where only the staff changes, and the other way round

StartOffice ==
    /\ Init
    /\ Staff!InitIn(Nothing)

StartStaff ==
    /\ InitIn(Nothing)
    /\ Staff!Init

OfficeOrStaff == StartOffice \/ StartStaff

OfficeStep == work # Nothing /\ Next /\ UNCHANGED staffVars
StaffStep == work = Nothing /\ Staff!Next /\ UNCHANGED vars

Administration == OfficeOrStaff /\ [][OfficeStep \/ StaffStep]_<<vars, staffVars>>

Interchangeable == SameSlots \cup Permutations(StaffRequests)

StaffRecordsAgree == Staff!StaffRecordsAgree
=============================================================================
