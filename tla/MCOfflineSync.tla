---------------------------- MODULE MCOfflineSync ----------------------------
(* The worlds of the small instances of OfflineSync.                        *)
EXTENDS OfflineSync

SafetyWorlds ==
    {{"lostRequest", "lostResponse", "reassign", "restart", "syncNow"},
     {"lostRequest", "badPhoto", "reassign", "direct", "office"},
     {"lostResponse", "lostRefresh", "restart", "office"},
     {"lostResponse", "badPhoto", "slowRead", "direct"},
     {"slowRead", "restart"}}
=============================================================================
