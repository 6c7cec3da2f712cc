---------------------------- MODULE MCDailyArchive ---------------------------
(* Instances of DailyArchive for TLC.  A cfg has no negative numbers, so the *)
(* zone west of Greenwich is a definition.                                   *)
EXTENDS DailyArchive

OneHourWest == -1
==============================================================================
