-------------------------- MODULE MCDaemonHistory ---------------------------
(* The instances of MCDaemon, with the history of each process.  They meet   *)
(* the condition under which the places are proved.                        *)
EXTENDS MCDaemon, DaemonHistory

ASSUME PlacesAssumption == PlainRules
=============================================================================
