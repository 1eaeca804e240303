--------------------------- MODULE MCEventMonitor ---------------------------
(***************************************************************************)
(* Two resources of a kind, which are added and removed at any time.       *)
(***************************************************************************)
EXTENDS EventMonitor

CONSTANTS a, b
=============================================================================
