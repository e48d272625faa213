---------------------------- MODULE MCSteadyReplay ----------------------------
(***************************************************************************)
(* The documents and the application of the passing run are steady, so     *)
(* that the run is an instance of what ReplayProofs proves.                *)
(***************************************************************************)
EXTENDS MCNativeReplay

ASSUME SteadyAssumption == Steady
===============================================================================
