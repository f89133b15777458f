---------------------------- MODULE MCOrchestrator ----------------------------
(***************************************************************************)
(* Two agents on staggered schedules.                                      *)
(***************************************************************************)
EXTENDS Orchestrator

CONSTANTS rex, nova

MCOffsets == [a \in Agents |-> IF a = rex THEN 0 ELSE 1]
=============================================================================
