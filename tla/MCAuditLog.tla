------------------------------- MODULE MCAuditLog -------------------------------
(***************************************************************************)
(* Two agents, a buffer of two entries and pages of one: eviction, a page  *)
(* boundary and a second day within four entries.                          *)
(***************************************************************************)
EXTENDS AuditLog

Alike == Permutations(Agents)
=============================================================================
