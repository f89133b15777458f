------------------------------ MODULE MCProofTrail ------------------------------
(***************************************************************************)
(* Two cycles, of one agent or of two, with restarts before, between and   *)
(* after them.                                                             *)
(***************************************************************************)
EXTENDS ProofTrail

Alike == Permutations(Agents)
=============================================================================
