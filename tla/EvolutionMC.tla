------------------------------ MODULE EvolutionMC ------------------------------
(***************************************************************************)
(* Two skill names, three candidates and one restart.                       *)
(***************************************************************************)
EXTENDS Evolution, TLC

CONSTANTS drafting, triage

MCNames == {drafting, triage}
MCSymmetry == Permutations(MCNames)
==============================================================================
