---------------------------- MODULE SeatRuntimeMC ----------------------------
(***************************************************************************)
(* Two seats and three requests, each for one seat alone, for both, or for *)
(* a list with an unknown seat.                                            *)
(***************************************************************************)
EXTENDS SeatRuntime, TLC

CONSTANTS blue1, blue2, ghost, r1, r2, r3

MCSeatLists == {<<blue1>>, <<blue1, blue2>>, <<blue2, ghost>>}
MCRequests == {r1, r2, r3}
MCSymmetry == Permutations(MCRequests)
==============================================================================
