----------------------------- MODULE MessageBusMC -----------------------------
(***************************************************************************)
(* The tree of the seat collaboration tests, cut to a chain of three seats *)
(* and one seat outside it.                                                *)
(***************************************************************************)
EXTENDS MessageBus, TLC

CONSTANTS root, a, a1, c, drill, g1, g2, g3

MCParent == (root :> NoSeat @@ a :> root @@ a1 :> a @@ c :> NoSeat)
MCGroups == {{a, a1}, {a, c}}
MCMentions == {{c}}
MCConvs == {g1, g2, g3}
MCSymmetry == Permutations(MCConvs)
==============================================================================
