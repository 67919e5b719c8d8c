---------------------------- MODULE WargameHostMC ----------------------------
(***************************************************************************)
(* Two commanders, each asking once for up to two plans, on two simulators *)
(* weighted 7 to 3 as in config/simulators.yaml.                           *)
(***************************************************************************)
EXTENDS WargameHost, TLC

CONSTANTS red, blue, first, second

MCSims == {red, blue}
MCWeight == (red :> 7 @@ blue :> 3)

Scored(score, success) == [connected |-> TRUE, score |-> score, success |-> success]
MCSimOutcomes == {Failed, Scored(80, TRUE), Scored(60, FALSE)}
==============================================================================
