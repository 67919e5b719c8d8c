-------------------------- MODULE ConfirmedDispatch --------------------------
(***************************************************************************)
(* What the simulation service promises its users: a plan is issued for    *)
(* execution only while it is the plan on offer and a human has confirmed  *)
(* that offer; a new offer takes the confirmation of the old one away.     *)
(***************************************************************************)
CONSTANTS Plans, None

VARIABLES
  offer,      \* the plan on offer, or None
  confirmed,  \* whether a human confirmed it
  issued      \* the plans issued for execution so far

vars == <<offer, confirmed, issued>>

TypeOK ==
  /\ offer \in Plans \cup {None}
  /\ confirmed \in BOOLEAN
  /\ issued \subseteq Plans

Init == offer = None /\ confirmed = FALSE /\ issued = {}

MakeOffer(p) == offer' = p /\ confirmed' = FALSE /\ UNCHANGED issued

Confirm == offer # None /\ confirmed' = TRUE /\ UNCHANGED <<offer, issued>>

Issue ==
  /\ confirmed
  /\ issued' = issued \cup {offer}
  /\ UNCHANGED <<offer, confirmed>>

Next == (\E p \in Plans \cup {None} : MakeOffer(p)) \/ Confirm \/ Issue

Spec == Init /\ [][Next]_vars
==============================================================================
