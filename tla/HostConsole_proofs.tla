---------------------------- MODULE HostConsole_proofs ----------------------------
(***************************************************************************)
(* Proofs about the host adapter, the simulation service behind it and the *)
(* web console before it, for any simulators, weights, seats, documents    *)
(* and numbers of requests and of plans.                                   *)
(*                                                                         *)
(* PlanEvaluation and WargameHost: the service keeps the promise of        *)
(* ConfirmedDispatch, a ranking is sound whatever the simulators answer,   *)
(* every answer of the adapter is about one evaluation, and a consent goes *)
(* to the plan on the screen unless another request was evaluated in       *)
(* between.  A score is a sum over a set, a recursive function; what it    *)
(* can come to is proved by induction on the set, with a smallest          *)
(* counterexample in place of an induction rule.                           *)
(*                                                                         *)
(* Console: the store agrees with itself and with what the host said.      *)
(***************************************************************************)
EXTENDS WargameHost, Console, FiniteSetTheorems, TLAPS

\* What the refinement rests on: the ranking is a sequence of results whose
\* plans are plans, the selection is its first result, and a confirmation never
\* outlives the selection it was given to.
Ranked(n) ==
  /\ DOMAIN results = 1..n
  /\ n = 0 <=> results = <<>>
  /\ \A k \in 1..n : results[k].plan \in Plans

SelectionInv ==
  /\ \A call \in Calls :
       /\ outcomes[call] \in Seq([Sims -> SimOutcomes \cup {None}])
       /\ Len(outcomes[call]) <= MaxPlans
  /\ DOMAIN outcomes = Calls
  /\ \E n \in Nat : Ranked(n)
  /\ selectedPlanId = IF results = <<>> THEN None ELSE results[1].plan.id
  /\ confirmed \in BOOLEAN
  /\ confirmed => results # <<>>

\* The service starts with nothing on offer.
LEMMA InitSelection == Init => SelectionInv
<1> SUFFICES ASSUME Init PROVE SelectionInv
  OBVIOUS
<1>1. Ranked(0)
  BY DEF Init, Ranked
<1>2. \E n \in Nat : Ranked(n)
  BY <1>1
<1>3. \A call \in Calls : outcomes[call] = <<>>
  BY DEF Init
<1>4. \A call \in Calls :
        /\ outcomes[call] \in Seq([Sims -> SimOutcomes \cup {None}])
        /\ Len(outcomes[call]) <= MaxPlans
  <2>1. <<>> \in Seq([Sims -> SimOutcomes \cup {None}])
    OBVIOUS
  <2>2. Len(<<>>) <= MaxPlans
    BY PlansAssumption
  <2> QED
    BY <1>3, <2>1, <2>2, Zenon
<1> QED
  BY <1>2, <1>4 DEF Init, SelectionInv

\* Completing an evaluation of at most MaxPlans plans makes a new offer.
LEMMA InstallOffers ==
  ASSUME SelectionInv, NEW call \in Calls, NEW got,
         got \in Seq([Sims -> SimOutcomes \cup {None}]), Len(got) <= MaxPlans,
         Install(call, got)
  PROVE  /\ SelectionInv'
         /\ \E p \in Plans \cup {None} : Promise!MakeOffer(p)
<1> DEFINE n == Len(got)
<1>1. PICK scores : results' \in Rankings(call, got, scores)
  BY DEF Install
<1>2. PICK order \in [1..n -> 1..n] :
        results' = [k \in 1..n |-> [plan     |-> [id |-> order[k], call |-> call],
                                    outcomes |-> got[order[k]],
                                    num      |-> scores[order[k]].num,
                                    den      |-> scores[order[k]].den]]
  BY <1>1 DEF Rankings
<1>3. n \in Nat /\ 1..n \subseteq 1..MaxPlans
  BY PlansAssumption
<1>4. \A k \in 1..n : results'[k].plan = [id |-> order[k], call |-> call]
  BY <1>2
<1>5. \A k \in 1..n : results'[k].plan \in Plans
  BY <1>2, <1>3, <1>4 DEF Plans
<1>6. n = 0 <=> results' = <<>>
  <2>1. CASE n = 0
    <3>1. DOMAIN results' = {}
      BY <1>2, <2>1
    <3> QED
      BY <1>2, <2>1, <3>1
  <2>2. CASE n # 0
    <3>1. 1 \in DOMAIN results'
      BY <1>2, <1>3, <2>2
    <3> QED
      BY <2>2, <3>1
  <2> QED
    BY <2>1, <2>2
<1>7. Ranked(n)'
  BY <1>2, <1>5, <1>6 DEF Ranked
<1>8. /\ \A c \in Calls :
           /\ outcomes'[c] \in Seq([Sims -> SimOutcomes \cup {None}])
           /\ Len(outcomes'[c]) <= MaxPlans
      /\ DOMAIN outcomes' = Calls
  BY PlansAssumption DEF Install, SelectionInv
<1>9. SelectionInv'
  BY <1>3, <1>7, <1>8 DEF SelectionInv, Install
<1>10. \E p \in Plans \cup {None} : Promise!MakeOffer(p)
  <2> DEFINE p == IF results' = <<>> THEN None ELSE results'[1].plan
  <2>1. p \in Plans \cup {None}
    BY <1>3, <1>5, <1>6
  <2> QED
    BY <2>1 DEF Install, Promise!MakeOffer
<1> QED
  BY <1>9, <1>10

\* A step that leaves the service alone keeps the invariant and maps to nothing.
LEMMA ServiceUntouched ==
  ASSUME SelectionInv, UNCHANGED <<results, selectedPlanId, confirmed, issued>>,
         \A call \in Calls :
           /\ outcomes'[call] \in Seq([Sims -> SimOutcomes \cup {None}])
           /\ Len(outcomes'[call]) <= MaxPlans,
         DOMAIN outcomes' = Calls
  PROVE  SelectionInv' /\ UNCHANGED Promise!vars
<1>1. \A n \in Nat : Ranked(n)' <=> Ranked(n)
  BY DEF Ranked
<1> QED
  BY <1>1 DEF SelectionInv, Promise!vars

\* Every step is a step of the promise or leaves its state as it is.
LEMMA StepRefines ==
  ASSUME SelectionInv, [Next]_vars
  PROVE  SelectionInv' /\ [Promise!Next]_(Promise!vars)
<1>1. ASSUME NEW call \in Calls, NEW n \in 0..MaxPlans, StartEvaluation(call, n)
      PROVE  SelectionInv' /\ [Promise!Next]_(Promise!vars)
  <2> DEFINE pending == [p \in 1..n |-> [s \in Sims |-> None]]
  <2>1. /\ pending \in Seq([Sims -> SimOutcomes \cup {None}])
        /\ Len(pending) <= MaxPlans
    BY PlansAssumption
  <2>2. CASE Install(call, pending)
    BY <2>1, <2>2, InstallOffers DEF Promise!Next
  <2>3. CASE /\ outcomes' = [outcomes EXCEPT ![call] = pending]
             /\ UNCHANGED <<results, selectedPlanId, confirmed, issued>>
    <3>1. /\ \A c \in Calls :
               /\ outcomes'[c] \in Seq([Sims -> SimOutcomes \cup {None}])
               /\ Len(outcomes'[c]) <= MaxPlans
          /\ DOMAIN outcomes' = Calls
      BY <2>1, <2>3 DEF SelectionInv
    <3> QED
      BY <2>3, <3>1, ServiceUntouched
  <2> QED
    BY <1>1, <2>2, <2>3 DEF StartEvaluation
<1>2. ASSUME NEW call \in Calls, SomeSettle(call)
      PROVE  SelectionInv' /\ [Promise!Next]_(Promise!vars)
  <2>1. PICK p \in DOMAIN outcomes[call], s \in Sims, o \in SimOutcomes :
          Settle(call, p, s, o)
    BY <1>2 DEF SomeSettle
  <2> DEFINE got == [outcomes[call] EXCEPT ![p][s] = o]
  <2>2. /\ got \in Seq([Sims -> SimOutcomes \cup {None}])
        /\ Len(got) <= MaxPlans
    <3>1. /\ outcomes[call] \in Seq([Sims -> SimOutcomes \cup {None}])
          /\ Len(outcomes[call]) <= MaxPlans
      BY DEF SelectionInv
    <3>2. [outcomes[call][p] EXCEPT ![s] = o] \in [Sims -> SimOutcomes \cup {None}]
      BY <2>1, <3>1
    <3>3. got = [outcomes[call] EXCEPT ![p] = [outcomes[call][p] EXCEPT ![s] = o]]
      OBVIOUS
    <3> QED
      BY <3>1, <3>2, <3>3
  <2>3. CASE Install(call, got)
    BY <2>2, <2>3, InstallOffers DEF Promise!Next
  <2>4. CASE /\ outcomes' = [outcomes EXCEPT ![call] = got]
             /\ UNCHANGED <<results, selectedPlanId, confirmed, issued>>
    <3>1. /\ \A c \in Calls :
               /\ outcomes'[c] \in Seq([Sims -> SimOutcomes \cup {None}])
               /\ Len(outcomes'[c]) <= MaxPlans
          /\ DOMAIN outcomes' = Calls
      BY <2>2, <2>4 DEF SelectionInv
    <3> QED
      BY <2>4, <3>1, ServiceUntouched
  <2> QED
    BY <2>1, <2>3, <2>4 DEF Settle
<1>3. CASE ConfirmSelection
  <2>1. PICK n \in Nat : Ranked(n)
    BY DEF SelectionInv
  <2>2. results # <<>> /\ results[1].plan \in Plans
    BY <1>3, <2>1 DEF ConfirmSelection, SelectionInv, Ranked
  <2>3. Promise!Confirm
    BY <1>3, <2>2, NoPlanAssumption DEF ConfirmSelection, Promise!Confirm
  <2>4. Ranked(n)'
    BY <1>3, <2>1 DEF ConfirmSelection, Ranked
  <2>5. SelectionInv'
    BY <1>3, <2>2, <2>4 DEF ConfirmSelection, SelectionInv
  <2> QED
    BY <2>3, <2>5 DEF Promise!Next
<1>4. CASE DispatchSelected
  <2>1. PICK k \in DOMAIN results :
          IsSelectedPlan(results[k]) /\ issued' = issued \cup {results[k].plan}
    BY <1>4 DEF DispatchSelected
  <2>2. PICK n \in Nat : Ranked(n)
    BY DEF SelectionInv
  <2>3. results # <<>> /\ selectedPlanId = results[1].plan.id /\ n >= 1
    BY <2>1, <2>2 DEF SelectionInv, Ranked
  <2>4. PICK i \in DOMAIN results :
          /\ results[k] = results[i]
          /\ \A j \in 1..(i - 1) : results[j].plan.id # selectedPlanId
    BY <2>1 DEF IsSelectedPlan
  <2>5. i = 1
    BY <2>2, <2>3, <2>4 DEF Ranked
  <2>6. Promise!Issue
    BY <1>4, <2>1, <2>3, <2>4, <2>5 DEF DispatchSelected, Promise!Issue
  <2>7. Ranked(n)'
    BY <1>4, <2>2 DEF DispatchSelected, Ranked
  <2>8. SelectionInv'
    BY <1>4, <2>7 DEF DispatchSelected, SelectionInv
  <2> QED
    BY <2>6, <2>8 DEF Promise!Next
<1>5. CASE UNCHANGED vars
  BY <1>5, ServiceUntouched DEF vars, SelectionInv
<1> QED
  BY <1>1, <1>2, <1>3, <1>4, <1>5 DEF Next

\* The selected plan is the head of the ranking in every state.
LEMMA SelectionInvariant == Spec => []SelectionInv
  BY InitSelection, StepRefines, PTL DEF Spec

\* However evaluations overlap and whenever the human confirms or dispatches,
\* only the plan on offer is ever issued, and only while its own confirmation
\* stands.
THEOREM PromiseKept == Spec => KeepsPromise
<1>1. Init => Promise!Init
  BY DEF Init, Promise!Init
<1>2. SelectionInv /\ [Next]_vars => [Promise!Next]_(Promise!vars)
  BY StepRefines
<1> QED
  BY <1>1, <1>2, SelectionInvariant, PTL DEF Spec, KeepsPromise, Promise!Spec

------------------------------------------------------------------------------
\* The host adapter only ever does what the service offers.
LEMMA HostStepIsServiceStep ==
  ASSUME [HostNext]_allVars
  PROVE  [Next]_vars
<1>1. ASSUME NEW c \in Calls, GeneratePlans(c) \/ DraftFails(c) \/ Answer(c)
      PROVE  UNCHANGED vars
  BY <1>1 DEF GeneratePlans, DraftFails, Answer
<1>2. ASSUME NEW c \in Calls, NEW n \in 1..MaxPlans, DraftsReady(c, n)
      PROVE  Next
  <2>1. n \in 0..MaxPlans /\ StartEvaluation(c, n)
    BY <1>2, PlansAssumption DEF DraftsReady
  <2> QED
    BY <2>1 DEF Next
<1>3. ASSUME NEW c \in Calls, EvaluateNothing(c)
      PROVE  Next
  <2>1. 0 \in 0..MaxPlans /\ StartEvaluation(c, 0)
    BY <1>3, PlansAssumption DEF EvaluateNothing
  <2> QED
    BY <2>1 DEF Next
<1>4. ASSUME NEW c \in Calls, SessionEnds(c) \/ ConfirmPlan(c)
      PROVE  Next
  BY <1>4 DEF SessionEnds, ConfirmPlan, Next
<1>5. CASE Dispatch
  BY <1>5 DEF Dispatch, Next
<1>6. CASE UNCHANGED allVars
  BY <1>6 DEF allVars
<1> QED
  BY <1>1, <1>2, <1>3, <1>4, <1>5, <1>6 DEF HostNext

\* Every behaviour of the adapter is one of the service.
THEOREM HostImplementsService == HostSpec => Spec
<1>1. HostInit => Init
  BY DEF HostInit
<1>2. [HostNext]_allVars => [Next]_vars
  BY HostStepIsServiceStep
<1> QED
  BY <1>1, <1>2, PTL DEF HostSpec, Spec

\* SimulationService behind the host adapter: only the plan on offer is issued,
\* and only while its own confirmation stands.
THEOREM HostKeepsPromise == HostSpec => KeepsPromise
  BY HostImplementsService, PromiseKept, PTL

------------------------------------------------------------------------------
\* A ranking that is due to be answered is the one installed, it is its
\* caller's, nobody can have confirmed it yet, and it is the only answer.
Due(c) ==
  /\ stage[c] = "evaluated"
  /\ returned[c] = RankedPlans
  /\ \A k \in DOMAIN returned[c] : returned[c][k].call = c
  /\ ~confirmed
  /\ replies[c] = None

\* An answer that was given.
Given(c) ==
  /\ stage[c] = "evaluated"
  /\ \A k \in DOMAIN replies[c].plans : replies[c].plans[k].call = c
  /\ replies[c].report = replies[c].plans
  /\ ~replies[c].confirmed

\* What is on offer was answered, or is about to be.
OfferWasShown ==
  results # <<>> =>
    LET d == results[1].plan.call
    IN  returned[d] = RankedPlans \/ (replies[d] # None /\ replies[d].plans = RankedPlans)

\* A consent went to the plan seen, or to the best plan of another's answer.
Accounted(e) ==
  \/ e.gave = e.saw
  \/ /\ e.gave.call # e.by
     /\ e.gave.call \in Calls
     /\ replies[e.gave.call] # None
     /\ replies[e.gave.call].plans[1] = e.gave

HostInv ==
  /\ DOMAIN stage = Calls /\ DOMAIN returned = Calls /\ DOMAIN replies = Calls
  /\ \A c \in Calls : returned[c] # None => Due(c)
  /\ \A c \in Calls : replies[c] # None => Given(c)
  /\ OfferWasShown
  /\ \A e \in consents : Accounted(e)

\* The plans that are ranked are plans.
LEMMA RankingIsOfPlans ==
  ASSUME SelectionInv
  PROVE  /\ RankedPlans \in Seq(Plans)
         /\ results # <<>> => /\ results[1].plan \in Plans
                              /\ 1 \in DOMAIN results
                              /\ RankedPlans[1] = results[1].plan
<1>1. PICK n \in Nat : Ranked(n)
  BY DEF SelectionInv
<1>2. RankedPlans = [k \in 1..n |-> results[k].plan]
  BY <1>1 DEF Ranked, RankedPlans
<1>3. \A k \in 1..n : results[k].plan \in Plans
  BY <1>1 DEF Ranked
<1>4. RankedPlans \in Seq(Plans)
  BY <1>2, <1>3
<1>5. results # <<>> => 1 \in 1..n
  BY <1>1 DEF Ranked
<1> QED
  BY <1>1, <1>2, <1>3, <1>4, <1>5 DEF Ranked

\* At the start nothing was asked.
LEMMA HostInvInit == HostInit => HostInv
  BY DEF HostInit, Init, HostInv, OfferWasShown

\* Completing an evaluation: the ranking is the caller's, and unconfirmed.
LEMMA InstallIsOwn ==
  ASSUME SelectionInv, DOMAIN stage = Calls,
         NEW call \in Calls, NEW got \in Seq([Sims -> SimOutcomes \cup {None}]),
         Len(got) <= MaxPlans, Install(call, got)
  PROVE  /\ DOMAIN stage' = Calls /\ stage'[call] = "evaluated"
         /\ \A c \in Calls : c # call => stage'[c] = stage[c]
         /\ confirmed' = FALSE
         /\ RankedPlans' \in Seq(Plans)
         /\ \A k \in DOMAIN results' : results'[k].plan.call = call
         /\ results' # <<>> => 1 \in DOMAIN results'
         /\ Len(got) = 0 => results' = <<>>
<1> DEFINE n == Len(got)
<1>1. PICK scores : results' \in Rankings(call, got, scores)
  BY DEF Install
<1>2. PICK order \in [1..n -> 1..n] :
        results' = [k \in 1..n |-> [plan     |-> [id |-> order[k], call |-> call],
                                    outcomes |-> got[order[k]],
                                    num      |-> scores[order[k]].num,
                                    den      |-> scores[order[k]].den]]
  BY <1>1 DEF Rankings
<1>3. n \in Nat /\ 1..n \subseteq 1..MaxPlans
  BY PlansAssumption
<1>4. DOMAIN results' = 1..n
  BY <1>2
<1>5. \A k \in 1..n : results'[k].plan = [id |-> order[k], call |-> call]
  BY <1>2
<1>6. \A k \in 1..n : results'[k].plan \in Plans /\ results'[k].plan.call = call
  BY <1>2, <1>3, <1>5 DEF Plans
<1>7. RankedPlans' = [k \in 1..n |-> results'[k].plan]
  BY <1>4 DEF RankedPlans
<1>8. RankedPlans' \in Seq(Plans)
  BY <1>3, <1>6, <1>7
<1>9. n = 0 => results' = <<>>
  <2> SUFFICES ASSUME n = 0 PROVE results' = <<>>
    OBVIOUS
  <2>1. DOMAIN results' = {}
    BY <1>4
  <2> QED
    BY <1>2, <2>1
<1>10. results' # <<>> => 1 \in DOMAIN results'
  BY <1>3, <1>4, <1>9
<1> QED
  BY <1>4, <1>6, <1>8, <1>9, <1>10 DEF Install

\* A step of the service on behalf of one request, none being due: either it is
\* not the last and nothing the adapter reads changes, or the ranking of that
\* request is installed.
Progress(c) ==
  \/ /\ DOMAIN stage' = Calls /\ stage'[c] = "running"
     /\ \A d \in Calls : d # c => stage'[d] = stage[d]
     /\ UNCHANGED <<results, confirmed>>
  \/ /\ DOMAIN stage' = Calls /\ stage'[c] = "evaluated"
     /\ \A d \in Calls : d # c => stage'[d] = stage[d]
     /\ confirmed' = FALSE
     /\ RankedPlans' \in Seq(Plans)
     /\ \A k \in DOMAIN results' : results'[k].plan.call = c
     /\ results' # <<>> => 1 \in DOMAIN results'

LEMMA StartProgresses ==
  ASSUME SelectionInv, HostInv, NEW c \in Calls, NEW n \in 0..MaxPlans,
         StartEvaluation(c, n)
  PROVE  /\ Progress(c) /\ stage[c] # "evaluated"
         /\ n = 0 => results' = <<>> /\ stage'[c] = "evaluated"
<1> DEFINE pending == [p \in 1..n |-> [s \in Sims |-> None]]
<1>1. /\ pending \in Seq([Sims -> SimOutcomes \cup {None}])
      /\ Len(pending) = n /\ n <= MaxPlans
  BY PlansAssumption
<1>2. stage[c] = "idle"
  BY DEF StartEvaluation
<1>3. CASE Install(c, pending)
  BY <1>1, <1>2, <1>3, InstallIsOwn DEF Progress, HostInv
<1>4. CASE /\ ~AllSettled(pending)
           /\ stage' = [stage EXCEPT ![c] = "running"]
           /\ UNCHANGED <<results, confirmed>>
  <2>1. n # 0
    <3>1. n = 0 => DOMAIN pending = {}
      OBVIOUS
    <3> QED
      BY <1>4, <3>1 DEF AllSettled
  <2> QED
    BY <1>2, <1>4, <2>1 DEF Progress, HostInv
<1> QED
  BY <1>3, <1>4 DEF StartEvaluation

LEMMA SettleProgresses ==
  ASSUME SelectionInv, HostInv, NEW c \in Calls, SomeSettle(c)
  PROVE  Progress(c) /\ stage[c] # "evaluated"
<1>1. PICK p \in DOMAIN outcomes[c], s \in Sims, o \in SimOutcomes : Settle(c, p, s, o)
  BY DEF SomeSettle
<1> DEFINE got == [outcomes[c] EXCEPT ![p][s] = o]
<1>2. /\ got \in Seq([Sims -> SimOutcomes \cup {None}])
      /\ Len(got) <= MaxPlans
  <2>1. /\ outcomes[c] \in Seq([Sims -> SimOutcomes \cup {None}])
        /\ Len(outcomes[c]) <= MaxPlans
    BY DEF SelectionInv
  <2>2. [outcomes[c][p] EXCEPT ![s] = o] \in [Sims -> SimOutcomes \cup {None}]
    BY <1>1, <2>1
  <2>3. got = [outcomes[c] EXCEPT ![p] = [outcomes[c][p] EXCEPT ![s] = o]]
    OBVIOUS
  <2> QED
    BY <2>1, <2>2, <2>3
<1>3. stage[c] = "running"
  BY <1>1 DEF Settle
<1>4. CASE Install(c, got)
  BY <1>2, <1>3, <1>4, InstallIsOwn DEF Progress, HostInv
<1>5. CASE UNCHANGED <<stage, results, confirmed>>
  BY <1>3, <1>5 DEF Progress, HostInv
<1> QED
  BY <1>1, <1>3, <1>4, <1>5 DEF Settle

\* What such a step leaves of the answers: a request that is evaluated now was
\* not answered before, and those that were stay as they are.
LEMMA ResolvingKeeps ==
  ASSUME HostInv, Quiet, NEW c \in Calls, Progress(c), stage[c] # "evaluated",
         Resolving(c), UNCHANGED <<replies, consents>>
  PROVE  HostInv'
<1>1. \A d \in Calls : returned[d] = None
  BY DEF Quiet
<1>2. replies[c] = None
  BY DEF HostInv, Given
<1>3. DOMAIN stage' = Calls /\ \A d \in Calls : d # c => stage'[d] = stage[d]
  BY DEF Progress
<1>4. \A d \in Calls : replies'[d] # None => Given(d)'
  BY <1>2, <1>3 DEF HostInv, Given
<1>5. \A e \in consents' : Accounted(e)'
  BY DEF HostInv, Accounted
<1>6. CASE stage'[c] = "running"
  <2>1. UNCHANGED <<results, confirmed, returned>>
    BY <1>6 DEF Progress, Resolving
  <2>2. RankedPlans' = RankedPlans
    BY <2>1 DEF RankedPlans
  <2>3. OfferWasShown'
    BY <2>1, <2>2 DEF HostInv, OfferWasShown
  <2> QED
    BY <1>1, <1>3, <1>4, <1>5, <2>1, <2>3 DEF HostInv
<1>7. CASE stage'[c] = "evaluated"
  <2>1. returned' = [returned EXCEPT ![c] = RankedPlans']
    BY <1>7 DEF Resolving
  <2>2. /\ confirmed' = FALSE
        /\ \A k \in DOMAIN results' : results'[k].plan.call = c
        /\ results' # <<>> => 1 \in DOMAIN results'
    BY <1>7 DEF Progress
  <2>3. DOMAIN returned' = Calls /\ returned'[c] = RankedPlans'
    BY <2>1 DEF HostInv
  <2>4. \A d \in Calls : d # c => returned'[d] = None
    BY <1>1, <2>1 DEF HostInv
  <2>5. \A k \in DOMAIN RankedPlans' : RankedPlans'[k].call = c
    BY <2>2 DEF RankedPlans
  <2>6. \A d \in Calls : returned'[d] # None => Due(d)'
    BY <1>2, <1>7, <2>2, <2>3, <2>4, <2>5 DEF Due
  <2>7. OfferWasShown'
    BY <2>2, <2>3 DEF OfferWasShown
  <2> QED
    BY <1>3, <1>4, <1>5, <2>3, <2>6, <2>7 DEF HostInv
<1> QED
  BY <1>6, <1>7 DEF Progress

\* A step that touches neither the ranking nor the answers.
LEMMA HostDependsOn ==
  ASSUME HostInv, UNCHANGED <<stage, results, returned, replies>>,
         confirmed' = confirmed \/ Quiet, \A e \in consents' : Accounted(e)
  PROVE  HostInv'
<1>1. RankedPlans' = RankedPlans
  BY DEF RankedPlans
<1>2. \A c \in Calls : returned'[c] # None => Due(c)'
  BY <1>1 DEF HostInv, Due, Quiet
<1>3. \A c \in Calls : replies'[c] # None => Given(c)'
  BY DEF HostInv, Given
<1>4. OfferWasShown'
  BY <1>1 DEF HostInv, OfferWasShown
<1>5. \A e \in consents' : Accounted(e)'
  BY DEF Accounted
<1> QED
  BY <1>2, <1>3, <1>4, <1>5 DEF HostInv

\* The answer is what is installed, and what the caller asked for.
LEMMA AnswerKeeps ==
  ASSUME SelectionInv, HostInv, NEW c \in Calls, Answer(c)
  PROVE  HostInv'
<1>1. Due(c)
  BY DEF Answer, HostInv
<1>2. /\ replies' = [replies EXCEPT ![c] = [plans     |-> returned[c],
                                            confirmed |-> confirmed,
                                            report    |-> RankedPlans]]
      /\ returned' = [returned EXCEPT ![c] = None]
      /\ UNCHANGED <<stage, results, confirmed, consents>>
  BY DEF Answer, vars
<1>3. RankedPlans' = RankedPlans
  BY <1>2 DEF RankedPlans
<1>4. /\ DOMAIN stage' = Calls /\ DOMAIN returned' = Calls /\ DOMAIN replies' = Calls
      /\ returned'[c] = None
      /\ replies'[c].plans = RankedPlans
      /\ replies'[c].report = RankedPlans
      /\ replies'[c].confirmed = confirmed
      /\ \A d \in Calls : d # c => returned'[d] = returned[d] /\ replies'[d] = replies[d]
  BY <1>1, <1>2 DEF HostInv, Due
<1>5. \A d \in Calls : returned'[d] # None => Due(d)'
  BY <1>2, <1>3, <1>4 DEF HostInv, Due
<1>6. \A d \in Calls : replies'[d] # None => Given(d)'
  <2>1. Given(c)'
    BY <1>1, <1>2, <1>4 DEF Due, Given
  <2>2. ASSUME NEW d \in Calls, d # c, replies'[d] # None PROVE Given(d)'
    BY <1>2, <1>4, <2>2 DEF HostInv, Given
  <2> QED
    BY <2>1, <2>2
<1>7. replies'[c] # None
  <2>1. RankedPlans \in Seq(Plans) /\ confirmed \in BOOLEAN
    BY RankingIsOfPlans DEF SelectionInv
  <2>2. replies'[c] = [plans |-> RankedPlans, confirmed |-> confirmed,
                       report |-> RankedPlans]
    BY <1>1, <1>2 DEF HostInv, Due
  <2>3. replies'[c] \in Reply
    BY <2>1, <2>2 DEF Reply
  <2> QED
    BY <2>3, NoAnswerAssumption
<1>8. OfferWasShown'
  BY <1>2, <1>3, <1>4, <1>7 DEF HostInv, OfferWasShown
<1>9. ASSUME NEW e \in consents' PROVE Accounted(e)'
  <2>1. Accounted(e)
    BY <1>2 DEF HostInv
  <2>2. CASE e.gave = e.saw
    BY <2>2 DEF Accounted
  <2>3. CASE e.gave # e.saw
    <3>1. e.gave.call # c
      BY <1>1, <2>1, <2>3 DEF Accounted, Due
    <3> QED
      BY <1>4, <2>1, <2>3, <3>1 DEF Accounted
  <2> QED
    BY <2>2, <2>3
<1> QED
  BY <1>4, <1>5, <1>6, <1>8, <1>9 DEF HostInv

\* The selected plan is the head of the ranking.
LEMMA SelectedIsFirst ==
  ASSUME SelectionInv, NEW k \in DOMAIN results, IsSelectedPlan(results[k])
  PROVE  results # <<>> /\ results[k] = results[1]
<1>1. PICK n \in Nat : Ranked(n)
  BY DEF SelectionInv
<1>2. results # <<>> /\ selectedPlanId = results[1].plan.id /\ n >= 1
  BY <1>1 DEF SelectionInv, Ranked
<1>3. PICK i \in DOMAIN results :
        /\ results[k] = results[i]
        /\ \A j \in 1..(i - 1) : results[j].plan.id # selectedPlanId
  BY DEF IsSelectedPlan
<1>4. i = 1
  BY <1>1, <1>2, <1>3 DEF Ranked
<1> QED
  BY <1>2, <1>3, <1>4

\* The commander whose answer is the offer consents to what it shows; any other
\* consents to the best plan of somebody else's answer.
LEMMA ConfirmAccounted ==
  ASSUME SelectionInv, HostInv, NEW c \in Calls, ConfirmPlan(c)
  PROVE  \A e \in consents' : Accounted(e)
<1>1. PICK k \in DOMAIN results :
        /\ IsSelectedPlan(results[k])
        /\ consents' = consents \cup {[by   |-> c,
                                       saw  |-> replies[c].plans[1],
                                       gave |-> results[k].plan]}
  BY DEF ConfirmPlan
<1> DEFINE d == results[1].plan.call
           e == [by |-> c, saw |-> replies[c].plans[1], gave |-> results[k].plan]
<1>2. results # <<>> /\ results[k].plan = results[1].plan
  BY <1>1, SelectedIsFirst
<1>3. /\ RankedPlans \in Seq(Plans) /\ RankedPlans[1] = results[1].plan
      /\ d \in Calls
  BY <1>2, RankingIsOfPlans DEF Plans
<1>4. returned[d] # RankedPlans
  BY <1>3, NoAnswerAssumption DEF ConfirmPlan, Quiet
<1>5. replies[d] # None /\ replies[d].plans = RankedPlans
  BY <1>2, <1>4 DEF HostInv, OfferWasShown
<1>6. e.by = c /\ e.saw = replies[c].plans[1] /\ e.gave = results[1].plan
  BY <1>2
<1> HIDE DEF e
<1>7. Accounted(e)
  <2>1. CASE d = c
    BY <1>3, <1>5, <1>6, <2>1 DEF Accounted
  <2>2. CASE d # c
    BY <1>3, <1>5, <1>6, <2>2 DEF Accounted
  <2> QED
    BY <2>1, <2>2
<1>8. consents' = consents \cup {e}
  BY <1>1 DEF e
<1> QED
  BY <1>7, <1>8 DEF HostInv

\* Every step keeps the answers sound.
LEMMA HostInvStep ==
  ASSUME SelectionInv, HostInv, [HostNext]_allVars
  PROVE  HostInv'
<1>1. ASSUME NEW c \in Calls, GeneratePlans(c) \/ DraftFails(c) PROVE HostInv'
  <2>1. UNCHANGED <<stage, results, returned, replies, confirmed, consents>>
    BY <1>1 DEF GeneratePlans, DraftFails, vars
  <2> QED
    BY <2>1, HostDependsOn DEF HostInv
<1>2. ASSUME NEW c \in Calls, NEW n \in 1..MaxPlans, DraftsReady(c, n)
      PROVE  HostInv'
  <2>1. n \in 0..MaxPlans /\ StartEvaluation(c, n)
    BY <1>2, PlansAssumption DEF DraftsReady
  <2>2. Progress(c) /\ stage[c] # "evaluated"
    BY <2>1, StartProgresses
  <2> QED
    BY <1>2, <2>2, ResolvingKeeps DEF DraftsReady
<1>3. ASSUME NEW c \in Calls, SessionEnds(c) PROVE HostInv'
  BY <1>3, SettleProgresses, ResolvingKeeps DEF SessionEnds
<1>4. ASSUME NEW c \in Calls, Answer(c) PROVE HostInv'
  BY <1>4, AnswerKeeps
<1>5. ASSUME NEW c \in Calls, ConfirmPlan(c) PROVE HostInv'
  <2>1. \A e \in consents' : Accounted(e)
    BY <1>5, ConfirmAccounted
  <2>2. Quiet /\ UNCHANGED <<stage, results, returned, replies>>
    BY <1>5 DEF ConfirmPlan, ConfirmSelection
  <2> QED
    BY <2>1, <2>2, HostDependsOn
<1>6. ASSUME NEW c \in Calls, EvaluateNothing(c) PROVE HostInv'
  <2>1. 0 \in 0..MaxPlans /\ StartEvaluation(c, 0)
    BY <1>6, PlansAssumption DEF EvaluateNothing
  <2>2. Progress(c) /\ stage[c] # "evaluated" /\ results' = <<>> /\ stage'[c] = "evaluated"
    BY <2>1, StartProgresses
  <2>3. Quiet /\ UNCHANGED <<returned, replies, consents>>
    BY <1>6 DEF EvaluateNothing
  <2>4. \A d \in Calls : returned'[d] = None
    BY <2>3 DEF Quiet
  <2>5. \A d \in Calls : replies'[d] # None => Given(d)'
    BY <2>2, <2>3 DEF Progress, HostInv, Given
  <2>6. \A e \in consents' : Accounted(e)'
    BY <2>3 DEF HostInv, Accounted
  <2>7. OfferWasShown'
    BY <2>2 DEF OfferWasShown
  <2> QED
    BY <2>2, <2>3, <2>4, <2>5, <2>6, <2>7 DEF Progress, HostInv
<1>7. CASE Dispatch
  <2>1. UNCHANGED <<stage, results, returned, replies, confirmed, consents>>
    BY <1>7 DEF Dispatch, DispatchSelected, hostVars
  <2> QED
    BY <2>1, HostDependsOn DEF HostInv
<1>8. CASE UNCHANGED allVars
  <2>1. UNCHANGED <<stage, results, returned, replies, confirmed, consents>>
    BY <1>8 DEF allVars, vars, hostVars
  <2> QED
    BY <2>1, HostDependsOn DEF HostInv
<1> QED
  BY <1>1, <1>2, <1>3, <1>4, <1>5, <1>6, <1>7, <1>8 DEF HostNext

\* The answers are sound in every state.
THEOREM HostInvariant == HostSpec => []HostInv
<1>1. HostSpec => []SelectionInv
  BY HostImplementsService, SelectionInvariant, PTL
<1> QED
  BY <1>1, HostInvInit, HostInvStep, PTL DEF HostSpec

\* generatePlans of the adapter: an answer is about one evaluation, its own.
THEOREM AnswersAreWhole == HostSpec => []AnswerIsOfOneEvaluation
<1>1. HostInv => AnswerIsOfOneEvaluation
  BY DEF HostInv, Given, AnswerIsOfOneEvaluation
<1> QED
  BY <1>1, HostInvariant, PTL

\* confirmPlan: a consent goes to the plan on the screen, or to the best plan of
\* another request that was evaluated in the meantime.
THEOREM ConsentAccounted == HostSpec => []ConsentMissesOnlyByOverlap
<1>1. HostInv => ConsentMissesOnlyByOverlap
  BY DEF HostInv, Accounted, ConsentMissesOnlyByOverlap
<1> QED
  BY <1>1, HostInvariant, PTL
------------------------------------------------------------------------------
\* What holds of 0, and of the next number whenever it holds of one, holds of
\* all up to N.
LEMMA UpwardInduction ==
  ASSUME NEW N \in Nat, NEW G, 0 \in G, \A n \in 0..(N - 1) : n \in G => n + 1 \in G
  PROVE  0..N \subseteq G
<1> DEFINE B == (0..N) \ G
           W == {0..m : m \in B}
           R == StrictSubsetOrdering(Nat)
<1> SUFFICES ASSUME B # {} PROVE FALSE
  OBVIOUS
<1>1. W # {} /\ W \subseteq FiniteSubsetsOf(Nat)
  <2>1. \A m \in B : 0..m \in SUBSET Nat /\ IsFiniteSet(0..m)
    BY FS_Interval
  <2> QED
    BY <2>1 DEF FiniteSubsetsOf
<1>2. IsWellFoundedOn(R, FiniteSubsetsOf(Nat))
  BY FS_StrictSubsetOrderingWellFounded
<1>3. PICK X \in W : \A Y \in W : ~(<<Y, X>> \in R)
  <2> HIDE DEF W, R
  <2> QED
    BY <1>1, <1>2, WFMin
<1>4. PICK m \in B : X = 0..m
  OBVIOUS
<1>5. m # 0 /\ m - 1 \in 0..(N - 1)
  OBVIOUS
<1>6. m - 1 \notin G
  BY <1>5
<1>7. 0..(m - 1) \in W
  BY <1>5, <1>6
<1>8. <<0..(m - 1), X>> \in R
  <2>1. 0..(m - 1) \in SUBSET Nat /\ 0..m \in SUBSET Nat /\ m \in 0..m /\ m \notin 0..(m - 1)
        /\ 0..(m - 1) \subseteq 0..m
    BY <1>5
  <2> QED
    BY <1>4, <2>1 DEF StrictSubsetOrdering
<1> QED
  BY <1>3, <1>7, <1>8

\* What holds of the empty set, and of a set whenever it holds of that set
\* without the element CHOOSE takes from it, holds of all subsets of S.
Taken(T) == CHOOSE x \in T : TRUE

LEMMA SubsetInduction ==
  ASSUME NEW S, IsFiniteSet(S), NEW G, {} \in G,
         \A T \in SUBSET S : T # {} /\ T \ {Taken(T)} \in G => T \in G
  PROVE  SUBSET S \subseteq G
<1> DEFINE B == (SUBSET S) \ G
           R == StrictSubsetOrdering(S)
<1> SUFFICES ASSUME B # {} PROVE FALSE
  OBVIOUS
<1>1. B \subseteq FiniteSubsetsOf(S)
  BY FS_Subset DEF FiniteSubsetsOf
<1>2. IsWellFoundedOn(R, FiniteSubsetsOf(S))
  BY FS_StrictSubsetOrderingWellFounded
<1>3. PICK X \in B : \A Y \in B : ~(<<Y, X>> \in R)
  <2> HIDE DEF B, R
  <2> QED
    BY <1>1, <1>2, WFMin
<1> DEFINE Y == X \ {Taken(X)}
<1>4. X # {} /\ Taken(X) \in X
  BY DEF Taken
<1>5. Y \in B
  BY <1>4
<1>6. <<Y, X>> \in R
  BY <1>4 DEF StrictSubsetOrdering
<1> QED
  BY <1>3, <1>5, <1>6

\* f adds up g over the subsets of S, in the order CHOOSE takes the elements.
IsSum(f, g, S) ==
  f = [T \in SUBSET S |-> IF T = {} THEN 0 ELSE g[Taken(T)] + f[T \ {Taken(T)}]]

\* The recursive function inside MapThenSumSet exists: one for the subsets with
\* at most m elements gives one for those with at most m + 1.
LEMMA SumExists ==
  ASSUME NEW S, IsFiniteSet(S), NEW g
  PROVE  \E f : IsSum(f, g, S)
<1> DEFINE Small(m) == {T \in SUBSET S : Cardinality(T) <= m}
           Sums(m, f) == f = [T \in Small(m) |->
                                IF T = {} THEN 0 ELSE g[Taken(T)] + f[T \ {Taken(T)}]]
           N == Cardinality(S)
           G == {m \in 0..N : \E f : Sums(m, f)}
<1>1. N \in Nat /\ \A T \in SUBSET S : IsFiniteSet(T) /\ Cardinality(T) \in Nat /\ Cardinality(T) <= N
  BY FS_CardinalityType, FS_Subset
<1>2. 0 \in G
  <2> DEFINE f == [T \in Small(0) |-> 0]
  <2>1. \A T \in Small(0) : T = {}
    BY <1>1, FS_EmptySet
  <2>2. Sums(0, f)
    BY <2>1
  <2>3. \E h : Sums(0, h)
    BY <2>2
  <2>4. 0 \in 0..N
    BY <1>1
  <2> QED
    BY <2>3, <2>4
<1>3. ASSUME NEW m \in 0..(N - 1), m \in G PROVE m + 1 \in G
  <2>1. PICK f : Sums(m, f)
    BY <1>3
  <2> DEFINE h == [T \in Small(m + 1) |->
                     IF T = {} THEN 0 ELSE g[Taken(T)] + f[T \ {Taken(T)}]]
  <2>2. ASSUME NEW T \in Small(m + 1), T # {}
        PROVE  T \ {Taken(T)} \in Small(m) /\ T \ {Taken(T)} \in Small(m + 1)
    <3>1. Taken(T) \in T
      BY <2>2 DEF Taken
    <3>2. Cardinality(T \ {Taken(T)}) = Cardinality(T) - 1
      BY <1>1, <3>1, FS_RemoveElement
    <3> QED
      BY <1>1, <3>2
  <2>3. ASSUME NEW T \in Small(m) PROVE h[T] = f[T]
    <3>1. T \in Small(m + 1)
      BY <1>1
    <3>2. f[T] = IF T = {} THEN 0 ELSE g[Taken(T)] + f[T \ {Taken(T)}]
      <4> HIDE DEF Small
      <4> QED
        BY <2>1
    <3> HIDE DEF Small
    <3> QED
      BY <3>1, <3>2
  <2>4. Sums(m + 1, h)
    <3>1. \A T \in Small(m + 1) : T # {} => h[T \ {Taken(T)}] = f[T \ {Taken(T)}]
      BY <2>2, <2>3
    <3> HIDE DEF Small
    <3> QED
      BY <3>1
  <2>5. m + 1 \in 0..N
    BY <1>1
  <2>6. \E e : Sums(m + 1, e)
    <3> HIDE DEF Sums
    <3> QED
      BY <2>4
  <2> HIDE DEF Sums
  <2> QED
    BY <2>5, <2>6
<1>4. N \in G
  <2>1. 0..N \subseteq G
    <3> HIDE DEF G, N
    <3> QED
      BY <1>1, <1>2, <1>3, UpwardInduction
  <2> HIDE DEF G
  <2> QED
    BY <1>1, <2>1
<1>5. Small(N) = SUBSET S
  BY <1>1
<1>6. PICK f : Sums(N, f)
  BY <1>4
<1>7. IsSum(f, g, S)
  <2> HIDE DEF Small, N
  <2> QED
    BY <1>5, <1>6 DEF IsSum
<1> QED
  BY <1>7

\* The weights of the simulators that were connected, added up.
LEMMA WeightSumIsSum ==
  ASSUME NEW o, IsFiniteSet(Contributing(o))
  PROVE  \E f : IsSum(f, Weight, Contributing(o)) /\ WeightSum(o) = f[Contributing(o)]
<1> DEFINE C == Contributing(o)
           F == CHOOSE f : f = [T \in SUBSET C |->
                                  IF T = {} THEN 0
                                  ELSE Weight[CHOOSE x \in T : TRUE] + f[T \ {CHOOSE x \in T : TRUE}]]
<1>1. \E f : IsSum(f, Weight, C)
  BY SumExists
<1> HIDE DEF C
<1>2. IsSum(F, Weight, C)
  BY <1>1, Zenon DEF IsSum, Taken
<1>3. MapThenSumSet(LAMBDA s : Weight[s], C) = F[C]
  BY Zenon DEF MapThenSumSet, MapThenFoldSet
<1> QED
  BY <1>2, <1>3 DEF WeightSum, C

\* What each simulator adds to the numerator of the score.
Share(o) == [s \in Contributing(o) |-> o[s].score * Weight[s]]

LEMMA ScoreSumIsSum ==
  ASSUME NEW o, IsFiniteSet(Contributing(o))
  PROVE  \E f : /\ IsSum(f, Share(o), Contributing(o))
                /\ MapThenSumSet(LAMBDA s : o[s].score * Weight[s], Contributing(o))
                     = f[Contributing(o)]
<1> DEFINE C == Contributing(o)
           g == Share(o)
           F == CHOOSE f : f = [T \in SUBSET C |->
                                  IF T = {} THEN 0
                                  ELSE o[CHOOSE x \in T : TRUE].score * Weight[CHOOSE x \in T : TRUE]
                                         + f[T \ {CHOOSE x \in T : TRUE}]]
           IsIt(f) == f = [T \in SUBSET C |->
                             IF T = {} THEN 0
                             ELSE o[Taken(T)].score * Weight[Taken(T)] + f[T \ {Taken(T)}]]
<1>1. PICK h : IsSum(h, g, C)
  BY SumExists
<1>2. \A T \in SUBSET C : T # {} => g[Taken(T)] = o[Taken(T)].score * Weight[Taken(T)]
  <2> SUFFICES ASSUME NEW T \in SUBSET C, T # {} PROVE Taken(T) \in C
    BY DEF Share
  <2> QED
    BY DEF Taken
<1> HIDE DEF C, g
<1>3. \A f : IsIt(f) <=> IsSum(f, g, C)
  BY <1>2 DEF IsSum
<1>4. IsIt(h)
  BY <1>1, <1>3
<1>5. IsIt(F)
  <2> USE DEF Taken
  <2>1. \E f : IsIt(f)
    BY <1>4
  <2> QED
    BY <2>1, Zenon
<1>6. IsSum(F, g, C)
  BY <1>3, <1>5
<1>7. MapThenSumSet(LAMBDA s : o[s].score * Weight[s], C) = F[C]
  BY Zenon DEF MapThenSumSet, MapThenFoldSet
<1> HIDE DEF F
<1>8. /\ IsSum(F, g, C)
      /\ MapThenSumSet(LAMBDA s : o[s].score * Weight[s], C) = F[C]
  BY <1>6, <1>7
<1> USE DEF C, g
<1> QED
  BY <1>8, Zenon

\* The outcomes of settled sessions: typed, and of finitely many simulators.
LEMMA OutcomeTypes ==
  ASSUME NEW o \in [Sims -> SimOutcomes]
  PROVE  /\ Contributing(o) \subseteq Sims /\ IsFiniteSet(Contributing(o))
         /\ \A s \in Sims : Weight[s] \in Int /\ o[s].score \in Int
<1>1. Contributing(o) \subseteq Sims
  BY DEF Contributing
<1>2. \A s \in Sims : Weight[s] \in Int /\ o[s].score \in Int
  BY SimsAssumption, OutcomesAssumption
<1> QED
  BY <1>1, <1>2, SimsAssumption, FS_Subset

LEMMA ProductIsInt == \A a, b \in Int : a * b \in Int
  OBVIOUS

\* A sum of integers is an integer.
LEMMA SumIsInt ==
  ASSUME NEW S, IsFiniteSet(S), NEW g, \A s \in S : g[s] \in Int,
         NEW f, IsSum(f, g, S)
  PROVE  f[S] \in Int
<1> DEFINE G == {T \in SUBSET S : f[T] \in Int}
<1>1. {} \in G
  BY DEF IsSum
<1>2. ASSUME NEW T \in SUBSET S, T # {}, T \ {Taken(T)} \in G
      PROVE  T \in G
  <2>1. Taken(T) \in S
    BY <1>2 DEF Taken
  <2>2. f[T] = g[Taken(T)] + f[T \ {Taken(T)}]
    BY <1>2 DEF IsSum
  <2> QED
    BY <1>2, <2>1, <2>2
<1>3. SUBSET S \subseteq G
  <2> HIDE DEF G
  <2> QED
    BY <1>1, <1>2, SubsetInduction
<1> QED
  BY <1>3

\* Two functions that add up the same numbers over a set come to the same.
LEMMA SumsAgree ==
  ASSUME NEW S, IsFiniteSet(S), NEW g, NEW f, IsSum(f, g, S), NEW h, IsSum(h, g, S)
  PROVE  f[S] = h[S]
<1> DEFINE G == {T \in SUBSET S : f[T] = h[T]}
<1>1. {} \in G
  BY DEF IsSum
<1>2. ASSUME NEW T \in SUBSET S, T # {}, T \ {Taken(T)} \in G
      PROVE  T \in G
  <2>1. /\ f[T] = g[Taken(T)] + f[T \ {Taken(T)}]
        /\ h[T] = g[Taken(T)] + h[T \ {Taken(T)}]
    BY <1>2 DEF IsSum
  <2> QED
    BY <1>2, <2>1
<1>3. SUBSET S \subseteq G
  <2> HIDE DEF G
  <2> QED
    BY <1>1, <1>2, SubsetInduction
<1> QED
  BY <1>3

\* The numerator of a score before its sign is settled.
ScoreSum(o) == MapThenSumSet(LAMBDA s : o[s].score * Weight[s], Contributing(o))

\* A score is a fraction of integers, its denominator positive.
LEMMA ScoreIsFraction ==
  ASSUME NEW o \in [Sims -> SimOutcomes]
  PROVE  /\ WeightSum(o) \in Int /\ ScoreSum(o) \in Int
         /\ WeightedScore(o) = IF WeightSum(o) = 0 THEN [num |-> 0, den |-> 1]
                               ELSE IF WeightSum(o) > 0
                               THEN [num |-> ScoreSum(o), den |-> WeightSum(o)]
                               ELSE [num |-> -ScoreSum(o), den |-> -WeightSum(o)]
         /\ WeightedScore(o).num \in Int /\ WeightedScore(o).den \in Nat \ {0}
<1> DEFINE C == Contributing(o)
<1>1. IsFiniteSet(C) /\ \A s \in C : Weight[s] \in Int /\ o[s].score \in Int
  BY OutcomeTypes
<1>2. \A s \in C : Share(o)[s] \in Int
  BY <1>1, ProductIsInt DEF Share
<1>3. PICK f : IsSum(f, Weight, C) /\ WeightSum(o) = f[C]
  BY <1>1, WeightSumIsSum
<1>4. PICK h : IsSum(h, Share(o), C) /\ ScoreSum(o) = h[C]
  BY <1>1, ScoreSumIsSum DEF ScoreSum
<1> HIDE DEF C
<1>5. f[C] \in Int
  BY <1>1, <1>3, SumIsInt
<1>6. h[C] \in Int
  BY <1>1, <1>2, <1>4, SumIsInt
<1>7. WeightSum(o) \in Int /\ ScoreSum(o) \in Int
  BY <1>3, <1>4, <1>5, <1>6
<1>8. WeightedScore(o) = IF WeightSum(o) = 0 THEN [num |-> 0, den |-> 1]
                         ELSE IF WeightSum(o) > 0
                         THEN [num |-> ScoreSum(o), den |-> WeightSum(o)]
                         ELSE [num |-> -ScoreSum(o), den |-> -WeightSum(o)]
  BY DEF WeightedScore, ScoreSum
<1> QED
  BY <1>7, <1>8

\* What the unreached simulators hold and what the flag `success` says make no
\* difference to a score.
LEMMA OnlyWhatWasSaidCounts ==
  ASSUME NEW o \in [Sims -> SimOutcomes]
  PROVE  /\ WeightedScore(Said(o)).num = WeightedScore(o).num
         /\ WeightedScore(Said(o)).den = WeightedScore(o).den
<1> DEFINE d == Said(o)
           C == Contributing(o)
<1>1. ASSUME NEW s \in Sims
      PROVE  /\ d[s].connected <=> o[s].connected
             /\ o[s].connected => d[s].score = o[s].score
  <2>1. o[s] \in [connected : BOOLEAN, score : Int, success : BOOLEAN]
    BY OutcomesAssumption
  <2> QED
    BY <2>1 DEF Said, Failed
<1> HIDE DEF d
<1>2. Contributing(d) = C
  BY <1>1 DEF Contributing
<1>3. Share(d) = Share(o)
  <2>1. \A s \in C : s \in Sims /\ o[s].connected
    BY DEF Contributing
  <2>2. Share(d) = [s \in C |-> d[s].score * Weight[s]]
    BY <1>2 DEF Share
  <2>3. \A s \in C : d[s].score * Weight[s] = o[s].score * Weight[s]
    BY <1>1, <2>1
  <2> HIDE DEF C
  <2>4. Share(d) = [s \in C |-> o[s].score * Weight[s]]
    BY <2>2, <2>3
  <2> QED
    BY <2>4 DEF Share, C
<1>4. IsFiniteSet(C)
  BY OutcomeTypes
<1>5. PICK f : IsSum(f, Share(o), C) /\ ScoreSum(o) = f[C]
  BY <1>4, ScoreSumIsSum DEF ScoreSum
<1>6. PICK h : IsSum(h, Share(d), C) /\ ScoreSum(d) = h[C]
  <2>1. IsFiniteSet(Contributing(d))
    BY <1>2, <1>4
  <2>2. \E h : IsSum(h, Share(d), Contributing(d)) /\ ScoreSum(d) = h[Contributing(d)]
    BY <2>1, ScoreSumIsSum DEF ScoreSum
  <2> QED
    BY <1>2, <2>2
<1>7. ScoreSum(d) = ScoreSum(o)
  <2> HIDE DEF C
  <2> QED
    BY <1>3, <1>4, <1>5, <1>6, SumsAgree
<1>8. WeightSum(d) = WeightSum(o)
  BY <1>2 DEF WeightSum
<1>9. WeightedScore(d) = IF WeightSum(d) = 0 THEN [num |-> 0, den |-> 1]
                         ELSE IF WeightSum(d) > 0
                         THEN [num |-> ScoreSum(d), den |-> WeightSum(d)]
                         ELSE [num |-> -ScoreSum(d), den |-> -WeightSum(d)]
  BY DEF WeightedScore, ScoreSum
<1> QED
  BY <1>7, <1>8, <1>9, ScoreIsFraction DEF d

\* Bounds on a sum of weighted scores, in terms of the sum of the weights.
Bounded(o, T, w, n) ==
  /\ w \in Nat /\ n \in Int
  /\ w = 0 <=> \A s \in T : Weight[s] = 0
  /\ w = 0 => n = 0
  /\ \A b \in Int : (\A s \in T : Weight[s] > 0 => b <= o[s].score) => b * w <= n
  /\ \A b \in Int : (\A s \in T : Weight[s] > 0 => o[s].score <= b) => n <= b * w

LEMMA SumsAreBounded ==
  ASSUME NEW o \in [Sims -> SimOutcomes],
         \A s \in Contributing(o) : Weight[s] >= 0,
         NEW f, IsSum(f, Weight, Contributing(o)),
         NEW h, IsSum(h, Share(o), Contributing(o))
  PROVE  Bounded(o, Contributing(o), f[Contributing(o)], h[Contributing(o)])
<1> DEFINE C == Contributing(o)
           G == {T \in SUBSET C : Bounded(o, T, f[T], h[T])}
<1>1. \A s \in C : Weight[s] \in Nat /\ o[s].score \in Int /\ s \in Sims
  BY OutcomeTypes
<1>2. {} \in G
  <2>1. f[{}] = 0 /\ h[{}] = 0
    BY DEF IsSum
  <2> QED
    BY <2>1 DEF Bounded
<1>3. ASSUME NEW T \in SUBSET C, T # {}, T \ {Taken(T)} \in G
      PROVE  T \in G
  <2> DEFINE x == Taken(T)
             U == T \ {x}
             w == Weight[x]
             c == o[x].score
             W == f[U]
             N == h[U]
  <2>1. x \in T /\ x \in C
    BY <1>3 DEF Taken
  <2>2. f[T] = w + W /\ h[T] = c * w + N
    <3>1. f[T] = Weight[x] + f[U]
      BY <1>3 DEF IsSum
    <3>2. h[T] = Share(o)[x] + h[U]
      BY <1>3 DEF IsSum
    <3>3. Share(o)[x] = o[x].score * Weight[x]
      BY <1>1, <2>1 DEF Share
    <3> QED
      BY <3>1, <3>2, <3>3
  <2>3. w \in Nat /\ c \in Int
    BY <1>1, <2>1
  <2>4. Bounded(o, U, W, N)
    BY <1>3
  <2>5. \A s \in T : s = x \/ s \in U
    OBVIOUS
  <2> HIDE DEF x, U, w, c, W, N
  <2>6. W \in Nat /\ N \in Int /\ c * w \in Int
    BY <2>3, <2>4 DEF Bounded
  <2>7. f[T] \in Nat /\ h[T] \in Int
    BY <2>2, <2>3, <2>6
  <2>8. f[T] = 0 <=> \A s \in T : Weight[s] = 0
    <3>1. f[T] = 0 <=> w = 0 /\ W = 0
      BY <2>2, <2>3, <2>6
    <3>2. W = 0 <=> \A s \in U : Weight[s] = 0
      BY <2>4 DEF Bounded
    <3>3. w = Weight[x] /\ U \subseteq T
      BY DEF w, U
    <3> QED
      BY <2>1, <2>5, <3>1, <3>2, <3>3
  <2>9. f[T] = 0 => h[T] = 0
    <3> SUFFICES ASSUME f[T] = 0 PROVE h[T] = 0
      OBVIOUS
    <3>1. w = 0 /\ W = 0
      BY <2>2, <2>3, <2>6
    <3>2. N = 0
      BY <2>4, <3>1 DEF Bounded
    <3> QED
      BY <2>2, <2>3, <3>1, <3>2
  <2>10. ASSUME NEW b \in Int, \A s \in T : Weight[s] > 0 => b <= o[s].score
         PROVE  b * f[T] <= h[T]
    <3>1. b * W <= N
      BY <2>4, <2>10 DEF Bounded, U
    <3>2. b * w <= c * w
      <4>1. CASE w = 0
        BY <2>3, <4>1
      <4>2. CASE w # 0
        <5>1. b <= c
          BY <2>1, <2>3, <2>10, <4>2 DEF w, c
        <5> QED
          BY <2>3, <5>1
      <4> QED
        BY <4>1, <4>2
    <3>3. b * f[T] = b * w + b * W
      BY <2>2, <2>3, <2>6
    <3>4. b * w \in Int /\ b * W \in Int
      BY <2>3, <2>6
    <3> QED
      BY <2>2, <2>6, <3>1, <3>2, <3>3, <3>4
  <2>11. ASSUME NEW b \in Int, \A s \in T : Weight[s] > 0 => o[s].score <= b
         PROVE  h[T] <= b * f[T]
    <3>1. N <= b * W
      BY <2>4, <2>11 DEF Bounded, U
    <3>2. c * w <= b * w
      <4>1. CASE w = 0
        BY <2>3, <4>1
      <4>2. CASE w # 0
        <5>1. c <= b
          BY <2>1, <2>3, <2>11, <4>2 DEF w, c
        <5> QED
          BY <2>3, <5>1
      <4> QED
        BY <4>1, <4>2
    <3>3. b * f[T] = b * w + b * W
      BY <2>2, <2>3, <2>6
    <3>4. b * w \in Int /\ b * W \in Int
      BY <2>3, <2>6
    <3> QED
      BY <2>2, <2>6, <3>1, <3>2, <3>3, <3>4
  <2> QED
    BY <2>7, <2>8, <2>9, <2>10, <2>11 DEF Bounded
<1>4. SUBSET C \subseteq G
  <2>1. IsFiniteSet(C)
    BY OutcomeTypes
  <2> HIDE DEF C, G
  <2> QED
    BY <1>2, <1>3, <2>1, SubsetInduction
<1>5. C \in G
  <2> HIDE DEF G
  <2> QED
    BY <1>4
<1> QED
  BY <1>5

\* A plan's score in terms of its simulators' scores.
LEMMA ScoreIsBounded ==
  ASSUME NEW o \in [Sims -> SimOutcomes],
         \A s \in Contributing(o) : Weight[s] >= 0
  PROVE  /\ (\A s \in Contributing(o) : Weight[s] = 0) => WeightedScore(o).num = 0
         /\ ~(\A s \in Contributing(o) : Weight[s] = 0)
              => Bounded(o, Contributing(o), WeightedScore(o).den, WeightedScore(o).num)
<1> DEFINE C == Contributing(o)
<1>1. IsFiniteSet(C)
  BY OutcomeTypes
<1>2. PICK f : IsSum(f, Weight, C) /\ WeightSum(o) = f[C]
  BY <1>1, WeightSumIsSum
<1>3. PICK h : IsSum(h, Share(o), C) /\ ScoreSum(o) = h[C]
  BY <1>1, ScoreSumIsSum DEF ScoreSum
<1>4. Bounded(o, C, WeightSum(o), ScoreSum(o))
  <2>1. Bounded(o, C, f[C], h[C])
    BY <1>2, <1>3, SumsAreBounded
  <2> HIDE DEF C
  <2> QED
    BY <1>2, <1>3, <2>1
<1> HIDE DEF C
<1>5. WeightSum(o) \in Nat
  BY <1>4 DEF Bounded
<1>6. CASE WeightSum(o) = 0
  BY <1>4, <1>6, ScoreIsFraction DEF Bounded, C
<1>7. CASE WeightSum(o) # 0
  <2>1. WeightedScore(o) = [num |-> ScoreSum(o), den |-> WeightSum(o)]
    BY <1>5, <1>7, ScoreIsFraction
  <2> QED
    BY <1>4, <1>7, <2>1 DEF Bounded, C
<1> QED
  BY <1>6, <1>7

\* Among the scores of finitely many simulators there are a highest and a lowest.
LEMMA Extremes ==
  ASSUME NEW o \in [Sims -> SimOutcomes], NEW P \in SUBSET Sims, P # {}
  PROVE  /\ \E s \in P : \A t \in P : o[t].score <= o[s].score
         /\ \E s \in P : \A t \in P : o[s].score <= o[t].score
<1> DEFINE G == {T \in SUBSET P : T # {} =>
                   /\ \E s \in T : \A t \in T : o[t].score <= o[s].score
                   /\ \E s \in T : \A t \in T : o[s].score <= o[t].score}
<1>1. \A s \in P : o[s].score \in Int
  BY OutcomeTypes
<1>2. {} \in G
  OBVIOUS
<1>3. ASSUME NEW T \in SUBSET P, T # {}, T \ {Taken(T)} \in G
      PROVE  T \in G
  <2> DEFINE x == Taken(T)
             U == T \ {x}
  <2>1. x \in T
    BY <1>3 DEF Taken
  <2>2. CASE U = {}
    <3>1. \A t \in T : t = x
      BY <2>2
    <3> HIDE DEF x
    <3> QED
      BY <1>1, <2>1, <3>1
  <2>3. CASE U # {}
    <3>1. PICK u \in U : \A t \in U : o[t].score <= o[u].score
      BY <1>3, <2>3
    <3>2. PICK v \in U : \A t \in U : o[v].score <= o[t].score
      BY <1>3, <2>3
    <3>3. \A t \in T : t = x \/ t \in U
      OBVIOUS
    <3>4. u \in T /\ v \in T /\ U \subseteq P
      OBVIOUS
    <3> HIDE DEF x, U
    <3>5. \E s \in T : \A t \in T : o[t].score <= o[s].score
      <4>1. CASE o[u].score <= o[x].score
        BY <1>1, <2>1, <3>1, <3>3, <3>4, <4>1
      <4>2. CASE ~(o[u].score <= o[x].score)
        BY <1>1, <2>1, <3>1, <3>3, <3>4, <4>2
      <4> QED
        BY <4>1, <4>2
    <3>6. \E s \in T : \A t \in T : o[s].score <= o[t].score
      <4>1. CASE o[x].score <= o[v].score
        BY <1>1, <2>1, <3>2, <3>3, <3>4, <4>1
      <4>2. CASE ~(o[x].score <= o[v].score)
        BY <1>1, <2>1, <3>2, <3>3, <3>4, <4>2
      <4> QED
        BY <4>1, <4>2
    <3> QED
      BY <3>5, <3>6
  <2> QED
    BY <2>2, <2>3
<1>4. SUBSET P \subseteq G
  <2>1. IsFiniteSet(P)
    BY SimsAssumption, FS_Subset
  <2> HIDE DEF G
  <2> QED
    BY <1>2, <1>3, <2>1, SubsetInduction
<1>5. P \in G
  <2> HIDE DEF G
  <2> QED
    BY <1>4
<1> QED
  BY <1>5

\* The weighted mean of a plan lies between its extremes.
LEMMA ScoreLiesBetween ==
  ASSUME NEW o \in [Sims -> SimOutcomes],
         \A s \in Contributing(o) : Weight[s] >= 0
  PROVE  LET r      == WeightedScore(o)
             scores == {o[s].score : s \in {s \in Contributing(o) : Weight[s] > 0}}
         IN  IF scores = {} THEN r.num = 0
             ELSE r.den * Min(scores) <= r.num /\ r.num <= r.den * Max(scores)
<1> DEFINE P == {s \in Contributing(o) : Weight[s] > 0}
           scores == {o[s].score : s \in P}
           r == WeightedScore(o)
<1>1. P \subseteq Sims /\ P \subseteq Contributing(o)
  BY DEF Contributing
<1>2. \A s \in Contributing(o) : Weight[s] \in Int /\ o[s].score \in Int
  BY OutcomeTypes
<1>3. CASE P = {}
  <2>1. \A s \in Contributing(o) : Weight[s] = 0
    BY <1>2, <1>3
  <2>2. r.num = 0
    BY <2>1, ScoreIsBounded
  <2> QED
    BY <1>3, <2>2
<1>4. CASE P # {}
  <2>1. PICK hi \in P : \A t \in P : o[t].score <= o[hi].score
    BY <1>1, <1>4, Extremes
  <2>2. PICK lo \in P : \A t \in P : o[lo].score <= o[t].score
    BY <1>1, <1>4, Extremes
  <2>3. Bounded(o, Contributing(o), r.den, r.num)
    BY <1>4, <1>2, ScoreIsBounded
  <2>4. r.num \in Int /\ r.den \in Nat
    BY ScoreIsFraction
  <2>5. scores # {}
    BY <2>1
  <2>6. \A y \in scores : y \in Int
    BY <1>1, <1>2
  <2>7. Max(scores) \in scores /\ \A y \in scores : Max(scores) >= y
    <3>1. \E x \in scores : \A y \in scores : x >= y
      <4>1. o[hi].score \in scores
        OBVIOUS
      <4>2. \A y \in scores : o[hi].score >= y
        BY <1>1, <1>2, <2>1
      <4> QED
        BY <4>1, <4>2
    <3> HIDE DEF scores
    <3> QED
      BY <3>1, Zenon DEF Max
  <2>8. Min(scores) \in scores /\ \A y \in scores : Min(scores) <= y
    <3>1. \E x \in scores : \A y \in scores : x <= y
      <4>1. o[lo].score \in scores
        OBVIOUS
      <4>2. \A y \in scores : o[lo].score <= y
        BY <1>1, <1>2, <2>2
      <4> QED
        BY <4>1, <4>2
    <3> HIDE DEF scores
    <3> QED
      BY <3>1, Zenon DEF Min
  <2>9. Min(scores) \in Int /\ Max(scores) \in Int
    BY <2>6, <2>7, <2>8
  <2>10. /\ \A s \in Contributing(o) : Weight[s] > 0 => Min(scores) <= o[s].score
         /\ \A s \in Contributing(o) : Weight[s] > 0 => o[s].score <= Max(scores)
    <3> SUFFICES ASSUME NEW s \in Contributing(o), Weight[s] > 0
                 PROVE  Min(scores) <= o[s].score /\ o[s].score <= Max(scores)
      OBVIOUS
    <3>1. o[s].score \in scores
      OBVIOUS
    <3> HIDE DEF scores
    <3> QED
      BY <1>2, <2>7, <2>8, <2>9, <3>1
  <2> HIDE DEF scores, r
  <2>11. Min(scores) * r.den <= r.num /\ r.num <= Max(scores) * r.den
    BY <2>3, <2>9, <2>10 DEF Bounded
  <2>12. r.den * Min(scores) <= r.num /\ r.num <= r.den * Max(scores)
    BY <2>4, <2>9, <2>11
  <2> USE DEF r
  <2> QED
    BY <2>5, <2>12 DEF scores
<1> QED
  BY <1>3, <1>4

------------------------------------------------------------------------------
\* What the sessions of an evaluation have come to so far, plan by plan.
Settling == Seq([Sims -> SimOutcomes \cup {None}])

\* The end of an evaluation leaves a typed, sound ranking of its plans.
LEMMA InstallIsSound ==
  ASSUME NEW call \in Calls, NEW got \in Settling, Len(got) <= MaxPlans,
         AllSettled(got), Install(call, got)
  PROVE  /\ results' \in Seq(Result) /\ DOMAIN results' = 1..Len(got)
         /\ selectedPlanId' \in 1..MaxPlans \cup {None}
         /\ RankingIsSound'
<1> DEFINE n == Len(got)
           scores == [p \in DOMAIN got |-> WeightedScore(got[p])]
<1>1. n \in Nat /\ DOMAIN got = 1..n /\ 1..n \subseteq 1..MaxPlans
  BY PlansAssumption DEF Settling
<1>2. \A p \in 1..n : got[p] \in [Sims -> SimOutcomes]
  <2> SUFFICES ASSUME NEW p \in 1..n PROVE got[p] \in [Sims -> SimOutcomes]
    OBVIOUS
  <2>1. got[p] \in [Sims -> SimOutcomes \cup {None}]
    BY <1>1 DEF Settling
  <2>2. \A s \in Sims : got[p][s] # None
    BY <1>1 DEF AllSettled
  <2> QED
    BY <2>1, <2>2
<1>3. \A p \in 1..n : /\ scores[p] = WeightedScore(got[p])
                      /\ scores[p].num \in Int /\ scores[p].den \in Nat \ {0}
  BY <1>1, <1>2, ScoreIsFraction
<1>4. results' \in Rankings(call, got, scores)
  BY DEF Install
<1>5. PICK order \in [1..n -> 1..n] :
        /\ \A i, j \in 1..n : i < j => Before(order[i], order[j], scores)
        /\ results' = [k \in 1..n |-> [plan     |-> [id |-> order[k], call |-> call],
                                       outcomes |-> got[order[k]],
                                       num      |-> scores[order[k]].num,
                                       den      |-> scores[order[k]].den]]
  <2> HIDE DEF scores
  <2> QED
    BY <1>4 DEF Rankings
<1> HIDE DEF scores
<1>6. DOMAIN results' = 1..n
  BY <1>5
<1>7. ASSUME NEW k \in 1..n
      PROVE  /\ order[k] \in 1..n
             /\ results'[k].plan = [id |-> order[k], call |-> call]
             /\ results'[k].plan.id = order[k] /\ results'[k].plan.call = call
             /\ results'[k].outcomes = got[order[k]]
             /\ results'[k].num = scores[order[k]].num
             /\ results'[k].den = scores[order[k]].den
             /\ results'[k] \in Result
  <2>1. order[k] \in 1..n
    BY <1>5
  <2>2. results'[k] = [plan     |-> [id |-> order[k], call |-> call],
                       outcomes |-> got[order[k]],
                       num      |-> scores[order[k]].num,
                       den      |-> scores[order[k]].den]
    BY <1>5
  <2>3. [id |-> order[k], call |-> call] \in Plans
    BY <1>1, <2>1 DEF Plans
  <2>4. results'[k] \in Result
    BY <1>2, <1>3, <2>1, <2>2, <2>3 DEF Result
  <2> QED
    BY <2>1, <2>2, <2>4
<1>8. results' \in Seq(Result)
  BY <1>1, <1>5, <1>7
<1>9. results' = <<>> <=> n = 0
  <2>1. n = 0 => results' = <<>>
    <3> SUFFICES ASSUME n = 0 PROVE results' = <<>>
      OBVIOUS
    <3>1. DOMAIN results' = {}
      BY <1>6
    <3> QED
      BY <1>8, <3>1
  <2>2. n # 0 => results' # <<>>
    <3> SUFFICES ASSUME n # 0 PROVE results' # <<>>
      OBVIOUS
    <3>1. 1 \in DOMAIN results'
      BY <1>1, <1>6
    <3> QED
      BY <3>1
  <2> QED
    BY <2>1, <2>2
<1>10. selectedPlanId' = IF results' = <<>> THEN None ELSE results'[1].plan.id
  BY DEF Install
<1>11. selectedPlanId' \in 1..MaxPlans \cup {None}
  <2>1. CASE n = 0
    BY <1>9, <1>10, <2>1
  <2>2. CASE n # 0
    <3>1. 1 \in 1..n
      BY <1>1, <2>2
    <3>2. results'[1].plan.id \in 1..MaxPlans
      BY <1>1, <1>7, <3>1
    <3> QED
      BY <1>9, <1>10, <2>2, <3>2
  <2> QED
    BY <2>1, <2>2
<1>12. RankingIsOneEvaluation'
  <2>1. ASSUME NEW i \in DOMAIN results', NEW j \in DOMAIN results'
        PROVE  /\ results'[i].plan.call = results'[j].plan.call
               /\ i < j => /\ results'[i].plan.id # results'[j].plan.id
                           /\ results'[i].num * results'[j].den
                                >= results'[j].num * results'[i].den
    <3>1. i \in 1..n /\ j \in 1..n
      BY <1>6
    <3>2. results'[i].plan.call = results'[j].plan.call
      BY <1>7, <3>1
    <3>3. ASSUME i < j
          PROVE  /\ order[i] # order[j]
                 /\ scores[order[i]].num * scores[order[j]].den
                      >= scores[order[j]].num * scores[order[i]].den
      <4> DEFINE a == scores[order[i]].num * scores[order[j]].den
                 b == scores[order[j]].num * scores[order[i]].den
      <4>1. a \in Int /\ b \in Int /\ order[i] \in Nat /\ order[j] \in Nat
        <5>1. order[i] \in 1..n /\ order[j] \in 1..n
          BY <1>7, <3>1
        <5>2. /\ scores[order[i]].num \in Int /\ scores[order[i]].den \in Int
              /\ scores[order[j]].num \in Int /\ scores[order[j]].den \in Int
          BY <1>3, <5>1
        <5>3. a \in Int /\ b \in Int
          BY <5>2, ProductIsInt
        <5> QED
          BY <5>1, <5>3
      <4>2. a > b \/ (a = b /\ order[i] < order[j])
        BY <1>5, <3>1, <3>3 DEF Before
      <4>3. order[i] = order[j] => a = b
        OBVIOUS
      <4> HIDE DEF a, b
      <4>4. a >= b /\ order[i] # order[j]
        BY <4>1, <4>2, <4>3
      <4> QED
        BY <4>4 DEF a, b
    <3> QED
      BY <1>7, <3>1, <3>2, <3>3
  <2>2. \A i \in DOMAIN results' : results'[i].plan.id \in DOMAIN results'
    BY <1>6, <1>7
  <2>3. IF results' = <<>> THEN selectedPlanId' = None ELSE IsSelectedPlan(results[1])'
    <3>1. CASE results' = <<>>
      BY <1>10, <3>1
    <3>2. CASE results' # <<>>
      <4>1. 1 \in DOMAIN results' /\ selectedPlanId' = results'[1].plan.id
        BY <1>1, <1>6, <1>9, <1>10, <3>2
      <4>2. \A j \in 1..(1 - 1) : results'[j].plan.id # selectedPlanId'
        OBVIOUS
      <4> QED
        BY <3>2, <4>1, <4>2 DEF IsSelectedPlan
    <3> QED
      BY <3>1, <3>2
  <2> QED
    BY <2>1, <2>2, <2>3 DEF RankingIsOneEvaluation
<1>13. ASSUME NEW k \in DOMAIN results'
       PROVE  /\ results'[k].outcomes \in [Sims -> SimOutcomes]
              /\ results'[k].num = WeightedScore(results'[k].outcomes).num
              /\ results'[k].den = WeightedScore(results'[k].outcomes).den
  <2>1. k \in 1..n
    BY <1>6
  <2>2. /\ order[k] \in 1..n /\ results'[k].outcomes = got[order[k]]
        /\ results'[k].num = scores[order[k]].num /\ results'[k].den = scores[order[k]].den
    BY <1>7, <2>1
  <2>3. got[order[k]] \in [Sims -> SimOutcomes]
    BY <1>2, <2>2
  <2>4. scores[order[k]] = WeightedScore(got[order[k]])
    BY <1>3, <2>2
  <2> QED
    BY <2>2, <2>3, <2>4
<1>14. ScoreBetweenExtremes'
  <2> SUFFICES ASSUME NEW k \in DOMAIN results',
                      \A s \in Contributing(results'[k].outcomes) : Weight[s] >= 0
               PROVE  LET r == results'[k]
                          values == {r.outcomes[s].score :
                                       s \in {s \in Contributing(r.outcomes) : Weight[s] > 0}}
                      IN  IF values = {} THEN r.num = 0
                          ELSE r.den * Min(values) <= r.num /\ r.num <= r.den * Max(values)
    BY DEF ScoreBetweenExtremes
  <2> DEFINE o == results'[k].outcomes
  <2>1. /\ o \in [Sims -> SimOutcomes]
        /\ results'[k].num = WeightedScore(o).num /\ results'[k].den = WeightedScore(o).den
        /\ \A s \in Contributing(o) : Weight[s] >= 0
    BY <1>13
  <2> HIDE DEF o
  <2>2. LET r      == WeightedScore(o)
            values == {o[s].score : s \in {s \in Contributing(o) : Weight[s] > 0}}
        IN  IF values = {} THEN r.num = 0
            ELSE r.den * Min(values) <= r.num /\ r.num <= r.den * Max(values)
    BY <2>1, ScoreLiesBetween
  <2>3. LET values == {o[s].score : s \in {s \in Contributing(o) : Weight[s] > 0}}
        IN  IF values = {} THEN results'[k].num = 0
            ELSE /\ results'[k].den * Min(values) <= results'[k].num
                 /\ results'[k].num <= results'[k].den * Max(values)
    BY <2>1, <2>2
  <2> QED
    BY <2>3 DEF o
<1>15. ScoreIsOfAllReached'
  <2> SUFFICES ASSUME NEW k \in DOMAIN results'
               PROVE  LET said == WeightedScore(Said(results'[k].outcomes))
                      IN  results'[k].num = said.num /\ results'[k].den = said.den
    BY DEF ScoreIsOfAllReached
  <2> DEFINE o == results'[k].outcomes
  <2>1. /\ o \in [Sims -> SimOutcomes]
        /\ results'[k].num = WeightedScore(o).num /\ results'[k].den = WeightedScore(o).den
    BY <1>13
  <2> HIDE DEF o
  <2>2. results'[k].num = WeightedScore(Said(o)).num /\ results'[k].den = WeightedScore(Said(o)).den
    BY <2>1, OnlyWhatWasSaidCounts
  <2> QED
    BY <2>2 DEF o
<1> QED
  BY <1>6, <1>8, <1>11, <1>12, <1>14, <1>15 DEF RankingIsSound

\* A step of one evaluation of n plans: its sessions have all settled and it is
\* installed, or it goes on.
Advances(c, n) ==
  \E got \in Settling :
    /\ Len(got) = n
    /\ \/ AllSettled(got) /\ Install(c, got)
       \/ /\ n # 0
          /\ stage' = [stage EXCEPT ![c] = "running"]
          /\ outcomes' = [outcomes EXCEPT ![c] = got]
          /\ UNCHANGED <<results, selectedPlanId, confirmed, issued>>

LEMMA StartAdvances ==
  ASSUME NEW c \in Calls, NEW n \in 0..MaxPlans, StartEvaluation(c, n)
  PROVE  Advances(c, n) /\ stage[c] = "idle"
<1> DEFINE pending == [p \in 1..n |-> [s \in Sims |-> None]]
<1>1. pending \in Settling /\ Len(pending) = n /\ n \in Nat
  BY PlansAssumption DEF Settling
<1>2. ~AllSettled(pending) => n # 0
  <2>1. n = 0 => DOMAIN pending = {}
    OBVIOUS
  <2> QED
    BY <2>1 DEF AllSettled
<1> QED
  BY <1>1, <1>2 DEF StartEvaluation, Advances

LEMMA SettleAdvances ==
  ASSUME TypeOK, SelectionInv, NEW c \in Calls, SomeSettle(c)
  PROVE  Advances(c, Len(outcomes[c])) /\ stage[c] = "running" /\ Len(outcomes[c]) \in 1..MaxPlans
<1>1. PICK p \in DOMAIN outcomes[c], s \in Sims, o \in SimOutcomes : Settle(c, p, s, o)
  BY DEF SomeSettle
<1> DEFINE got == [outcomes[c] EXCEPT ![p][s] = o]
<1>2. outcomes[c] \in Settling /\ Len(outcomes[c]) <= MaxPlans
  BY DEF SelectionInv, Settling
<1>3. got \in Settling /\ Len(got) = Len(outcomes[c])
  <2>1. [outcomes[c][p] EXCEPT ![s] = o] \in [Sims -> SimOutcomes \cup {None}]
    BY <1>1, <1>2 DEF Settling
  <2>2. got = [outcomes[c] EXCEPT ![p] = [outcomes[c][p] EXCEPT ![s] = o]]
    OBVIOUS
  <2> QED
    BY <1>2, <2>1, <2>2 DEF Settling
<1>4. Len(outcomes[c]) \in 1..MaxPlans
  BY <1>1, <1>2, PlansAssumption DEF Settling
<1>5. stage[c] = "running"
  BY <1>1 DEF Settle
<1>6. stage = [stage EXCEPT ![c] = "running"]
  BY <1>5 DEF TypeOK
<1>7. \/ AllSettled(got) /\ Install(c, got)
      \/ /\ outcomes' = [outcomes EXCEPT ![c] = got]
         /\ UNCHANGED <<stage, results, selectedPlanId, confirmed, issued>>
  BY <1>1 DEF Settle
<1> HIDE DEF got
<1> QED
  BY <1>3, <1>4, <1>5, <1>6, <1>7 DEF Advances

\* The service is well typed, and what it ranks is sound.
ServiceInv == TypeOK /\ RankingIsSound

\* The soundness of a ranking depends on nothing but the ranking and the choice.
LEMMA RankingUnmoved ==
  ASSUME RankingIsSound, UNCHANGED <<results, selectedPlanId>>
  PROVE  RankingIsSound'
<1>1. results' = results /\ selectedPlanId' = selectedPlanId
  OBVIOUS
<1>2. IsSelectedPlan(results[1])' <=> IsSelectedPlan(results[1])
  BY <1>1 DEF IsSelectedPlan
<1>3. RankingIsOneEvaluation'
  BY <1>1, <1>2 DEF RankingIsSound, RankingIsOneEvaluation
<1>4. ScoreBetweenExtremes'
  BY <1>1 DEF RankingIsSound, ScoreBetweenExtremes
<1>5. ScoreIsOfAllReached'
  BY <1>1 DEF RankingIsSound, ScoreIsOfAllReached
<1> QED
  BY <1>3, <1>4, <1>5 DEF RankingIsSound

LEMMA PlansOfResults ==
  ASSUME TypeOK
  PROVE  \A k \in DOMAIN results : results[k].plan \in Plans
<1> SUFFICES ASSUME NEW k \in DOMAIN results PROVE results[k].plan \in Plans
  OBVIOUS
<1>1. results[k] \in Result
  BY DEF TypeOK
<1> QED
  BY <1>1 DEF Result

LEMMA AdvanceKeepsService ==
  ASSUME ServiceInv, NEW c \in Calls, NEW n \in 0..MaxPlans, Advances(c, n)
  PROVE  ServiceInv'
<1>1. PICK got \in Settling :
        /\ Len(got) = n
        /\ \/ AllSettled(got) /\ Install(c, got)
           \/ /\ stage' = [stage EXCEPT ![c] = "running"]
              /\ outcomes' = [outcomes EXCEPT ![c] = got]
              /\ UNCHANGED <<results, selectedPlanId, confirmed, issued>>
  BY DEF Advances
<1>2. CASE AllSettled(got) /\ Install(c, got)
  <2>1. /\ results' \in Seq(Result)
        /\ selectedPlanId' \in 1..MaxPlans \cup {None}
        /\ RankingIsSound'
    BY <1>1, <1>2, InstallIsSound, PlansAssumption
  <2>2. <<>> \in Settling
    BY DEF Settling
  <2>3. outcomes' \in [Calls -> Settling]
    BY <1>2, <2>2 DEF Install, ServiceInv, TypeOK, Settling
  <2> QED
    BY <1>2, <2>1, <2>3 DEF Install, ServiceInv, TypeOK, Settling
<1>3. CASE /\ stage' = [stage EXCEPT ![c] = "running"]
           /\ outcomes' = [outcomes EXCEPT ![c] = got]
           /\ UNCHANGED <<results, selectedPlanId, confirmed, issued>>
  <2>1. TypeOK'
    BY <1>3 DEF ServiceInv, TypeOK, Settling
  <2> QED
    BY <1>3, <2>1, RankingUnmoved DEF ServiceInv
<1> QED
  BY <1>1, <1>2, <1>3

LEMMA ServiceInvInit == Init => ServiceInv
<1> SUFFICES ASSUME Init PROVE ServiceInv
  OBVIOUS
<1>1. TypeOK
  <2>1. /\ stage \in [Calls -> {"idle", "running", "evaluated"}]
        /\ outcomes \in [Calls -> Seq([Sims -> SimOutcomes \cup {None}])]
    BY DEF Init
  <2>2. results \in Seq(Result)
    <3>1. <<>> \in Seq(Result)
      OBVIOUS
    <3> QED
      BY <3>1 DEF Init
  <2>3. /\ selectedPlanId \in 1..MaxPlans \cup {None}
        /\ issued \subseteq Plans /\ confirmed \in BOOLEAN
    BY DEF Init
  <2> QED
    BY <2>1, <2>2, <2>3 DEF TypeOK
<1>2. results = <<>> /\ selectedPlanId = None /\ DOMAIN results = {}
  BY DEF Init
<1>3. RankingIsSound
  BY <1>2 DEF RankingIsSound, RankingIsOneEvaluation, ScoreBetweenExtremes, ScoreIsOfAllReached
<1> QED
  BY <1>1, <1>3 DEF ServiceInv

LEMMA ServiceInvStep ==
  ASSUME SelectionInv, ServiceInv, [Next]_vars
  PROVE  ServiceInv'
<1>1. ASSUME NEW call \in Calls, NEW n \in 0..MaxPlans, StartEvaluation(call, n)
      PROVE  ServiceInv'
  BY <1>1, StartAdvances, AdvanceKeepsService
<1>2. ASSUME NEW call \in Calls, SomeSettle(call)
      PROVE  ServiceInv'
  <2>1. Advances(call, Len(outcomes[call])) /\ Len(outcomes[call]) \in 0..MaxPlans
    BY <1>2, SettleAdvances DEF ServiceInv
  <2> QED
    BY <2>1, AdvanceKeepsService
<1>3. CASE ConfirmSelection
  <2>1. RankingIsSound'
    BY <1>3, RankingUnmoved DEF ConfirmSelection, ServiceInv
  <2> QED
    BY <1>3, <2>1 DEF ConfirmSelection, ServiceInv, TypeOK
<1>4. CASE DispatchSelected
  <2>1. \A k \in DOMAIN results : results[k].plan \in Plans
    BY PlansOfResults DEF ServiceInv
  <2>2. issued' \subseteq Plans
    BY <1>4, <2>1 DEF DispatchSelected, ServiceInv, TypeOK
  <2>3. RankingIsSound'
    BY <1>4, RankingUnmoved DEF DispatchSelected, ServiceInv
  <2> QED
    BY <1>4, <2>2, <2>3 DEF DispatchSelected, ServiceInv, TypeOK
<1>5. CASE UNCHANGED vars
  <2>1. RankingIsSound'
    BY <1>5, RankingUnmoved DEF vars, ServiceInv
  <2> QED
    BY <1>5, <2>1 DEF vars, ServiceInv, TypeOK
<1> QED
  BY <1>1, <1>2, <1>3, <1>4, <1>5 DEF Next

LEMMA ServiceInvariant == Spec => []ServiceInv
  BY SelectionInvariant, ServiceInvInit, ServiceInvStep, PTL DEF Spec

\* weightedAggregate and the sort behind it: whatever the simulators answer and
\* however evaluations overlap, a ranking is one evaluation's, in order; each
\* score lies between what its connected simulators said, those with
\* success: false among them, unless one of them has a negative weight.
THEOREM RankingSound == HostSpec => []RankingIsSound
<1>1. ServiceInv => RankingIsSound
  BY DEF ServiceInv
<1> QED
  BY <1>1, HostImplementsService, ServiceInvariant, PTL

------------------------------------------------------------------------------
\* The types of the adapter, and why an answer on the screen has a best plan:
\* only an evaluation of at least one plan is waited for.
HostShape ==
  /\ HostTypeOK
  /\ \A c \in Calls : stage[c] = "running" => outcomes[c] # <<>>
  /\ \A c \in Calls : returned[c] # None => returned[c] # <<>>
  /\ \A c \in Calls : replies[c] # None => replies[c].plans # <<>>

LEMMA HostShapeInit == HostInit => HostShape
<1> SUFFICES ASSUME HostInit PROVE HostShape
  OBVIOUS
<1>1. TypeOK
  BY ServiceInvInit DEF HostInit, ServiceInv
<1>2. stage = [c \in Calls |-> "idle"]
  BY DEF HostInit, Init
<1> QED
  BY <1>1, <1>2 DEF HostInit, HostShape, HostTypeOK

\* An evaluation of one plan or more goes on, or its ranking is returned.
LEMMA ResolvingKeepsShape ==
  ASSUME HostShape, ServiceInv', NEW c \in Calls, NEW n \in 1..MaxPlans, Advances(c, n),
         Resolving(c), UNCHANGED <<replies, consents>>,
         phase' \in [Calls -> {"idle", "drafting", "evaluating", "answered", "failed", "direct"}]
  PROVE  HostShape'
<1>1. PICK got \in Settling :
        /\ Len(got) = n
        /\ \/ AllSettled(got) /\ Install(c, got)
           \/ /\ stage' = [stage EXCEPT ![c] = "running"]
              /\ outcomes' = [outcomes EXCEPT ![c] = got]
  BY DEF Advances
<1>2. n \in Nat /\ n # 0 /\ n <= MaxPlans
  BY PlansAssumption
<1>3. TypeOK' /\ TypeOK
  BY DEF ServiceInv, HostShape, HostTypeOK
<1>4. CASE AllSettled(got) /\ Install(c, got)
  <2>1. results' \in Seq(Result) /\ DOMAIN results' = 1..n
    BY <1>1, <1>2, <1>4, InstallIsSound
  <2>2. RankedPlans' = [k \in 1..n |-> results'[k].plan]
    BY <2>1 DEF RankedPlans
  <2>3. \A k \in 1..n : results'[k].plan \in Plans
    <3> SUFFICES ASSUME NEW k \in 1..n PROVE results'[k].plan \in Plans
      OBVIOUS
    <3>1. results'[k] \in Result
      BY <2>1
    <3> QED
      BY <3>1 DEF Result
  <2>4. RankedPlans' \in Seq(Plans) /\ Len(RankedPlans') = n
    BY <1>2, <2>2, <2>3
  <2>5. RankedPlans' # <<>>
    BY <1>2, <2>4
  <2>6. stage' = [stage EXCEPT ![c] = "evaluated"] /\ outcomes' = [outcomes EXCEPT ![c] = <<>>]
    BY <1>4 DEF Install
  <2>7. returned' = [returned EXCEPT ![c] = RankedPlans']
    BY <1>3, <2>6 DEF Resolving, TypeOK
  <2>8. returned' \in [Calls -> Seq(Plans) \cup {None}]
    BY <2>4, <2>7 DEF HostShape, HostTypeOK
  <2>9. \A d \in Calls : returned'[d] # None => returned'[d] # <<>>
    BY <2>5, <2>7 DEF HostShape, HostTypeOK
  <2>10. \A d \in Calls : stage'[d] = "running" => outcomes'[d] # <<>>
    BY <1>3, <2>6 DEF HostShape, TypeOK
  <2> QED
    BY <1>3, <2>8, <2>9, <2>10 DEF HostShape, HostTypeOK
<1>5. CASE /\ stage' = [stage EXCEPT ![c] = "running"]
           /\ outcomes' = [outcomes EXCEPT ![c] = got]
  <2>1. returned' = returned
    BY <1>3, <1>5 DEF Resolving, TypeOK
  <2>2. got # <<>>
    BY <1>1, <1>2
  <2>3. \A d \in Calls : stage'[d] = "running" => outcomes'[d] # <<>>
    BY <1>3, <1>5, <2>2 DEF HostShape, TypeOK
  <2> QED
    BY <1>3, <2>1, <2>3 DEF HostShape, HostTypeOK
<1> QED
  BY <1>1, <1>4, <1>5

LEMMA HostShapeStep ==
  ASSUME SelectionInv, HostShape, ServiceInv', [HostNext]_allVars
  PROVE  HostShape'
<1> DEFINE Phases == {"idle", "drafting", "evaluating", "answered", "failed", "direct"}
<1>1. TypeOK' /\ TypeOK /\ phase \in [Calls -> Phases]
  BY DEF ServiceInv, HostShape, HostTypeOK
<1>2. ASSUME NEW c \in Calls, GeneratePlans(c) \/ DraftFails(c) PROVE HostShape'
  BY <1>1, <1>2 DEF GeneratePlans, DraftFails, vars, HostShape, HostTypeOK
<1>3. ASSUME NEW c \in Calls, NEW n \in 1..MaxPlans, DraftsReady(c, n)
      PROVE  HostShape'
  <2>1. n \in 0..MaxPlans /\ StartEvaluation(c, n)
    BY <1>3, PlansAssumption DEF DraftsReady
  <2>2. Advances(c, n)
    BY <2>1, StartAdvances
  <2>3. phase' \in [Calls -> Phases]
    BY <1>1, <1>3 DEF DraftsReady
  <2> QED
    BY <1>3, <2>2, <2>3, ResolvingKeepsShape DEF DraftsReady
<1>4. ASSUME NEW c \in Calls, SessionEnds(c) PROVE HostShape'
  <2>1. Advances(c, Len(outcomes[c])) /\ Len(outcomes[c]) \in 1..MaxPlans
    BY <1>1, <1>4, SettleAdvances DEF SessionEnds
  <2> QED
    BY <1>1, <1>4, <2>1, ResolvingKeepsShape DEF SessionEnds
<1>5. ASSUME NEW c \in Calls, Answer(c) PROVE HostShape'
  <2>1. /\ returned[c] \in Seq(Plans) /\ returned[c] # <<>>
        /\ RankedPlans \in Seq(Plans) /\ confirmed \in BOOLEAN
    BY <1>5, RankingIsOfPlans DEF Answer, HostShape, HostTypeOK, SelectionInv
  <2> DEFINE r == [plans |-> returned[c], confirmed |-> confirmed, report |-> RankedPlans]
  <2>2. r \in Reply /\ r.plans # <<>>
    BY <2>1 DEF Reply
  <2>3. /\ replies' = [replies EXCEPT ![c] = r]
        /\ returned' = [returned EXCEPT ![c] = None]
        /\ phase' = [phase EXCEPT ![c] = "answered"]
        /\ UNCHANGED <<stage, outcomes, consents>>
    BY <1>5 DEF Answer, vars
  <2> HIDE DEF r
  <2>4. /\ replies' \in [Calls -> Reply \cup {None}]
        /\ \A d \in Calls : replies'[d] # None => replies'[d].plans # <<>>
    BY <2>2, <2>3 DEF HostShape, HostTypeOK
  <2> QED
    BY <1>1, <2>3, <2>4 DEF HostShape, HostTypeOK
<1>6. ASSUME NEW c \in Calls, ConfirmPlan(c) PROVE HostShape'
  <2>1. PICK k \in DOMAIN results :
          consents' = consents \cup {[by   |-> c,
                                      saw  |-> replies[c].plans[1],
                                      gave |-> results[k].plan]}
    BY <1>6 DEF ConfirmPlan
  <2>2. results[k].plan \in Plans
    BY <1>1, PlansOfResults
  <2>3. replies[c] \in Reply /\ replies[c].plans # <<>>
    BY <1>6 DEF ConfirmPlan, HostShape, HostTypeOK
  <2>4. replies[c].plans[1] \in Plans
    BY <2>3 DEF Reply
  <2>5. consents' \subseteq Consent
    BY <2>1, <2>2, <2>4 DEF Consent, HostShape, HostTypeOK
  <2> QED
    BY <1>1, <1>6, <2>5 DEF ConfirmPlan, ConfirmSelection, HostShape, HostTypeOK
<1>7. ASSUME NEW c \in Calls, EvaluateNothing(c) PROVE HostShape'
  <2>1. 0 \in 0..MaxPlans /\ StartEvaluation(c, 0)
    BY <1>7, PlansAssumption DEF EvaluateNothing
  <2>2. Advances(c, 0)
    BY <2>1, StartAdvances
  <2>3. /\ stage' = [stage EXCEPT ![c] = "evaluated"]
        /\ outcomes' = [outcomes EXCEPT ![c] = <<>>]
    BY <2>2 DEF Advances, Install
  <2>4. /\ phase' = [phase EXCEPT ![c] = "direct"]
        /\ UNCHANGED <<returned, replies, consents>>
    BY <1>7 DEF EvaluateNothing
  <2>5. \A d \in Calls : stage'[d] = "running" => outcomes'[d] # <<>>
    BY <1>1, <2>3 DEF HostShape, TypeOK
  <2> QED
    BY <1>1, <2>4, <2>5 DEF HostShape, HostTypeOK
<1>8. CASE Dispatch
  BY <1>1, <1>8 DEF Dispatch, DispatchSelected, hostVars, HostShape, HostTypeOK
<1>9. CASE UNCHANGED allVars
  BY <1>1, <1>9 DEF allVars, vars, hostVars, HostShape, HostTypeOK
<1> QED
  BY <1>2, <1>3, <1>4, <1>5, <1>6, <1>7, <1>8, <1>9 DEF HostNext

\* Every variable of the service and of the adapter keeps its type: answers
\* hold plans, and who consents has seen one.
THEOREM HostTypeCorrect == HostSpec => []HostTypeOK
<1>1. HostSpec => []SelectionInv
  BY HostImplementsService, SelectionInvariant, PTL
<1>2. HostSpec => []ServiceInv
  BY HostImplementsService, ServiceInvariant, PTL
<1>3. HostSpec => []HostShape
  BY <1>1, <1>2, HostShapeInit, HostShapeStep, PTL DEF HostSpec
<1>4. HostShape => HostTypeOK
  BY DEF HostShape
<1> QED
  BY <1>3, <1>4, PTL

------------------------------------------------------------------------------
\* The console.  What it keeps of an instruction.
Job == [seat : Seats, task : {"executing", "done"},
        output : {"waiting_approval", "executing", "completed"}]

\* The invariant: the documents it has are those the staff role sees, or none.
ConsoleInv ==
  /\ ConsoleTypeOK
  /\ DoneIffApproved
  /\ BusyForAReason
  /\ knowledge \in {{}, Visible("staff")}

\* A change of one job leaves the other jobs open or closed as they were.
LEMMA JobChanged ==
  ASSUME ConsoleInv, NEW i \in 1..Len(work), NEW job \in Job,
         work' = [work EXCEPT ![i] = job], job.seat = work[i].seat
  PROVE  /\ work' \in Seq(Job) /\ Len(work') = Len(work)
         /\ \A j \in 1..Len(work) : j # i => work'[j] = work[j]
         /\ work'[i] = job
         /\ \A s \in Seats : s # work[i].seat => Open(s)' = Open(s) /\ Approved(s)' = Approved(s)
<1>1. work \in Seq(Job)
  BY DEF ConsoleInv, ConsoleTypeOK, Job
<1>2. /\ work' \in Seq(Job) /\ Len(work') = Len(work) /\ work'[i] = job
      /\ \A j \in 1..Len(work) : j # i => work'[j] = work[j]
  BY <1>1
<1>3. ASSUME NEW s \in Seats, s # work[i].seat
      PROVE  Open(s)' = Open(s) /\ Approved(s)' = Approved(s)
  <2>1. \A j \in 1..Len(work) : (work'[j].seat = s /\ work'[j].task = "executing")
                                  <=> (work[j].seat = s /\ work[j].task = "executing")
    BY <1>2, <1>3
  <2>2. \A j \in 1..Len(work) : (work'[j].seat = s /\ work'[j].output = "completed")
                                  <=> (work[j].seat = s /\ work[j].output = "completed")
    BY <1>2, <1>3
  <2> QED
    BY <1>2, <2>1, <2>2 DEF Open, Approved
<1> QED
  BY <1>2, <1>3

\* What depends on nothing but the work, the status and what the host said.
LEMMA WorkUntouched ==
  ASSUME ConsoleInv, UNCHANGED <<status, work, told>>
  PROVE  DoneIffApproved' /\ BusyForAReason'
<1>1. \A s \in Seats : Open(s)' = Open(s) /\ Approved(s)' = Approved(s)
  BY DEF Open, Approved
<1> QED
  BY <1>1 DEF ConsoleInv, DoneIffApproved, BusyForAReason

LEMMA ConsoleInvInit == ConsoleInit => ConsoleInv
<1> SUFFICES ASSUME ConsoleInit PROVE ConsoleInv
  OBVIOUS
<1>1. work = <<>> /\ Len(work) = 0 /\ work \in Seq(Job)
  BY DEF ConsoleInit
<1>2. ConsoleTypeOK
  <2>1. status \in [Seats -> SeatStatus] /\ told \in [Seats -> SeatStatus \cup {"outdated"}]
    BY DEF ConsoleInit, SeatStatus
  <2>2. inActivity \in BOOLEAN /\ listed \in BOOLEAN /\ role \in Roles /\ Len(work) <= MaxTasks
    <3>1. inActivity \in BOOLEAN /\ listed \in BOOLEAN
      BY DEF ConsoleInit
    <3>2. role \in Roles
      BY ConsoleAssumption DEF ConsoleInit
    <3>3. MaxTasks \in Nat
      BY ConsoleAssumption
    <3> QED
      BY <1>1, <3>1, <3>2, <3>3
  <2>3. connected \subseteq Services /\ knowledge \subseteq Documents
    BY DEF ConsoleInit
  <2>4. loading \in 0..4 /\ plans = NoPlans
    BY DEF ConsoleInit
  <2> QED
    BY <1>1, <2>1, <2>2, <2>3, <2>4 DEF ConsoleTypeOK, Job
<1> QED
  BY <1>1, <1>2 DEF ConsoleInit, ConsoleInv, DoneIffApproved, BusyForAReason

\* The calls of a page that loads.
LEMMA LoadingKeeps ==
  ASSUME ConsoleInv,
         \/ Refresh \/ LoadSeats \/ LoadActivities \/ LoadKnowledge
         \/ LoadSimulators \/ LoadRefused \/ LoadFails
  PROVE  ConsoleInv'
<1>1. CASE Refresh \/ LoadActivities \/ LoadSimulators \/ LoadRefused \/ LoadFails
  <2>1. DoneIffApproved' /\ BusyForAReason'
    BY <1>1, WorkUntouched DEF Refresh, LoadActivities, LoadSimulators, LoadRefused, LoadFails
  <2>2. knowledge' \in {{}, Visible("staff")}
    BY <1>1 DEF Refresh, LoadActivities, LoadSimulators, LoadRefused, LoadFails, ConsoleInv
  <2>3. loading' \in 0..4 /\ listed' \in BOOLEAN /\ connected' \subseteq Services
    <3>1. loading' \in 0..4
      BY <1>1 DEF Refresh, LoadActivities, LoadSimulators, LoadRefused, LoadFails,
                  ConsoleInv, ConsoleTypeOK
    <3>2. listed' = TRUE \/ listed' = listed
      BY <1>1 DEF Refresh, LoadActivities, LoadSimulators, LoadRefused, LoadFails
    <3>3. connected' = Services \/ connected' = connected
      BY <1>1 DEF Refresh, LoadActivities, LoadSimulators, LoadRefused, LoadFails
    <3> QED
      BY <3>1, <3>2, <3>3 DEF ConsoleInv, ConsoleTypeOK
  <2>4. UNCHANGED <<inActivity, role, status, work, plans, knowledge, told>>
    BY <1>1 DEF Refresh, LoadActivities, LoadSimulators, LoadRefused, LoadFails
  <2>5. ConsoleTypeOK'
    BY <2>3, <2>4 DEF ConsoleInv, ConsoleTypeOK
  <2> QED
    BY <2>1, <2>2, <2>5 DEF ConsoleInv
<1>2. CASE LoadSeats
  <2>1. ConsoleTypeOK'
    BY <1>2 DEF LoadSeats, ConsoleInv, ConsoleTypeOK, SeatStatus
  <2>2. BusyForAReason'
    BY <1>2 DEF LoadSeats, BusyForAReason
  <2> QED
    BY <1>2, <2>1, <2>2 DEF LoadSeats, ConsoleInv, DoneIffApproved
<1>3. CASE LoadKnowledge
  <2>1. DoneIffApproved' /\ BusyForAReason'
    BY <1>3, WorkUntouched DEF LoadKnowledge
  <2>2. knowledge' \subseteq Documents
    BY <1>3 DEF LoadKnowledge, Visible
  <2>3. ConsoleTypeOK'
    BY <1>3, <2>2 DEF LoadKnowledge, ConsoleInv, ConsoleTypeOK
  <2> QED
    BY <1>3, <2>1, <2>3 DEF LoadKnowledge, ConsoleInv
<1> QED
  BY <1>1, <1>2, <1>3

LEMMA InstructionKeeps ==
  ASSUME ConsoleInv, SendInstruction
  PROVE  ConsoleInv'
<1>1. PICK s \in Targets :
        /\ status' = [status EXCEPT ![s] = "executing"] /\ told' = [told EXCEPT ![s] = "outdated"]
        /\ work' = Append(work, [seat |-> s, task |-> "executing",
                                 output |-> "waiting_approval"])
  BY DEF SendInstruction, Shows
<1>2. s \in Seats
  BY DEF Targets
<1>3. work \in Seq(Job) /\ Len(work) < MaxTasks /\ MaxTasks \in Nat
  BY ConsoleAssumption DEF SendInstruction, ConsoleInv, ConsoleTypeOK, Job
<1> DEFINE job == [seat |-> s, task |-> "executing", output |-> "waiting_approval"]
           n == Len(work) + 1
<1>4. job \in Job
  BY <1>2 DEF Job
<1>5. /\ work' \in Seq(Job) /\ Len(work') = n /\ n \in 1..n /\ work'[n] = job
      /\ \A j \in 1..Len(work) : j \in 1..n /\ work'[j] = work[j]
      /\ \A j \in 1..n : j = n \/ j \in 1..Len(work)
  BY <1>1, <1>3, <1>4
<1> HIDE DEF n
<1>6. ConsoleTypeOK'
  BY <1>1, <1>2, <1>3, <1>5 DEF SendInstruction, ConsoleInv, ConsoleTypeOK, Job, n, SeatStatus
<1>7. DoneIffApproved'
  BY <1>5 DEF ConsoleInv, DoneIffApproved
<1>8. BusyForAReason'
  <2> SUFFICES ASSUME NEW x \in Seats
               PROVE  \/ status'[x] = told'[x]
                      \/ /\ told'[x] = "outdated"
                         /\ \/ status'[x] = "executing" /\ Open(x)' # {}
                            \/ status'[x] = "idle" /\ Approved(x)' # {}
    BY DEF BusyForAReason
  <2>1. CASE x = s
    <3>1. n \in Open(x)'
      BY <1>5, <2>1 DEF Open
    <3>2. status'[x] = "executing" /\ told'[x] = "outdated"
      BY <1>1, <2>1 DEF ConsoleInv, ConsoleTypeOK
    <3> QED
      BY <3>1, <3>2
  <2>2. CASE x # s
    <3>1. status'[x] = status[x] /\ told'[x] = told[x]
      BY <1>1, <2>2 DEF ConsoleInv, ConsoleTypeOK
    <3>2. Open(x) \subseteq Open(x)' /\ Approved(x) \subseteq Approved(x)'
      BY <1>5 DEF Open, Approved
    <3> QED
      BY <3>1, <3>2 DEF ConsoleInv, BusyForAReason
  <2> QED
    BY <2>1, <2>2
<1> QED
  BY <1>6, <1>7, <1>8 DEF SendInstruction, ConsoleInv, Visible, CanView

\* An output that waits for approval belongs to a task in hand: a rejection
\* leaves that task open, an approval closes it and frees the seat.
LEMMA ReviewKeeps ==
  ASSUME ConsoleInv, NEW i \in 1..Len(work), ApproveOutput(i) \/ RejectOutput(i)
  PROVE  ConsoleInv'
<1>1. work \in Seq(Job) /\ work[i] \in Job
  <2>1. work \in Seq(Job)
    BY DEF ConsoleInv, ConsoleTypeOK, Job
  <2> QED
    BY <2>1
<1>2. work[i].seat \in Seats /\ work[i].output = "waiting_approval" /\ work[i].task = "executing"
  BY <1>1 DEF Job, ApproveOutput, RejectOutput, ConsoleInv, DoneIffApproved
<1> DEFINE seat == work[i].seat
           approved == [seat |-> seat, task |-> "done", output |-> "completed"]
           rejected == [seat |-> seat, task |-> "executing", output |-> "executing"]
<1>3. approved \in Job /\ rejected \in Job
  BY <1>2 DEF Job
<1>4. status \in [Seats -> SeatStatus] /\ told \in [Seats -> SeatStatus \cup {"outdated"}]
  BY DEF ConsoleInv, ConsoleTypeOK
<1>5. CASE ApproveOutput(i)
  <2>1. work' = [work EXCEPT ![i] = approved]
    BY <1>1, <1>2, <1>5 DEF ApproveOutput, Job
  <2>2. /\ work' \in Seq(Job) /\ Len(work') = Len(work) /\ work'[i] = approved
        /\ \A j \in 1..Len(work) : j # i => work'[j] = work[j]
        /\ \A s \in Seats : s # seat => Open(s)' = Open(s) /\ Approved(s)' = Approved(s)
    BY <1>3, <2>1, JobChanged
  <2>3. /\ status' = IF Shown(seat) THEN [status EXCEPT ![seat] = "idle"] ELSE status
        /\ told' = IF Shown(seat) THEN [told EXCEPT ![seat] = "outdated"] ELSE told
    BY <1>5 DEF ApproveOutput, Shows, ShowsIfListed
  <2>4. /\ \A s \in Seats : s = seat => i \in Approved(s)'
        /\ \A s \in Seats : s # seat => status'[s] = status[s] /\ told'[s] = told[s]
        /\ \/ status'[seat] = "idle" /\ told'[seat] = "outdated"
           \/ status'[seat] = "unknown" /\ status'[seat] = status[seat] /\ told'[seat] = told[seat]
    BY <1>2, <1>4, <2>2, <2>3 DEF Shown, Approved
  <2>5. ConsoleTypeOK'
    BY <1>2, <1>4, <1>5, <2>2, <2>3 DEF ApproveOutput, ConsoleInv, ConsoleTypeOK, Job, SeatStatus
  <2>6. DoneIffApproved'
    BY <2>2 DEF ConsoleInv, DoneIffApproved
  <2>7. BusyForAReason'
    <3> SUFFICES ASSUME NEW x \in Seats
                 PROVE  \/ status'[x] = told'[x]
                        \/ /\ told'[x] = "outdated"
                           /\ \/ status'[x] = "executing" /\ Open(x)' # {}
                              \/ status'[x] = "idle" /\ Approved(x)' # {}
      BY DEF BusyForAReason
    <3>1. CASE x = seat
      <4>1. CASE status'[seat] = "idle" /\ told'[seat] = "outdated"
        BY <2>4, <3>1, <4>1
      <4>2. CASE status'[seat] = "unknown" /\ status'[seat] = status[seat] /\ told'[seat] = told[seat]
        <5>1. status[seat] = told[seat]
          BY <1>2, <4>2 DEF ConsoleInv, BusyForAReason
        <5> QED
          BY <3>1, <4>2, <5>1
      <4> QED
        BY <2>4, <4>1, <4>2
    <3>2. CASE x # seat
      BY <2>2, <2>4, <3>2 DEF ConsoleInv, BusyForAReason
    <3> QED
      BY <3>1, <3>2
  <2> QED
    BY <1>5, <2>5, <2>6, <2>7 DEF ApproveOutput, ConsoleInv, Visible, CanView
<1>6. CASE RejectOutput(i)
  <2>1. work' = [work EXCEPT ![i] = rejected]
    <3>1. work[i] = [seat |-> seat, task |-> "executing", output |-> "waiting_approval"]
      BY <1>1, <1>2 DEF Job
    <3>2. work' = [work EXCEPT ![i] = [work[i] EXCEPT !.output = "executing"]]
      BY <1>6 DEF RejectOutput
    <3>3. [work[i] EXCEPT !.output = "executing"] = rejected
      BY <3>1
    <3> QED
      BY <3>2, <3>3
  <2>2. /\ work' \in Seq(Job) /\ Len(work') = Len(work) /\ work'[i] = rejected
        /\ \A j \in 1..Len(work) : j # i => work'[j] = work[j]
        /\ \A s \in Seats : s # seat => Open(s)' = Open(s) /\ Approved(s)' = Approved(s)
    BY <1>3, <2>1, JobChanged
  <2>3. /\ status' = IF Shown(seat) THEN [status EXCEPT ![seat] = "executing"] ELSE status
        /\ told' = IF Shown(seat) THEN [told EXCEPT ![seat] = "outdated"] ELSE told
    BY <1>6 DEF RejectOutput, Shows, ShowsIfListed
  <2>4. /\ \A s \in Seats : s = seat => i \in Open(s)'
        /\ \A s \in Seats : s # seat => status'[s] = status[s] /\ told'[s] = told[s]
        /\ \/ status'[seat] = "executing" /\ told'[seat] = "outdated"
           \/ status'[seat] = "unknown" /\ status'[seat] = status[seat] /\ told'[seat] = told[seat]
    BY <1>2, <1>4, <2>2, <2>3 DEF Shown, Open
  <2>5. ConsoleTypeOK'
    BY <1>2, <1>4, <1>6, <2>2, <2>3 DEF RejectOutput, ConsoleInv, ConsoleTypeOK, Job, SeatStatus
  <2>6. DoneIffApproved'
    BY <2>2 DEF ConsoleInv, DoneIffApproved
  <2>7. BusyForAReason'
    <3> SUFFICES ASSUME NEW x \in Seats
                 PROVE  \/ status'[x] = told'[x]
                        \/ /\ told'[x] = "outdated"
                           /\ \/ status'[x] = "executing" /\ Open(x)' # {}
                              \/ status'[x] = "idle" /\ Approved(x)' # {}
      BY DEF BusyForAReason
    <3>1. CASE x = seat
      <4>1. CASE status'[seat] = "executing" /\ told'[seat] = "outdated"
        BY <2>4, <3>1, <4>1
      <4>2. CASE status'[seat] = "unknown" /\ status'[seat] = status[seat] /\ told'[seat] = told[seat]
        <5>1. status[seat] = told[seat]
          BY <1>2, <4>2 DEF ConsoleInv, BusyForAReason
        <5> QED
          BY <3>1, <4>2, <5>1
      <4> QED
        BY <2>4, <4>1, <4>2
    <3>2. CASE x # seat
      BY <2>2, <2>4, <3>2 DEF ConsoleInv, BusyForAReason
    <3> QED
      BY <3>1, <3>2
  <2> QED
    BY <1>6, <2>5, <2>6, <2>7 DEF RejectOutput, ConsoleInv, Visible, CanView
<1> QED
  BY <1>5, <1>6

LEMMA ConsoleInvStep ==
  ASSUME ConsoleInv, [ConsoleNext]_consoleVars
  PROVE  ConsoleInv'
<1>1. CASE \/ SelectActivity \/ SetRole \/ StoreGeneratePlans \/ ConfirmSelectedPlan
           \/ SetMcpConnected \/ UNCHANGED consoleVars
  <2>1. DoneIffApproved' /\ BusyForAReason'
    BY <1>1, WorkUntouched DEF SelectActivity, SetRole, StoreGeneratePlans,
                               ConfirmSelectedPlan, SetMcpConnected, consoleVars
  <2>2. knowledge' \in {{}, Visible("staff")}
    BY <1>1 DEF SelectActivity, SetRole, StoreGeneratePlans, ConfirmSelectedPlan,
                SetMcpConnected, consoleVars, ConsoleInv
  <2>3. ConsoleTypeOK'
    <3>1. CASE StoreGeneratePlans
      <4>1. plans' \in [over : (SUBSET Services) \ {{}}, dispatched : BOOLEAN]
        <5>1. connected \in (SUBSET Services) \ {{}}
          BY <3>1 DEF StoreGeneratePlans, ConsoleInv, ConsoleTypeOK
        <5> QED
          BY <3>1, <5>1 DEF StoreGeneratePlans
      <4> QED
        BY <3>1, <4>1 DEF StoreGeneratePlans, ConsoleInv, ConsoleTypeOK
    <3>2. CASE ConfirmSelectedPlan
      <4>1. plans \in [over : (SUBSET Services) \ {{}}, dispatched : BOOLEAN]
        BY <3>2 DEF ConfirmSelectedPlan, ConsoleInv, ConsoleTypeOK, NoPlans
      <4> QED
        BY <3>2, <4>1 DEF ConfirmSelectedPlan, ConsoleInv, ConsoleTypeOK
    <3>3. CASE SetMcpConnected
      <4>1. connected' \subseteq Services
        BY <3>3 DEF SetMcpConnected, ConsoleInv, ConsoleTypeOK
      <4> QED
        BY <3>3, <4>1 DEF SetMcpConnected, ConsoleInv, ConsoleTypeOK
    <3>4. CASE SelectActivity \/ SetRole \/ UNCHANGED consoleVars
      BY <3>4 DEF SelectActivity, SetRole, consoleVars, ConsoleInv, ConsoleTypeOK
    <3> QED
      BY <1>1, <3>1, <3>2, <3>3, <3>4
  <2> QED
    BY <2>1, <2>2, <2>3 DEF ConsoleInv
<1>2. CASE \/ Refresh \/ LoadSeats \/ LoadActivities \/ LoadKnowledge
           \/ LoadSimulators \/ LoadRefused \/ LoadFails
  BY <1>2, LoadingKeeps
<1>3. CASE SendInstruction
  BY <1>3, InstructionKeeps
<1>4. ASSUME NEW i \in 1..Len(work), ApproveOutput(i) \/ RejectOutput(i)
      PROVE  ConsoleInv'
  BY <1>4, ReviewKeeps
<1> QED
  BY <1>1, <1>2, <1>3, <1>4 DEF ConsoleNext

LEMMA ConsoleInvariant == ConsoleSpec => []ConsoleInv
  BY ConsoleInvInit, ConsoleInvStep, PTL DEF ConsoleSpec

\* Every variable of the store keeps its type; plans are scored by someone.
THEOREM ConsoleTypeCorrect == ConsoleSpec => []ConsoleTypeOK
<1>1. ConsoleInv => ConsoleTypeOK
  BY DEF ConsoleInv
<1> QED
  BY <1>1, ConsoleInvariant, PTL

\* What the console's own canView asks of a document whose lists were dropped.
LEMMA OnlyClearance ==
  ASSUME NEW d \in Documents, NEW r \in Roles
  PROVE  CanView(r, [Document[d] EXCEPT !.allow = {}, !.deny = {}])
           <=> Clearance[r] >= Document[d].clearance
<1>1. Document[d] \in [clearance : Nat, allow : SUBSET Roles, deny : SUBSET Roles]
  BY ConsoleAssumption
<1> DEFINE bare == [Document[d] EXCEPT !.allow = {}, !.deny = {}]
<1>2. bare.clearance = Document[d].clearance /\ bare.allow = {} /\ bare.deny = {}
  BY <1>1
<1> HIDE DEF bare
<1> QED
  BY <1>2 DEF CanView, bare

\* Approvals, rejections and refreshes, in any order, keep the store in agreement
\* with itself and with what the host said where the operator has not changed it
\* since; and what is displayed to a role errs only on the sides the property
\* names, for any documents with any lists of roles.
THEOREM StoreAgreement == ConsoleSpec => []StoreAgrees
<1>1. ConsoleInv => KnowledgeIsCleared
  <2> SUFFICES ASSUME ConsoleInv PROVE KnowledgeIsCleared
    OBVIOUS
  <2>1. role \in Roles /\ knowledge \subseteq Visible("staff") /\ Visible("staff") \subseteq Documents
    BY DEF ConsoleInv, ConsoleTypeOK, Visible
  <2>2. \A d \in Documents : d \in Displayed <=> d \in knowledge /\ Clearance[role] >= Document[d].clearance
    BY <2>1, OnlyClearance DEF Displayed
  <2>3. Displayed \subseteq Documents
    BY <2>1 DEF Displayed
  <2>4. ASSUME NEW d \in Displayed \ Visible(role)
        PROVE  role # "staff" /\ Clearance[role] >= Document[d].clearance
    BY <2>1, <2>2, <2>3, <2>4
  <2>5. ASSUME knowledge # {}, NEW d \in Visible(role) \ Displayed, d \in Visible("staff")
        PROVE  FALSE
    <3>1. knowledge = Visible("staff")
      BY <2>5 DEF ConsoleInv
    <3>2. d \in Documents /\ Clearance[role] >= Document[d].clearance
      BY <2>5 DEF Visible, CanView
    <3> QED
      BY <2>2, <2>5, <3>1, <3>2
  <2> QED
    BY <2>4, <2>5 DEF KnowledgeIsCleared
<1>2. ConsoleInv => StoreAgrees
  BY <1>1 DEF ConsoleInv, StoreAgrees
<1> QED
  BY <1>2, ConsoleInvariant, PTL
===================================================================================
