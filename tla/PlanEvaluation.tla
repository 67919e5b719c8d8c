---------------------------- MODULE PlanEvaluation ----------------------------
(***************************************************************************)
(* Candidate plans are run on every simulator, scored, ranked, confirmed   *)
(* by a human and dispatched: SimulationRunner, SimulationService and      *)
(* weightedAggregate, as the host's generatePlans and confirmPlan drive    *)
(* them.                                                                   *)
(*                                                                         *)
(* evaluatePlans awaits its simulators, so several evaluations overlap;    *)
(* one simulator session is one step here (McpSession models its inside).  *)
(* Plan ids restart at plan-1 for every generation, so a plan is told      *)
(* apart from another by its evaluation as well.                           *)
(***************************************************************************)
EXTENDS Integers, Sequences, FiniteSets, FiniteSetsExt

CONSTANTS
  Calls,        \* the evaluations requested
  Sims,         \* the simulators configured
  Weight,       \* their weights
  SimOutcomes,  \* what a simulator session can come to
  MaxPlans,     \* bound on the plans of one evaluation
  None

Failed == [connected |-> FALSE, score |-> 0, success |-> FALSE]

ASSUME SimsAssumption == IsFiniteSet(Sims) /\ Weight \in [Sims -> Int]

ASSUME OutcomesAssumption ==
  /\ Failed \in SimOutcomes
  /\ SimOutcomes \subseteq [connected : BOOLEAN, score : Int, success : BOOLEAN]

ASSUME PlansAssumption == MaxPlans \in Nat

ASSUME NoneAssumption == None \notin SimOutcomes \cup Calls \cup Nat

Plans == [id : 1..MaxPlans, call : Calls]

ASSUME NoPlanAssumption == None \notin Plans

VARIABLES
  stage,           \* [Calls -> ...]: where evaluatePlans is
  outcomes,        \* [Calls -> Seq([Sims -> SimOutcomes or None])]: per plan
  results,         \* SimulationService.results, ranked
  selectedPlanId,  \* SimulationService.selectedPlanId
  confirmed,       \* SimulationService.confirmed
  issued           \* the plans dispatchSelected returned

vars == <<stage, outcomes, results, selectedPlanId, confirmed, issued>>

Result == [plan : Plans, outcomes : [Sims -> SimOutcomes], num : Int, den : Nat \ {0}]

TypeOK ==
  /\ stage \in [Calls -> {"idle", "running", "evaluated"}]
  /\ outcomes \in [Calls -> Seq([Sims -> SimOutcomes \cup {None}])]
  /\ results \in Seq(Result)
  /\ selectedPlanId \in 1..MaxPlans \cup {None}
  /\ confirmed \in BOOLEAN
  /\ issued \subseteq Plans

------------------------------------------------------------------------------
\* weightedAggregate: the weighted mean, as a fraction, of the simulators that
\* were connected; 0/1 where their weights cancel out.  The flag `success` that
\* comes with a score is not looked at, and a weight may be any number.
Contributing(o) == {s \in Sims : o[s].connected}

\* (slip) Every configured simulator counts in the denominator.
WeightSum_Configured(o) == MapThenSumSet(LAMBDA s : Weight[s], Sims)

WeightSum(o) == MapThenSumSet(LAMBDA s : Weight[s], Contributing(o))

WeightedScore(o) ==
  LET num == MapThenSumSet(LAMBDA s : o[s].score * Weight[s], Contributing(o))
      den == WeightSum(o)
  IN  IF den = 0 THEN [num |-> 0, den |-> 1]
      ELSE IF den > 0 THEN [num |-> num, den |-> den]
      ELSE [num |-> -num, den |-> -den]

\* results.sort by descending score, a stable sort: p comes before q.
Before(p, q, scores) ==
  \/ scores[p].num * scores[q].den > scores[q].num * scores[p].den
  \/ /\ scores[p].num * scores[q].den = scores[q].num * scores[p].den
     /\ p < q

\* The ranked results of one evaluation: there is exactly one order to put its
\* plans in.
Rankings(call, got, scores) ==
  LET n      == Len(got)
      orders == {order \in [1..n -> 1..n] :
                   \A i, j \in 1..n : i < j => Before(order[i], order[j], scores)}
  IN  {[k \in 1..n |-> [plan     |-> [id |-> order[k], call |-> call],
                        outcomes |-> got[order[k]],
                        num      |-> scores[order[k]].num,
                        den      |-> scores[order[k]].den]] : order \in orders}

\* (slip) The confirmation of the earlier results is kept.
Install_KeepsConfirmation(call, got) ==
  /\ stage' = [stage EXCEPT ![call] = "evaluated"]
  /\ outcomes' = [outcomes EXCEPT ![call] = <<>>]
  /\ UNCHANGED <<confirmed, issued>>
  /\ \E scores \in {[p \in DOMAIN got |-> WeightedScore(got[p])]} :
       results' \in Rankings(call, got, scores)
  /\ selectedPlanId' = IF results' = <<>> THEN None ELSE results'[1].plan.id

\* (slip) The selection of the earlier results is kept.
Install_KeepsSelection(call, got) ==
  /\ stage' = [stage EXCEPT ![call] = "evaluated"]
  /\ outcomes' = [outcomes EXCEPT ![call] = <<>>]
  /\ confirmed' = FALSE
  /\ UNCHANGED issued
  /\ \E scores \in {[p \in DOMAIN got |-> WeightedScore(got[p])]} :
       results' \in Rankings(call, got, scores)
  /\ selectedPlanId' = IF results' = <<>> THEN None
                       ELSE IF selectedPlanId # None THEN selectedPlanId
                       ELSE results'[1].plan.id

\* The end of evaluatePlans, reached when every session has settled: what the
\* service held before is replaced, whichever evaluation it came from, and the
\* confirmation is taken back.
Install(call, got) ==
  /\ stage' = [stage EXCEPT ![call] = "evaluated"]
  /\ outcomes' = [outcomes EXCEPT ![call] = <<>>]
  /\ confirmed' = FALSE
  /\ UNCHANGED issued
  /\ \E scores \in {[p \in DOMAIN got |-> WeightedScore(got[p])]} :
       results' \in Rankings(call, got, scores)
  /\ selectedPlanId' = IF results' = <<>> THEN None ELSE results'[1].plan.id

\* SimulationService.selectedPlan: the first result that has the id.
IsSelectedPlan(r) ==
  \E k \in DOMAIN results :
    /\ r = results[k]
    /\ r.plan.id = selectedPlanId
    /\ \A j \in 1..(k - 1) : results[j].plan.id # selectedPlanId

\* (slip) A failed session is waited for again.
AllSettled_Connected(got) ==
  \A p \in DOMAIN got : \A s \in Sims : got[p][s] # None /\ got[p][s].connected

AllSettled(got) == \A p \in DOMAIN got : \A s \in Sims : got[p][s] # None

------------------------------------------------------------------------------
Init ==
  /\ stage = [c \in Calls |-> "idle"]
  /\ outcomes = [c \in Calls |-> <<>>]
  /\ results = <<>>
  /\ selectedPlanId = None
  /\ confirmed = FALSE
  /\ issued = {}

\* evaluatePlans(plans) starts every session of every plan at once.
StartEvaluation(call, n) ==
  LET pending == [p \in 1..n |-> [s \in Sims |-> None]]
  IN  /\ stage[call] = "idle"
      /\ \/ /\ AllSettled(pending)
            /\ Install(call, pending)
         \/ /\ ~AllSettled(pending)
            /\ stage' = [stage EXCEPT ![call] = "running"]
            /\ outcomes' = [outcomes EXCEPT ![call] = pending]
            /\ UNCHANGED <<results, selectedPlanId, confirmed, issued>>

\* runOne: one simulator session ends, well or badly; it never throws.
Settle(call, p, s, o) ==
  LET got == [outcomes[call] EXCEPT ![p][s] = o]
  IN  /\ stage[call] = "running"
      /\ outcomes[call][p][s] = None
      /\ \/ /\ AllSettled(got)
            /\ Install(call, got)
         \/ /\ ~AllSettled(got)
            /\ outcomes' = [outcomes EXCEPT ![call] = got]
            /\ UNCHANGED <<stage, results, selectedPlanId, confirmed, issued>>

\* The commander confirms: the request names no plan.
ConfirmSelection ==
  /\ selectedPlanId # None
  /\ confirmed' = TRUE
  /\ UNCHANGED <<stage, outcomes, results, selectedPlanId, issued>>

DispatchSelected ==
  /\ selectedPlanId # None
  /\ confirmed
  /\ \E k \in DOMAIN results :
       IsSelectedPlan(results[k]) /\ issued' = issued \cup {results[k].plan}
  /\ UNCHANGED <<stage, outcomes, results, selectedPlanId, confirmed>>

SomeSettle(call) ==
  \E p \in DOMAIN outcomes[call], s \in Sims, o \in SimOutcomes : Settle(call, p, s, o)

Next ==
  \/ \E call \in Calls, n \in 0..MaxPlans : StartEvaluation(call, n)
  \/ \E call \in Calls : SomeSettle(call)
  \/ ConfirmSelection
  \/ DispatchSelected

Spec == Init /\ [][Next]_vars

------------------------------------------------------------------------------
\* The ranking is one evaluation's: every plan of it once, in descending order
\* of score, and the selected plan is the first.  Evaluations that overlap may
\* replace one another's results but never mix them.
RankingIsOneEvaluation ==
  /\ \A i, j \in DOMAIN results :
       /\ results[i].plan.call = results[j].plan.call
       /\ i < j => /\ results[i].plan.id # results[j].plan.id
                   /\ results[i].num * results[j].den >= results[j].num * results[i].den
  /\ \A i \in DOMAIN results : results[i].plan.id \in DOMAIN results
  /\ IF results = <<>> THEN selectedPlanId = None
     ELSE IsSelectedPlan(results[1])

\* A plan's weighted score lies between the lowest and the highest score that a
\* connected simulator of positive weight gave it, and is 0 when there is none
\* (weightedAggregate).  Only a simulator of negative weight, which load.ts lets
\* a configuration have, can push it outside.
ScoreBetweenExtremes ==
  \A k \in DOMAIN results :
    LET r      == results[k]
        scores == {r.outcomes[s].score : s \in {s \in Contributing(r.outcomes) : Weight[s] > 0}}
    IN  (\A s \in Contributing(r.outcomes) : Weight[s] >= 0) =>
          IF scores = {} THEN r.num = 0
          ELSE r.den * Min(scores) <= r.num /\ r.num <= r.den * Max(scores)

\* What the simulators of a plan said: the scores of those that were reached.
Said(o) == [s \in Sims |-> IF o[s].connected THEN [o[s] EXCEPT !.success = TRUE] ELSE Failed]

\* A simulator that could not be reached moves a plan's score neither up nor
\* down.  One that was reached counts with the score it gave, and just as much
\* when it reports success: false beside it, although the comment above
\* weightedAggregate has only the successful systems aggregated.
ScoreIsOfAllReached ==
  \A k \in DOMAIN results :
    LET said == WeightedScore(Said(results[k].outcomes))
    IN  results[k].num = said.num /\ results[k].den = said.den

\* The ranking a commander is shown is sound: it is one evaluation's, in order,
\* and each score in it is the one its simulators' answers come to.
RankingIsSound == RankingIsOneEvaluation /\ ScoreBetweenExtremes /\ ScoreIsOfAllReached

\* The service keeps the promise of ConfirmedDispatch, however evaluations,
\* confirmations and dispatches interleave.
Promise == INSTANCE ConfirmedDispatch
  WITH Plans <- Plans, None <- None, confirmed <- confirmed, issued <- issued,
       offer <- IF results = <<>> THEN None ELSE results[1].plan

KeepsPromise == Promise!Spec
==============================================================================
