----------------------------- MODULE WargameHost -----------------------------
(***************************************************************************)
(* The host adapter between the platform and its remote users: a request   *)
(* for plans has the seats draft them and the service evaluate them, then  *)
(* answers; confirmPlan confirms.  It composes the drafts (SeatRuntime is  *)
(* their inside) with the simulation service of PlanEvaluation.            *)
(*                                                                         *)
(* The answer is put together in the continuation that follows the one     *)
(* installing the ranking.  Both belong to one drain of the microtask      *)
(* queue, so no event is handled while an answer is due.                   *)
(***************************************************************************)
EXTENDS PlanEvaluation

VARIABLES
  phase,     \* [Calls -> ...]: where generatePlans of the adapter is
  returned,  \* [Calls -> the ranking evaluatePlans resolved with, or None]
  replies,   \* [Calls -> the answer the caller holds, or None]
  consents   \* history: who confirmed, the best plan they had been shown, the
             \* plan confirmed and the evaluation installed by then

hostVars == <<phase, returned, replies, consents>>
allVars == <<vars, hostVars>>

Reply == [plans : Seq(Plans), confirmed : BOOLEAN, report : Seq(Plans)]
Consent == [by : Calls, saw : Plans, gave : Plans]

ASSUME NoAnswerAssumption == None \notin Seq(Plans) \cup Reply

HostTypeOK ==
  /\ TypeOK
  /\ phase \in [Calls -> {"idle", "drafting", "evaluating", "answered", "failed", "direct"}]
  /\ returned \in [Calls -> Seq(Plans) \cup {None}]
  /\ replies \in [Calls -> Reply \cup {None}]
  /\ consents \subseteq Consent

------------------------------------------------------------------------------
\* (slip) An await between the ranking and the answer.
Quiet_Always == TRUE

\* The microtask queue is empty, so the next event is handled.
Quiet == \A c \in Calls : returned[c] = None

\* (slip) The results are handed over as they are.
RankedPlans_Whole == results

RankedPlans == [k \in DOMAIN results |-> results[k].plan]

HostInit ==
  /\ Init
  /\ phase = [c \in Calls |-> "idle"]
  /\ returned = [c \in Calls |-> None]
  /\ replies = [c \in Calls |-> None]
  /\ consents = {}

\* generatePlans up to its first await.  Without a seat that may dispatch it
\* throws and nothing changes; otherwise the first two such seats draft.
GeneratePlans(c) ==
  /\ Quiet
  /\ phase[c] = "idle"
  /\ phase' = [phase EXCEPT ![c] = "drafting"]
  /\ UNCHANGED <<vars, returned, replies, consents>>

\* A seat failed: the request is rejected and no plan is evaluated.
DraftFails(c) ==
  /\ Quiet
  /\ phase[c] = "drafting"
  /\ phase' = [phase EXCEPT ![c] = "failed"]
  /\ UNCHANGED <<vars, returned, replies, consents>>

\* evaluatePlans has resolved when its evaluation is installed.
Resolving(c) ==
  returned' = IF stage'[c] = "evaluated"
              THEN [returned EXCEPT ![c] = RankedPlans'] ELSE returned

\* Every seat has delivered its draft: the service gets the plans.
DraftsReady(c, n) ==
  /\ Quiet
  /\ phase[c] = "drafting"
  /\ phase' = [phase EXCEPT ![c] = "evaluating"]
  /\ StartEvaluation(c, n)
  /\ Resolving(c)
  /\ UNCHANGED <<replies, consents>>

SessionEnds(c) ==
  /\ Quiet
  /\ SomeSettle(c)
  /\ Resolving(c)
  /\ UNCHANGED <<phase, replies, consents>>

\* The answer: its plans are those evaluatePlans returned, the confirmation and
\* the report are read from the service at this moment.
Answer(c) ==
  /\ returned[c] # None
  /\ replies' = [replies EXCEPT ![c] = [plans     |-> returned[c],
                                        confirmed |-> confirmed,
                                        report    |-> RankedPlans]]
  /\ returned' = [returned EXCEPT ![c] = None]
  /\ phase' = [phase EXCEPT ![c] = "answered"]
  /\ UNCHANGED <<vars, consents>>

\* The caller of c, who has its answer on the screen, confirms.  The request
\* names no plan: what is confirmed is what the service has selected by now.
ConfirmPlan(c) ==
  /\ Quiet
  /\ replies[c] # None
  /\ ConfirmSelection
  /\ \E k \in DOMAIN results :
       /\ IsSelectedPlan(results[k])
       /\ consents' = consents \cup {[by   |-> c,
                                      saw  |-> replies[c].plans[1],
                                      gave |-> results[k].plan]}
  /\ UNCHANGED <<phase, returned, replies>>

\* Code that holds the platform evaluates a list of no plans, past the adapter.
EvaluateNothing(c) ==
  /\ Quiet
  /\ phase[c] = "idle"
  /\ phase' = [phase EXCEPT ![c] = "direct"]
  /\ StartEvaluation(c, 0)
  /\ UNCHANGED <<returned, replies, consents>>

\* Only such code dispatches: the adapter has no remote call for it.
Dispatch ==
  /\ Quiet
  /\ DispatchSelected
  /\ UNCHANGED hostVars

HostNext ==
  \/ \E c \in Calls :
       \/ GeneratePlans(c)
       \/ DraftFails(c)
       \/ \E n \in 1..MaxPlans : DraftsReady(c, n)
       \/ SessionEnds(c)
       \/ Answer(c)
       \/ ConfirmPlan(c)
       \/ EvaluateNothing(c)
  \/ Dispatch

HostSpec == HostInit /\ [][HostNext]_allVars

\* Sessions end and continuations run, as long as there are any.  Neither the
\* seats' language model nor the humans are obliged to do anything.
HostFairSpec == HostSpec /\ WF_allVars(\E c \in Calls : SessionEnds(c) \/ Answer(c))

------------------------------------------------------------------------------
\* An answer is about one evaluation, the caller's own: its plans, the report
\* beside them and the mark "not confirmed yet" agree although two of the three
\* are read after an await (generatePlans of the adapter).
AnswerIsOfOneEvaluation ==
  \A c \in Calls : replies[c] # None =>
    /\ \A k \in DOMAIN replies[c].plans : replies[c].plans[k].call = c
    /\ replies[c].report = replies[c].plans
    /\ ~replies[c].confirmed

\* A commander confirms the best plan of the answer on the screen.  Where that
\* fails, another request was evaluated in the meantime, and what is confirmed
\* is the best plan of that one: confirmSelection never picks a lower plan nor
\* one of an evaluation that was replaced.
ConsentMissesOnlyByOverlap ==
  \A e \in consents :
    \/ e.gave = e.saw
    \/ /\ e.gave.call # e.by
       /\ replies[e.gave.call].plans[1] = e.gave

\* A request whose drafts are ready is answered, whatever the simulators do.
GenerationIsAnswered ==
  \A c \in Calls : phase[c] = "evaluating" ~> phase[c] = "answered"
==============================================================================
