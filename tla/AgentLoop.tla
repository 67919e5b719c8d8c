------------------------------ MODULE AgentLoop ------------------------------
(***************************************************************************)
(* One agent of the harness the platform is plugged into: ReactLoopAgent   *)
(* drives turns and steps over its inbox, while others send, remove,       *)
(* cancel, do maintenance or dispose the agent.                            *)
(*                                                                         *)
(* The driver is one async function.  Its stages are the points where      *)
(* others may act: its awaits, and the events it appends or emits, whose   *)
(* listeners run inside the call.  What a step does (the request, the      *)
(* stream, the tool calls) is one await with its outcomes.                 *)
(***************************************************************************)
EXTENDS Naturals, Sequences

CONSTANTS
  MaxMessages,  \* bound on the messages put into the inbox
  MaxSteps      \* bound on the steps of one turn

ASSUME BoundsAssumption == MaxMessages \in Nat /\ MaxSteps \in Nat \ {0}

Messages == 1..MaxMessages
Targets == {"next-turn", "next-step"}
Stages == {"none", "opening", "boundary", "preparing", "prepared", "stepping",
           "stepped", "stopping", "closing", "leaving"}

VARIABLES
  queued,    \* the messages so far, in order, each with the list it was put in
  inbox,     \* [Targets -> Seq(Messages)]: the two pending lists
  gone,      \* messages a cancel, a removal or a refused step took away
  phase,     \* what the agent is doing, its abort signal and its wake latch
  replay,    \* the driver ended with its latch set; its listeners still run
  at,        \* the stage of the driver
  turn,      \* the last turn opened
  local,     \* the variables of that turn
  open,      \* the innermost bracket of the log still open
  entered,   \* the user/message events of the log, each with its turn
  disposing  \* the owner has begun to dispose the agent

vars == <<queued, inbox, gone, phase, replay, at, turn, local, open, entered, disposing>>

\* claimed: the batch of the proposed step.  extra: whether the step's context
\* is new.  ends: turnEnds, of the steps so far.  owed: the last step called
\* tools.  next: what the driver does after turn/end.
Local == [step : Nat, claimed : Seq(Messages), extra : BOOLEAN,
          ends : {"open", "completed", "max-tokens"}, owed : BOOLEAN,
          next : {"look", "stop"}]
NewTurn == [step |-> 0, claimed |-> <<>>, extra |-> FALSE, ends |-> "open",
            owed |-> FALSE, next |-> "look"]

Elements(s) == {s[i] : i \in 1..Len(s)}
Pending == Elements(inbox["next-turn"]) \cup Elements(inbox["next-step"])
EnteredMessages == [i \in 1..Len(entered) |-> entered[i].message]
Entered == Elements(EnteredMessages)
Distinct(s) == \A i, j \in 1..Len(s) : i # j => s[i] # s[j]

\* Every variable holds a value of its kind; only a running agent has a stage.
TypeOK ==
  /\ queued \in Seq(Targets) /\ Len(queued) <= MaxMessages
  /\ inbox \in [Targets -> Seq(Messages)] /\ gone \subseteq Messages
  /\ phase \in [kind : {"idle", "maintenance", "running"},
                signal : {"live", "user", "disposed"}, wakeRequested : BOOLEAN]
  /\ at \in Stages /\ (at = "none" <=> phase.kind # "running")
  /\ turn \in Nat /\ local \in Local
  /\ open \in {"nothing", "turn", "step"}
  /\ entered \in Seq([message : Messages, turn : Nat])
  /\ replay \in BOOLEAN /\ disposing \in BOOLEAN

------------------------------------------------------------------------------
hasPending == inbox["next-turn"] # <<>> \/ inbox["next-step"] # <<>>
aborted == phase.kind # "idle" /\ phase.signal # "live"

Activity(kind) == [kind |-> kind, signal |-> "live", wakeRequested |-> FALSE]

Init ==
  /\ queued = <<>> /\ inbox = [t \in Targets |-> <<>>] /\ gone = {}
  /\ phase = Activity("idle") /\ replay = FALSE /\ at = "none"
  /\ turn = 0 /\ local = NewTurn /\ open = "nothing" /\ entered = <<>>
  /\ disposing = FALSE

\* An idle agent gets a driver.  Maintenance and an aborted activity keep the
\* wake for their end, unless the cause of the abort is the disposal.
WakeDriver(afterAbort) ==
  IF phase.kind = "idle"
  THEN phase' = Activity("running") /\ at' = "opening" /\ local' = NewTurn
  ELSE /\ phase' = [phase EXCEPT !.wakeRequested =
                      \/ @
                      \/ /\ phase.signal # "disposed"
                         /\ phase.kind = "maintenance" \/ afterAbort]
       /\ UNCHANGED <<at, local>>

Put(target) ==
  /\ Len(queued) < MaxMessages
  /\ queued' = Append(queued, target)
  /\ inbox' = [inbox EXCEPT ![target] = Append(@, Len(queued) + 1)]

\* send: waking input cannot join an aborted activity, so it starts the next
\* turn.  followup, steer and inject are its three uses.
Send(target, wakeup) ==
  LET wakingAfterAbort == wakeup /\ aborted
  IN  /\ Put(IF wakingAfterAbort THEN "next-turn" ELSE target)
      /\ IF wakeup THEN WakeDriver(wakingAfterAbort) ELSE UNCHANGED <<phase, at, local>>
      /\ UNCHANGED <<gone, replay, turn, open, entered, disposing>>

Followup == Send("next-turn", TRUE)
Steer == Send("next-step", TRUE)
Inject == Send("next-step", FALSE)

\* Someone takes a pending message back, wherever it is queued.
Remove(target, i) ==
  LET list == inbox[target]
  IN  /\ inbox' = [inbox EXCEPT ![target] =
                     SubSeq(list, 1, i - 1) \o SubSeq(list, i + 1, Len(list))]
      /\ gone' = gone \cup {list[i]}
      /\ UNCHANGED <<queued, phase, replay, at, turn, local, open, entered, disposing>>

\* The first cause of an abort wins.  A batch that is claimed and has not
\* entered yet is cancelled with its step.
Cancelled(cause, keepInbox) ==
  /\ inbox' = IF keepInbox THEN inbox ELSE [t \in Targets |-> <<>>]
  /\ gone' = gone \cup Elements(local.claimed) \cup (IF keepInbox THEN {} ELSE Pending)
  /\ phase' = IF phase.kind = "idle" THEN phase
              ELSE [phase EXCEPT !.signal = IF @ = "live" THEN cause ELSE @,
                                 !.wakeRequested = @ /\ keepInbox]
  /\ UNCHANGED <<queued, replay, at, turn, local, open, entered>>

Cancel(keepInbox) == Cancelled("user", keepInbox) /\ UNCHANGED disposing

\* The owner disposes: a cancel for that cause, then it waits for idleness.
Dispose == ~disposing /\ disposing' = TRUE /\ Cancelled("disposed", FALSE)

\* (slip) Maintenance takes the agent from its driver.
RunMaintenance_Unguarded ==
  /\ phase' = Activity("maintenance")
  /\ UNCHANGED <<queued, inbox, gone, replay, at, turn, local, open, entered, disposing>>

RunMaintenance ==
  /\ phase.kind = "idle"
  /\ phase' = Activity("maintenance")
  /\ UNCHANGED <<queued, inbox, gone, replay, at, turn, local, open, entered, disposing>>

MaintenanceEnds ==
  /\ phase.kind = "maintenance"
  /\ IF phase.wakeRequested /\ hasPending
     THEN phase' = Activity("running") /\ at' = "opening" /\ local' = NewTurn
     ELSE phase' = Activity("idle") /\ UNCHANGED <<at, local>>
  /\ UNCHANGED <<queued, inbox, gone, replay, turn, open, entered, disposing>>

------------------------------------------------------------------------------
\* The driver: kick, turn and preStep.  A driver that listeners of the previous
\* one woke gets no further than that call before the previous one has ended.
Driving(stage) == phase.kind = "running" /\ at = stage /\ ~replay

\* (slip) A turn is opened only for a signal that lives.
OpenTurn_WaitsForSignal ==
  /\ Driving("opening") /\ ~aborted
  /\ at' = "boundary" /\ turn' = turn + 1 /\ open' = "turn"
  /\ UNCHANGED <<queued, inbox, gone, phase, replay, local, entered, disposing>>

\* turn() opens its turn, or throws at once if the signal is aborted.
OpenTurn ==
  /\ Driving("opening")
  /\ IF aborted THEN at' = "leaving" /\ UNCHANGED <<turn, open>>
     ELSE at' = "boundary" /\ turn' = turn + 1 /\ open' = "turn"
  /\ UNCHANGED <<queued, inbox, gone, phase, replay, local, entered, disposing>>

\* (slip) A turn that throws is left open.
CloseTurn_NoFinally(next) ==
  /\ at' = "closing" /\ open' = IF next = "stop" THEN open ELSE "nothing"
  /\ gone' = gone \cup Elements(local.claimed)
  /\ local' = [local EXCEPT !.claimed = <<>>, !.next = next]

\* turn/end is appended however the turn ends; what it claimed and did not
\* enter is gone.  A turn that stops or throws does not look for more work.
CloseTurn(next) ==
  /\ at' = "closing" /\ open' = "nothing"
  /\ gone' = gone \cup Elements(local.claimed)
  /\ local' = [local EXCEPT !.claimed = <<>>, !.next = next]

\* (slip) Every step claims a queued turn too.
Claim_EveryStep ==
  LET n == IF inbox["next-turn"] = <<>> THEN 0 ELSE 1
  IN  /\ inbox' = [t \in Targets |->
                     IF t = "next-step" THEN <<>> ELSE SubSeq(inbox[t], n + 1, Len(inbox[t]))]
      /\ local' = [local EXCEPT !.claimed =
                     inbox["next-step"] \o SubSeq(inbox["next-turn"], 1, n)]

\* ReactLoopInbox.claim: all next-step input, and the first queued turn if the
\* step is the first of its turn.
Claim ==
  LET n == IF local.step > 0 \/ inbox["next-turn"] = <<>> THEN 0 ELSE 1
  IN  /\ inbox' = [t \in Targets |->
                     IF t = "next-step" THEN <<>> ELSE SubSeq(inbox[t], n + 1, Len(inbox[t]))]
      /\ local' = [local EXCEPT !.claimed =
                     inbox["next-step"] \o SubSeq(inbox["next-turn"], 1, n)]

Propose ==
  /\ Driving("boundary")
  /\ IF aborted THEN CloseTurn("stop") /\ UNCHANGED inbox
     ELSE at' = "preparing" /\ Claim /\ UNCHANGED <<gone, open>>
  /\ UNCHANGED <<queued, phase, replay, turn, entered, disposing>>

\* The prompt is assembled and the pre-step listeners have decided: they enter
\* the batch, keep or not, with or without new context; or they reject it or
\* fail, as an abort does.
Prepared ==
  /\ Driving("preparing") /\ ~aborted
  /\ \E keep, extra \in BOOLEAN :
       /\ local' = [local EXCEPT !.claimed = IF keep THEN @ ELSE <<>>, !.extra = extra]
       /\ gone' = IF keep THEN gone ELSE gone \cup Elements(local.claimed)
  /\ at' = "prepared"
  /\ UNCHANGED <<queued, inbox, phase, replay, turn, open, entered, disposing>>

NotPrepared ==
  /\ Driving("preparing")
  /\ CloseTurn("stop")
  /\ UNCHANGED <<queued, inbox, phase, replay, turn, entered, disposing>>

\* (slip) The step does not look at the signal again after the await.
StartStep_NoRecheck ==
  /\ Driving("prepared")
  /\ local' = [local EXCEPT !.step = @ + 1, !.claimed = <<>>]
  /\ at' = "stepping" /\ open' = "step"
  /\ entered' = entered \o [i \in 1..Len(local.claimed) |->
                              [message |-> local.claimed[i], turn |-> turn]]
  /\ UNCHANGED <<queued, inbox, gone, phase, replay, turn, disposing>>

\* A batch with nothing in it ends the turn, which looks for more work unless
\* the turn is at its first step; otherwise the step starts and the batch enters.
StartStep ==
  LET empty == local.claimed = <<>> /\ ~local.extra
      finished == empty /\ local.ends # "open"
      idle == empty /\ local.step = 0
  IN  /\ Driving("prepared")
      /\ CASE finished -> CloseTurn("look") /\ UNCHANGED entered
           [] ~finished /\ (idle \/ aborted) -> CloseTurn("stop") /\ UNCHANGED entered
           [] OTHER ->
                /\ local' = [local EXCEPT !.step = @ + 1, !.claimed = <<>>]
                /\ at' = "stepping" /\ open' = "step"
                /\ entered' = entered \o [i \in 1..Len(local.claimed) |->
                                            [message |-> local.claimed[i], turn |-> turn]]
                /\ UNCHANGED gone
      /\ UNCHANGED <<queued, inbox, phase, replay, turn, disposing>>

\* A call of a running step leaves context for the next one.
ToolContext ==
  /\ Driving("stepping")
  /\ Put("next-step")
  /\ UNCHANGED <<gone, phase, replay, at, turn, local, open, entered, disposing>>

\* The step has an outcome: the model is done, or cut off, or its tools have
\* run and owe it another request.  max-tokens is sticky.
StepReturns(outcome) ==
  /\ Driving("stepping") /\ (outcome = "open" => local.step < MaxSteps)
  /\ local' = [local EXCEPT !.ends = IF @ = "max-tokens" THEN @ ELSE outcome,
                            !.owed = (outcome = "open")]
  /\ at' = "stepped" /\ open' = "turn"
  /\ UNCHANGED <<queued, inbox, gone, phase, replay, turn, entered, disposing>>

\* The step throws: on its own, or because it noticed the abort.
StepThrows ==
  /\ Driving("stepping")
  /\ CloseTurn("stop")
  /\ UNCHANGED <<queued, inbox, phase, replay, turn, entered, disposing>>

\* After step/end: an abort throws, a turn that is to go on does, one that is
\* done asks its listeners first.
AfterStep ==
  /\ Driving("stepped")
  /\ IF aborted THEN CloseTurn("stop")
     ELSE /\ at' = IF local.ends # "open" /\ inbox["next-step"] = <<>>
                   THEN "stopping" ELSE "boundary"
          /\ UNCHANGED <<gone, local, open>>
  /\ UNCHANGED <<queued, inbox, phase, replay, turn, entered, disposing>>

\* The agent/turn-stopping listeners are done, or one of them failed.
Stopped ==
  /\ Driving("stopping")
  /\ \/ CloseTurn("stop")
     \/ /\ ~aborted /\ inbox["next-step"] = <<>>
        /\ CloseTurn("look")
     \/ /\ ~aborted /\ inbox["next-step"] # <<>>
        /\ at' = "boundary" /\ UNCHANGED <<gone, local, open>>
  /\ UNCHANGED <<queued, inbox, phase, replay, turn, entered, disposing>>

\* After turn/end: pending input opens another turn under a fresh controller.
NextTurn ==
  /\ Driving("closing")
  /\ IF local.next = "look" /\ hasPending
     THEN phase' = Activity("running") /\ local' = NewTurn /\ at' = "opening"
     ELSE at' = "leaving" /\ UNCHANGED <<phase, local>>
  /\ UNCHANGED <<queued, inbox, gone, replay, turn, open, entered, disposing>>

\* (slip) The latch is dropped with the phase.
KickEnds_ForgetsLatch ==
  /\ Driving("leaving")
  /\ phase' = Activity("idle") /\ at' = "none" /\ UNCHANGED replay
  /\ UNCHANGED <<queued, inbox, gone, turn, local, open, entered, disposing>>

\* kick's finally: the agent is idle, and its listeners hear so before the
\* latched wake is replayed.
KickEnds ==
  /\ Driving("leaving")
  /\ phase' = Activity("idle") /\ at' = "none" /\ replay' = phase.wakeRequested
  /\ UNCHANGED <<queued, inbox, gone, turn, local, open, entered, disposing>>

Replay ==
  /\ replay /\ replay' = FALSE
  /\ IF hasPending THEN WakeDriver(FALSE) ELSE UNCHANGED <<phase, at, local>>
  /\ UNCHANGED <<queued, inbox, gone, turn, open, entered, disposing>>

\* What the driver does without waiting for anyone, and what it waits for.
Sync == \/ OpenTurn \/ Propose \/ StartStep \/ AfterStep \/ NextTurn \/ KickEnds \/ Replay
Awaited == \/ Prepared \/ NotPrepared \/ StepThrows \/ Stopped \/ MaintenanceEnds
           \/ \E outcome \in {"open", "completed", "max-tokens"} : StepReturns(outcome)

Next ==
  \/ Followup \/ Steer \/ Inject \/ Dispose \/ RunMaintenance \/ ToolContext
  \/ \E keepInbox \in BOOLEAN : Cancel(keepInbox)
  \/ \E target \in Targets : \E i \in DOMAIN inbox[target] : Remove(target, i)
  \/ Sync \/ Awaited

\* The driver's own code runs; what it awaits ends once its signal is aborted.
Fairness == WF_vars(Sync) /\ WF_vars(aborted /\ Awaited)

Spec == Init /\ [][Next]_vars /\ Fairness

------------------------------------------------------------------------------
\* Every message put into the inbox is at one place: pending, claimed by the
\* proposed step, in the log, or gone.  In particular nothing that a cancel or
\* a removal took reaches the model, and nothing vanishes while turns open,
\* throw, are cancelled and are replayed around it.
EveryMessageAccounted ==
  LET claimed == Elements(local.claimed)
  IN  /\ 1..Len(queued) = Pending \cup claimed \cup Entered \cup gone
      /\ (Pending \cup Entered) \cap gone = {}
      /\ Pending \cap (claimed \cup Entered) = {}
      /\ Elements(inbox["next-turn"]) \cap Elements(inbox["next-step"]) = {}
      /\ \A t \in Targets : Distinct(inbox[t])
      /\ Distinct(EnteredMessages)

\* A follow-up is the sole ordinary message of its turn, and follow-ups get
\* their turns in the order they were sent, also around aborted turns.
FollowupsOwnTheirTurns ==
  \A i, j \in 1..Len(entered) :
    /\ i < j
    /\ queued[entered[i].message] = "next-turn"
    /\ queued[entered[j].message] = "next-turn"
    => entered[i].turn < entered[j].turn /\ entered[i].message < entered[j].message

\* Turn and step brackets of the log are closed whenever no driver runs, so
\* that a resumed session or a maintenance task finds no open turn.
LogClosedBetweenDrivers == phase.kind # "running" => open = "nothing"

\* A wake is latched for the end of maintenance, or behind a user's cancel, and
\* nowhere else: a live driver delivers it itself, and an activity that was
\* aborted by the disposal is followed by no other.
LatchHasAReason ==
  phase.wakeRequested =>
    \/ phase.kind = "running" /\ phase.signal = "user"
    \/ phase.kind = "maintenance" /\ phase.signal # "disposed"

\* A cancelled activity ends: the agent is idle, or runs under a new signal.
CancelConverges == aborted ~> ~aborted

\* A wake latched behind an aborted activity is replayed: a driver starts under
\* a live signal, unless nothing is pending any more or maintenance got in first.
LatchedWakeRuns ==
  (aborted /\ phase.wakeRequested)
    ~> \/ ~hasPending
       \/ (at = "opening" \/ phase.kind = "maintenance") /\ ~aborted

\* What the architecture page says of a turn: it closes once nothing is owed,
\* so a turn that ends by itself has answered its tool calls with a request.
ClosesOnceNothingIsOwed ==
  at = "closing" /\ local.next = "look" => ~local.owed
==============================================================================
