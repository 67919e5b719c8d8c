----------------------------- MODULE TaskManager -----------------------------
(***************************************************************************)
(* Task dispatch and the approval of outputs: TaskManager, with the part   *)
(* of Organization it consults (seats sharing mutable roles) and the       *)
(* registry that says which skills a seat has.                             *)
(*                                                                         *)
(* Every call is synchronous, so a call is one step.  A call that throws   *)
(* changes nothing and is a stutter.  Tasks and outputs are kept in the    *)
(* order their Maps keep them; their random ids are their positions.       *)
(***************************************************************************)
EXTENDS Integers, Sequences, FiniteSets, SkillAccess

CONSTANTS
  Seats, SeatIndex,        \* the seats and their place in seats.yaml
  Roles, SeatRole,         \* the roles, and the role each seat refers to
  RolePacks, RoleAllow,    \* what a role refers to: fixed at construction
  InitialRights, Rights,   \* a role's mutable attributes, at start and later
  Registries,              \* what the skill registry can be rebuilt to
  TaskInputs,              \* what callers ask for
  None,                    \* no output, no feedback
  MaxTasks, MaxOutputs, MaxFeedback   \* bounds on the histories kept

ASSUME SeatsAssumption ==
  /\ IsFiniteSet(Seats)
  /\ SeatIndex \in [Seats -> Nat]
  /\ SeatRole \in [Seats -> Roles]
  /\ \A role \in Roles : InitialRights[role] \in Rights[role]
  /\ DOMAIN InitialRights = Roles

ASSUME NoneAssumption == None \notin Nat /\ None \notin {"good", "bad"}

VARIABLES
  rights,        \* each role's clearance, can_dispatch and can_approve
  registry,      \* SkillRegistry
  tasks,         \* TaskManager.tasks
  outputs,       \* TaskManager.outputs
  load,          \* TaskManager.load, a seat that is absent counting 0
  feedbackLog    \* TaskManager.feedbackLog

vars == <<rights, registry, tasks, outputs, load, feedbackLog>>

Ratings == {"good", "bad"}

Task == [assignedSeatId : Seats,
         status         : {"executing", "done"},
         output         : Nat \cup {None}]

Output == [taskId   : Nat,
           seatId   : Seats,
           status   : {"executing", "waiting_approval", "completed"},
           feedback : Ratings \cup {None}]

FeedbackRecord == [outputId : Nat, seatId : Seats, rating : Ratings]

TypeOK ==
  /\ DOMAIN rights = Roles
  /\ \A role \in Roles : rights[role] \in Rights[role]
  /\ registry \in Registries
  /\ tasks \in Seq(Task)
  /\ outputs \in Seq(Output)
  /\ load \in [Seats -> Nat]
  /\ feedbackLog \in Seq(FeedbackRecord)

------------------------------------------------------------------------------
\* Seat's accessors delegate to the role it shares with other seats.
RightsOf(seat) == rights[SeatRole[seat]]

RoleView(seat) ==
  [id          |-> SeatRole[seat],
   clearance   |-> RightsOf(seat).clearance,
   packs       |-> RolePacks[SeatRole[seat]],
   skill_allow |-> RoleAllow[SeatRole[seat]]]

\* A seat cleared for the task that has every skill it requires.
Capable(seat, input) ==
  /\ RightsOf(seat).clearance >= input.requiredClearance
  /\ input.requiredSkills
       \subseteq {s.name : s \in AvailableSkills(RoleView(seat), registry)}

CapableSeats(input) == {seat \in Seats : Capable(seat, input)}

\* (slip) The comparison the wrong way round.
FirstByLoad_Reversed(seat, capable) ==
  \A other \in capable :
    \/ load[seat] > load[other]
    \/ load[seat] = load[other] /\ SeatIndex[seat] <= SeatIndex[other]

\* capable.sort(by load)[0]: a stable sort of seats listed in seats.yaml order.
FirstByLoad(seat, capable) ==
  \A other \in capable :
    \/ load[seat] < load[other]
    \/ load[seat] = load[other] /\ SeatIndex[seat] <= SeatIndex[other]

\* (slip) The load counter is forgotten.
CreateTask_NoCount(seat) ==
  /\ tasks' = Append(tasks, [assignedSeatId |-> seat,
                             status         |-> "executing",
                             output         |-> None])
  /\ UNCHANGED <<rights, registry, outputs, load, feedbackLog>>

\* What was asked for is stored with the task but never consulted again.
CreateTask(seat) ==
  /\ tasks' = Append(tasks, [assignedSeatId |-> seat,
                             status         |-> "executing",
                             output         |-> None])
  /\ load' = [load EXCEPT ![seat] = @ + 1]
  /\ UNCHANGED <<rights, registry, outputs, feedbackLog>>

\* (slip) Without the clamp at zero.
Released_Unclamped(l) == l - 1

\* The load map loses one, never going below zero.
Released(l) == IF l = 0 THEN 0 ELSE l - 1

------------------------------------------------------------------------------
Init ==
  /\ rights = InitialRights
  /\ registry \in Registries
  /\ tasks = <<>>
  /\ outputs = <<>>
  /\ load = [seat \in Seats |-> 0]
  /\ feedbackLog = <<>>

AutoDispatch(input) ==
  /\ Len(tasks) < MaxTasks
  /\ LET capable == CapableSeats(input)
     IN  \E seat \in capable : FirstByLoad(seat, capable) /\ CreateTask(seat)

Dispatch(bySeat, input, target) ==
  /\ Len(tasks) < MaxTasks
  /\ RightsOf(bySeat).can_dispatch
  /\ Capable(target, input)
  /\ CreateTask(target)

\* (slip) A task that is already done keeps pointing at its first output.
SubmitOutput_KeepsFirst(t, seat) ==
  /\ Len(outputs) < MaxOutputs
  /\ tasks[t].assignedSeatId = seat
  /\ outputs' = Append(outputs, [taskId   |-> t,
                                 seatId   |-> seat,
                                 status   |-> "waiting_approval",
                                 feedback |-> None])
  /\ tasks' = IF tasks[t].status = "done" THEN tasks
              ELSE [tasks EXCEPT ![t].output = Len(outputs) + 1, ![t].status = "done"]
  /\ load' = [load EXCEPT ![seat] = Released(@)]
  /\ UNCHANGED <<rights, registry, feedbackLog>>

\* The assignee hands in an output, which waits for approval.  The code asks
\* neither whether the task is still executing nor whether it has an output.
SubmitOutput(t, seat) ==
  /\ Len(outputs) < MaxOutputs
  /\ tasks[t].assignedSeatId = seat
  /\ outputs' = Append(outputs, [taskId   |-> t,
                                 seatId   |-> seat,
                                 status   |-> "waiting_approval",
                                 feedback |-> None])
  /\ tasks' = [tasks EXCEPT ![t].output = Len(outputs) + 1, ![t].status = "done"]
  /\ load' = [load EXCEPT ![seat] = Released(@)]
  /\ UNCHANGED <<rights, registry, feedbackLog>>

\* A human decision through a seat that may approve, whatever the output's
\* status is by then.
Decide(bySeat, o, status) ==
  /\ RightsOf(bySeat).can_approve
  /\ outputs' = [outputs EXCEPT ![o].status = status]
  /\ UNCHANGED <<rights, registry, tasks, load, feedbackLog>>

Approve(bySeat, o) == Decide(bySeat, o, "completed")

Reject(bySeat, o) == Decide(bySeat, o, "executing")

\* Human feedback, logged and stored on the output, overwriting the earlier one.
RecordFeedback(o, rating) ==
  /\ Len(feedbackLog) < MaxFeedback
  /\ feedbackLog' = Append(feedbackLog, [outputId |-> o,
                                         seatId   |-> outputs[o].seatId,
                                         rating   |-> rating])
  /\ outputs' = [outputs EXCEPT ![o].feedback = rating]
  /\ UNCHANGED <<rights, registry, tasks, load>>

\* An administrator changes a role: at once for every seat that refers to it.
ChangeRole(role, r) ==
  /\ rights' = [rights EXCEPT ![role] = r]
  /\ UNCHANGED <<registry, tasks, outputs, load, feedbackLog>>

\* The registry is rebuilt after a skill package was installed.
RebuildRegistry ==
  /\ registry' \in Registries
  /\ UNCHANGED <<rights, tasks, outputs, load, feedbackLog>>

Next ==
  \/ \E input \in TaskInputs : AutoDispatch(input)
  \/ \E bySeat, target \in Seats, input \in TaskInputs :
       Dispatch(bySeat, input, target)
  \/ \E t \in DOMAIN tasks, seat \in Seats : SubmitOutput(t, seat)
  \/ \E bySeat \in Seats, o \in DOMAIN outputs :
       Approve(bySeat, o) \/ Reject(bySeat, o)
  \/ \E o \in DOMAIN outputs, rating \in Ratings : RecordFeedback(o, rating)
  \/ \E role \in Roles : \E r \in Rights[role] : ChangeRole(role, r)
  \/ RebuildRegistry

Spec == Init /\ [][Next]_vars

------------------------------------------------------------------------------
\* The work a seat has in hand.
OpenTasks(seat) ==
  {t \in DOMAIN tasks : /\ tasks[t].assignedSeatId = seat
                        /\ tasks[t].status = "executing"}

\* The outputs handed in for a task.
HandedIn(t) == {o \in DOMAIN outputs : outputs[o].taskId = t}

\* Some task of the seat was handed in more than once.
HandedInTwice(seat) ==
  \E o, p \in DOMAIN outputs :
    /\ o # p
    /\ outputs[o].taskId = outputs[p].taskId
    /\ outputs[o].seatId = seat

\* The load that autoDispatch compares never exceeds the work the seat has in
\* hand: no call of createTask or submitOutput leaves a seat looking busier
\* than it is, so an idle seat is never passed over for good.
LoadNeverOverstatesWork ==
  \A seat \in Seats : load[seat] <= Cardinality(OpenTasks(seat))

\* As long as none of its tasks was handed in twice, a seat's load is exactly
\* the number of its tasks that are executing: the counters kept by createTask
\* and submitOutput agree with the statuses kept in the tasks.
LoadExactWithoutResubmission ==
  \A seat \in Seats :
    ~HandedInTwice(seat) => load[seat] = Cardinality(OpenTasks(seat))

\* What autoDispatch goes by tells the work of the seats.
LoadTellsWork == LoadNeverOverstatesWork /\ LoadExactWithoutResubmission

\* A task is done exactly when an output was handed in for it, and it points at
\* the last of its outputs, which its own assignee made: task.output and the
\* outputs map (submitOutput) never disagree, however often a task is redone.
TaskPointsAtLastOutput ==
  /\ \A o \in DOMAIN outputs : outputs[o].taskId \in DOMAIN tasks
  /\ \A t \in DOMAIN tasks :
       /\ tasks[t].status = "done" <=> HandedIn(t) # {}
       /\ HandedIn(t) = {} => tasks[t].output = None
       /\ HandedIn(t) # {} => /\ tasks[t].output \in HandedIn(t)
                              /\ \A o \in HandedIn(t) : o <= tasks[t].output
       /\ \A o \in HandedIn(t) : outputs[o].seatId = tasks[t].assignedSeatId

\* The feedback stored on an output (read by the console) is what the last
\* record about it in the feedback log says (read by the evolution engine), and
\* every record names the seat that made the output: recordFeedback writes both.
FeedbackMirrorsLog ==
  /\ \A i \in DOMAIN feedbackLog :
       /\ feedbackLog[i].outputId \in DOMAIN outputs
       /\ feedbackLog[i].seatId = outputs[feedbackLog[i].outputId].seatId
  /\ \A o \in DOMAIN outputs :
       LET records == {i \in DOMAIN feedbackLog : feedbackLog[i].outputId = o}
       IN  IF records = {}
           THEN outputs[o].feedback = None
           ELSE \E i \in records :
                  /\ \A j \in records : j <= i
                  /\ outputs[o].feedback = feedbackLog[i].rating

\* What is kept twice agrees: outputs with their tasks and with the feedback log.
RecordsAgree == TaskPointsAtLastOutput /\ FeedbackMirrorsLog

\* The seat that automatic dispatch chooses, seen by the work really in hand.
ChosenIsLeastBusy(input) ==
  LET chosen == tasks'[Len(tasks')].assignedSeatId
  IN  /\ chosen \in CapableSeats(input)
      /\ \A seat \in CapableSeats(input) :
           Cardinality(OpenTasks(chosen)) <= Cardinality(OpenTasks(seat))

\* While no capable seat has handed a task in twice, autoDispatch gives a task
\* to a capable seat with the fewest tasks in hand.
AutoDispatchPicksLeastBusy ==
  [][\A input \in TaskInputs :
       /\ AutoDispatch(input)
       /\ \A seat \in CapableSeats(input) : ~HandedInTwice(seat)
       => ChosenIsLeastBusy(input)]_vars
==============================================================================
