-------------------------- MODULE TaskManager_proofs --------------------------
(***************************************************************************)
(* Proofs about TaskManager, for any organization, any inputs and any      *)
(* bounds: its type invariant, and that the load counters stay faithful to *)
(* the work the seats have in hand.                                        *)
(***************************************************************************)
EXTENDS TaskManager, FiniteSetTheorems, TLAPS

\* The pools a step adds to or reads.
LEMMA TaskTyped ==
  ASSUME TypeOK, NEW t \in DOMAIN tasks
  PROVE  /\ tasks[t] \in Task
         /\ t \in 1..Len(tasks)
  BY DEF TypeOK

\* The same for the outputs.
LEMMA OutputTyped ==
  ASSUME TypeOK, NEW o \in DOMAIN outputs
  PROVE  /\ outputs[o] \in Output
         /\ o \in 1..Len(outputs)
  BY DEF TypeOK

\* createTask keeps the types.
LEMMA CreateTaskType ==
  ASSUME TypeOK, NEW seat \in Seats, CreateTask(seat)
  PROVE  TypeOK'
<1>1. [assignedSeatId |-> seat, status |-> "executing", output |-> None] \in Task
  BY DEF Task
<1>2. tasks' \in Seq(Task)
  BY <1>1 DEF TypeOK, CreateTask
<1>3. load' \in [Seats -> Nat]
  BY DEF TypeOK, CreateTask
<1> QED
  BY <1>2, <1>3 DEF TypeOK, CreateTask

\* submitOutput keeps the types.
LEMMA SubmitOutputType ==
  ASSUME TypeOK, NEW t \in DOMAIN tasks, NEW seat \in Seats, SubmitOutput(t, seat)
  PROVE  TypeOK'
<1>1. outputs' \in Seq(Output)
  <2>1. [taskId |-> t, seatId |-> seat, status |-> "waiting_approval",
         feedback |-> None] \in Output
    BY TaskTyped DEF Output
  <2> QED
    BY <2>1 DEF TypeOK, SubmitOutput
<1>2. tasks' \in Seq(Task)
  <2>1. Len(outputs) + 1 \in Nat
    BY DEF TypeOK
  <2>2. tasks[t] \in Task /\ t \in 1..Len(tasks)
    BY TaskTyped
  <2>3. [tasks[t] EXCEPT !.output = Len(outputs) + 1, !.status = "done"] \in Task
    BY <2>1, <2>2 DEF Task
  <2>4. tasks' = [tasks EXCEPT ![t] =
                    [tasks[t] EXCEPT !.output = Len(outputs) + 1, !.status = "done"]]
    BY <2>2 DEF SubmitOutput, TypeOK
  <2> QED
    BY <2>2, <2>3, <2>4 DEF TypeOK
<1>3. load' \in [Seats -> Nat]
  BY DEF TypeOK, SubmitOutput, Released
<1> QED
  BY <1>1, <1>2, <1>3 DEF TypeOK, SubmitOutput

\* approve and reject keep the types.
LEMMA DecideType ==
  ASSUME TypeOK, NEW bySeat \in Seats, NEW o \in DOMAIN outputs,
         NEW status \in {"executing", "completed"}, Decide(bySeat, o, status)
  PROVE  TypeOK'
<1>1. outputs[o] \in Output /\ o \in 1..Len(outputs)
  BY OutputTyped
<1>2. [outputs[o] EXCEPT !.status = status] \in Output
  BY <1>1 DEF Output
<1>3. outputs' = [outputs EXCEPT ![o] = [outputs[o] EXCEPT !.status = status]]
  BY <1>1 DEF Decide, TypeOK
<1>4. outputs' \in Seq(Output)
  BY <1>1, <1>2, <1>3 DEF TypeOK
<1> QED
  BY <1>4 DEF TypeOK, Decide

\* recordFeedback keeps the types.
LEMMA RecordFeedbackType ==
  ASSUME TypeOK, NEW o \in DOMAIN outputs, NEW rating \in Ratings,
         RecordFeedback(o, rating)
  PROVE  TypeOK'
<1>1. outputs[o] \in Output /\ o \in 1..Len(outputs)
  BY OutputTyped
<1>2. outputs' \in Seq(Output)
  <2>1. [outputs[o] EXCEPT !.feedback = rating] \in Output
    BY <1>1 DEF Output
  <2>2. outputs' = [outputs EXCEPT ![o] = [outputs[o] EXCEPT !.feedback = rating]]
    BY <1>1 DEF RecordFeedback, TypeOK
  <2> QED
    BY <1>1, <2>1, <2>2 DEF TypeOK
<1>3. feedbackLog' \in Seq(FeedbackRecord)
  <2>1. [outputId |-> o, seatId |-> outputs[o].seatId, rating |-> rating]
          \in FeedbackRecord
    BY <1>1 DEF FeedbackRecord, Output
  <2> QED
    BY <2>1 DEF TypeOK, RecordFeedback
<1> QED
  BY <1>2, <1>3 DEF TypeOK, RecordFeedback

\* The type invariant is inductive.
LEMMA TypeInductive == TypeOK /\ [Next]_vars => TypeOK'
<1> SUFFICES ASSUME TypeOK, [Next]_vars
             PROVE  TypeOK'
  OBVIOUS
<1>1. ASSUME NEW input \in TaskInputs, AutoDispatch(input)
      PROVE  TypeOK'
  BY <1>1, CreateTaskType DEF AutoDispatch, CapableSeats
<1>2. ASSUME NEW bySeat \in Seats, NEW target \in Seats, NEW input \in TaskInputs,
             Dispatch(bySeat, input, target)
      PROVE  TypeOK'
  BY <1>2, CreateTaskType DEF Dispatch
<1>3. ASSUME NEW t \in DOMAIN tasks, NEW seat \in Seats, SubmitOutput(t, seat)
      PROVE  TypeOK'
  BY <1>3, SubmitOutputType
<1>4. ASSUME NEW bySeat \in Seats, NEW o \in DOMAIN outputs,
             Approve(bySeat, o) \/ Reject(bySeat, o)
      PROVE  TypeOK'
  BY <1>4, DecideType DEF Approve, Reject
<1>5. ASSUME NEW o \in DOMAIN outputs, NEW rating \in Ratings, RecordFeedback(o, rating)
      PROVE  TypeOK'
  BY <1>5, RecordFeedbackType
<1>6. ASSUME NEW role \in Roles, NEW r \in Rights[role], ChangeRole(role, r)
      PROVE  TypeOK'
  BY <1>6 DEF TypeOK, ChangeRole
<1>7. CASE RebuildRegistry
  BY <1>7 DEF TypeOK, RebuildRegistry
<1>8. CASE UNCHANGED vars
  BY <1>8 DEF TypeOK, vars
<1> QED
  BY <1>1, <1>2, <1>3, <1>4, <1>5, <1>6, <1>7, <1>8 DEF Next

\* It holds at the start.
LEMMA TypeInit == Init => TypeOK
  BY SeatsAssumption DEF Init, TypeOK

\* Every state the manager reaches is well typed, whatever the organization.
THEOREM TypeCorrect == Spec => []TypeOK
  BY TypeInit, TypeInductive, PTL DEF Spec

------------------------------------------------------------------------------
(***************************************************************************)
(* The load counters.  LoadExactWithoutResubmission is not inductive by    *)
(* itself: when a task that is already done is handed in again, that the   *)
(* seat has now handed it in twice follows from TaskPointsAtLastOutput.    *)
(***************************************************************************)
LoadInv ==
  /\ TypeOK
  /\ TaskPointsAtLastOutput
  /\ LoadNeverOverstatesWork
  /\ LoadExactWithoutResubmission

\* The tasks a seat has in hand are finitely many, so they can be counted.
LEMMA OpenTasksFinite ==
  ASSUME TypeOK, NEW seat
  PROVE  /\ IsFiniteSet(OpenTasks(seat))
         /\ Cardinality(OpenTasks(seat)) \in Nat
<1>1. OpenTasks(seat) \in SUBSET (1..Len(tasks))
  BY DEF OpenTasks, TypeOK
<1>2. IsFiniteSet(1..Len(tasks))
  BY FS_Interval DEF TypeOK
<1> QED
  BY <1>1, <1>2, FS_Subset, FS_CardinalityType

\* Decisions and feedback leave what the load depends on alone.
LEMMA LoadInvDependsOn ==
  ASSUME LoadInv, TypeOK',
         tasks' = tasks, load' = load,
         DOMAIN outputs' = DOMAIN outputs,
         \A o \in DOMAIN outputs : /\ outputs'[o].taskId = outputs[o].taskId
                                   /\ outputs'[o].seatId = outputs[o].seatId
  PROVE  LoadInv'
<1>1. \A t : HandedIn(t)' = HandedIn(t)
  BY DEF HandedIn
<1>2. TaskPointsAtLastOutput'
  <2>1. \A t : \A o \in HandedIn(t) : outputs'[o].seatId = outputs[o].seatId
    BY DEF HandedIn
  <2> QED
    BY <1>1, <2>1 DEF LoadInv, TaskPointsAtLastOutput
<1>3. \A seat : OpenTasks(seat)' = OpenTasks(seat)
  BY DEF OpenTasks
<1>4. \A seat : HandedInTwice(seat)' <=> HandedInTwice(seat)
  BY DEF HandedInTwice
<1> QED
  BY <1>2, <1>3, <1>4 DEF LoadInv, LoadNeverOverstatesWork, LoadExactWithoutResubmission

\* createTask counts the one task it adds.
LEMMA CreateTaskLoad ==
  ASSUME LoadInv, TypeOK', NEW seat \in Seats, CreateTask(seat)
  PROVE  LoadInv'
<1> DEFINE t == Len(tasks) + 1
<1>1. /\ DOMAIN tasks = 1..Len(tasks)
      /\ DOMAIN tasks' = DOMAIN tasks \cup {t}
      /\ t \notin DOMAIN tasks
      /\ \A u \in DOMAIN tasks : tasks'[u] = tasks[u]
      /\ tasks'[t] = [assignedSeatId |-> seat, status |-> "executing", output |-> None]
  BY DEF LoadInv, TypeOK, CreateTask
<1>2. /\ outputs' = outputs
      /\ \A u : HandedIn(u)' = HandedIn(u)
      /\ \A other : HandedInTwice(other)' <=> HandedInTwice(other)
  BY DEF CreateTask, HandedIn, HandedInTwice
<1>3. TaskPointsAtLastOutput'
  <2>1. HandedIn(t) = {}
    BY <1>1 DEF LoadInv, TaskPointsAtLastOutput, HandedIn
  <2>2. \A o \in DOMAIN outputs' : outputs'[o].taskId \in DOMAIN tasks'
    BY <1>1, <1>2 DEF LoadInv, TaskPointsAtLastOutput
  <2> HIDE DEF t
  <2> QED
    BY <1>1, <1>2, <2>1, <2>2 DEF LoadInv, TaskPointsAtLastOutput
<1>4. OpenTasks(seat)' = OpenTasks(seat) \cup {t} /\ t \notin OpenTasks(seat)
  BY <1>1 DEF OpenTasks
<1>5. \A other \in Seats \ {seat} : OpenTasks(other)' = OpenTasks(other)
  BY <1>1 DEF OpenTasks
<1>6. Cardinality(OpenTasks(seat)') = Cardinality(OpenTasks(seat)) + 1
  BY <1>4, OpenTasksFinite, FS_AddElement DEF LoadInv
<1>7. /\ load'[seat] = load[seat] + 1
      /\ \A other \in Seats \ {seat} : load'[other] = load[other]
  BY DEF CreateTask, LoadInv, TypeOK
<1>8. \A other \in Seats : load[other] \in Nat /\ Cardinality(OpenTasks(other)) \in Nat
  BY OpenTasksFinite DEF LoadInv, TypeOK
<1>9. LoadNeverOverstatesWork'
  BY <1>5, <1>6, <1>7, <1>8 DEF LoadInv, LoadNeverOverstatesWork
<1>10. LoadExactWithoutResubmission'
  BY <1>2, <1>5, <1>6, <1>7, <1>8 DEF LoadInv, LoadExactWithoutResubmission
<1> QED
  BY <1>3, <1>9, <1>10 DEF LoadInv

\* submitOutput takes off one when the task was executing, and a seat whose task
\* was done already has handed it in twice from then on.
LEMMA SubmitOutputLoad ==
  ASSUME LoadInv, TypeOK', NEW t \in DOMAIN tasks, NEW seat \in Seats,
         SubmitOutput(t, seat)
  PROVE  LoadInv'
<1> DEFINE n == Len(outputs) + 1
<1>1. /\ DOMAIN outputs = 1..Len(outputs)
      /\ DOMAIN outputs' = DOMAIN outputs \cup {n}
      /\ n \notin DOMAIN outputs
      /\ \A o \in DOMAIN outputs : outputs'[o] = outputs[o] /\ o <= n
      /\ outputs'[n].taskId = t /\ outputs'[n].seatId = seat
      /\ n <= n
  BY DEF LoadInv, TypeOK, SubmitOutput
<1>2. tasks[t] \in Task /\ tasks[t].assignedSeatId = seat
  BY TaskTyped DEF LoadInv, SubmitOutput
<1>3. /\ DOMAIN tasks' = DOMAIN tasks
      /\ \A u \in DOMAIN tasks \ {t} : tasks'[u] = tasks[u]
      /\ tasks'[t].status = "done" /\ tasks'[t].output = n
      /\ tasks'[t].assignedSeatId = seat
  BY <1>2 DEF LoadInv, TypeOK, SubmitOutput, Task
<1>4. /\ HandedIn(t)' = HandedIn(t) \cup {n}
      /\ \A u \in DOMAIN tasks \ {t} : HandedIn(u)' = HandedIn(u)
      /\ \A u : HandedIn(u) \subseteq DOMAIN outputs
  BY <1>1 DEF HandedIn
<1>5. TaskPointsAtLastOutput'
  <2> HIDE DEF n
  <2>1. \A o \in DOMAIN outputs' : outputs'[o].taskId \in DOMAIN tasks'
    BY <1>1, <1>3 DEF LoadInv, TaskPointsAtLastOutput
  <2>2. ASSUME NEW u \in DOMAIN tasks \ {t}
        PROVE  /\ tasks'[u].status = "done" <=> HandedIn(u)' # {}
               /\ HandedIn(u)' = {} => tasks'[u].output = None
               /\ HandedIn(u)' # {} => /\ tasks'[u].output \in HandedIn(u)'
                                       /\ \A o \in HandedIn(u)' : o <= tasks'[u].output
               /\ \A o \in HandedIn(u)' : outputs'[o].seatId = tasks'[u].assignedSeatId
    BY <1>1, <1>3, <1>4 DEF LoadInv, TaskPointsAtLastOutput
  <2>3. /\ HandedIn(t)' # {}
        /\ n \in HandedIn(t)'
        /\ \A o \in HandedIn(t)' : o <= n
        /\ \A o \in HandedIn(t)' : outputs'[o].seatId = seat
    BY <1>1, <1>2, <1>4 DEF LoadInv, TaskPointsAtLastOutput
  <2> QED
    BY <1>3, <2>1, <2>2, <2>3 DEF TaskPointsAtLastOutput
<1>6. OpenTasks(seat)' = OpenTasks(seat) \ {t}
  BY <1>2, <1>3 DEF OpenTasks
<1>7. \A other \in Seats \ {seat} : OpenTasks(other)' = OpenTasks(other)
  BY <1>2, <1>3 DEF OpenTasks
<1>8. Cardinality(OpenTasks(seat)')
        = IF t \in OpenTasks(seat) THEN Cardinality(OpenTasks(seat)) - 1
                                   ELSE Cardinality(OpenTasks(seat))
  BY <1>6, OpenTasksFinite, FS_RemoveElement DEF LoadInv
<1>9. /\ load'[seat] = Released(load[seat])
      /\ \A other \in Seats \ {seat} : load'[other] = load[other]
  BY DEF SubmitOutput, LoadInv, TypeOK
<1>10. /\ \A other \in Seats : load[other] \in Nat
       /\ \A other \in Seats : Cardinality(OpenTasks(other)) \in Nat
       /\ \A other \in Seats : Cardinality(OpenTasks(other)') \in Nat
  <2>1. \A other \in Seats : Cardinality(OpenTasks(other)) \in Nat
    BY OpenTasksFinite DEF LoadInv
  <2>2. t \in OpenTasks(seat) => Cardinality(OpenTasks(seat)) # 0
    BY OpenTasksFinite, FS_EmptySet DEF LoadInv
  <2>3. \A other \in Seats : Cardinality(OpenTasks(other)') \in Nat
    BY <1>7, <1>8, <2>1, <2>2
  <2> QED
    BY <2>1, <2>3 DEF LoadInv, TypeOK
<1>11. LoadNeverOverstatesWork'
  BY <1>7, <1>8, <1>9, <1>10 DEF LoadInv, LoadNeverOverstatesWork, Released
<1>12. LoadExactWithoutResubmission'
  <2>1. \A other : HandedInTwice(other) => HandedInTwice(other)'
    BY <1>1 DEF HandedInTwice
  <2>2. ASSUME t \notin OpenTasks(seat)
        PROVE  HandedInTwice(seat)'
    <3>1. PICK o \in HandedIn(t) : TRUE
      BY <1>2, <2>2 DEF LoadInv, TaskPointsAtLastOutput, OpenTasks, Task
    <3>2. o \in DOMAIN outputs /\ outputs[o].taskId = t /\ outputs[o].seatId = seat
      BY <1>2, <3>1 DEF LoadInv, TaskPointsAtLastOutput, HandedIn
    <3> HIDE DEF n
    <3>3. /\ o \in DOMAIN outputs' /\ n \in DOMAIN outputs' /\ o # n
          /\ outputs'[o].taskId = outputs'[n].taskId /\ outputs'[o].seatId = seat
      BY <1>1, <3>2
    <3> QED
      BY <3>3 DEF HandedInTwice
  <2> QED
    BY <1>7, <1>8, <1>9, <1>10, <2>1, <2>2
    DEF LoadInv, LoadExactWithoutResubmission, LoadNeverOverstatesWork, Released
<1> QED
  BY <1>5, <1>11, <1>12 DEF LoadInv

\* Every operation keeps LoadInv.
LEMMA LoadInductive == LoadInv /\ [Next]_vars => LoadInv'
<1> SUFFICES ASSUME LoadInv, [Next]_vars
             PROVE  LoadInv'
  OBVIOUS
<1>0. TypeOK /\ TypeOK'
  BY TypeInductive DEF LoadInv
<1>1. ASSUME NEW input \in TaskInputs, AutoDispatch(input)
      PROVE  LoadInv'
  BY <1>0, <1>1, CreateTaskLoad DEF AutoDispatch, CapableSeats
<1>2. ASSUME NEW bySeat \in Seats, NEW target \in Seats, NEW input \in TaskInputs,
             Dispatch(bySeat, input, target)
      PROVE  LoadInv'
  BY <1>0, <1>2, CreateTaskLoad DEF Dispatch
<1>3. ASSUME NEW t \in DOMAIN tasks, NEW seat \in Seats, SubmitOutput(t, seat)
      PROVE  LoadInv'
  BY <1>0, <1>3, SubmitOutputLoad
<1>4. ASSUME NEW bySeat \in Seats, NEW o \in DOMAIN outputs,
             NEW status, Decide(bySeat, o, status)
      PROVE  LoadInv'
  <2>1. \A p \in DOMAIN outputs : outputs[p] \in Output
    BY <1>0, OutputTyped
  <2>2. /\ DOMAIN outputs' = DOMAIN outputs
        /\ \A p \in DOMAIN outputs : /\ outputs'[p].taskId = outputs[p].taskId
                                     /\ outputs'[p].seatId = outputs[p].seatId
    BY <1>4, <2>1 DEF Decide, Output
  <2> QED
    BY <1>0, <1>4, <2>2, LoadInvDependsOn DEF Decide
<1>5. ASSUME NEW o \in DOMAIN outputs, NEW rating \in Ratings, RecordFeedback(o, rating)
      PROVE  LoadInv'
  <2>1. \A p \in DOMAIN outputs : outputs[p] \in Output
    BY <1>0, OutputTyped
  <2>2. /\ DOMAIN outputs' = DOMAIN outputs
        /\ \A p \in DOMAIN outputs : /\ outputs'[p].taskId = outputs[p].taskId
                                     /\ outputs'[p].seatId = outputs[p].seatId
    BY <1>5, <2>1 DEF RecordFeedback, Output
  <2> QED
    BY <1>0, <1>5, <2>2, LoadInvDependsOn DEF RecordFeedback
<1>6. ASSUME NEW role \in Roles, NEW r \in Rights[role], ChangeRole(role, r)
      PROVE  LoadInv'
  BY <1>0, <1>6, LoadInvDependsOn DEF ChangeRole
<1>7. CASE RebuildRegistry
  BY <1>0, <1>7, LoadInvDependsOn DEF RebuildRegistry
<1>8. CASE UNCHANGED vars
  BY <1>0, <1>8, LoadInvDependsOn DEF vars
<1> QED
  BY <1>1, <1>2, <1>3, <1>4, <1>5, <1>6, <1>7, <1>8 DEF Next, Approve, Reject

\* At the start no seat has load or work.
LEMMA LoadInit == Init => LoadInv
<1> SUFFICES ASSUME Init PROVE LoadInv
  OBVIOUS
<1>1. TypeOK
  BY TypeInit
<1>2. TaskPointsAtLastOutput
  BY DEF Init, TaskPointsAtLastOutput
<1>3. \A seat : OpenTasks(seat) = {}
  BY DEF Init, OpenTasks
<1>4. \A seat : Cardinality(OpenTasks(seat)) = 0
  BY <1>3, FS_EmptySet
<1> QED
  BY <1>1, <1>2, <1>4
  DEF LoadInv, LoadNeverOverstatesWork, LoadExactWithoutResubmission, Init

\* LoadInv holds in every state.
LEMMA LoadInvariant == Spec => []LoadInv
  BY LoadInit, LoadInductive, PTL DEF Spec

\* The load of a seat never exceeds the work it has in hand, and is exactly that
\* work until one of its tasks is handed in a second time.
THEOREM LoadTells == Spec => []LoadTellsWork
<1>1. LoadInv => LoadTellsWork
  BY DEF LoadInv, LoadTellsWork
<1> QED
  BY <1>1, LoadInvariant, PTL

\* A record about an output that is given again, and a decision on one, leave
\* the outputs with the feedback the log says.
LEMMA FeedbackDependsOn ==
  ASSUME FeedbackMirrorsLog, feedbackLog' = feedbackLog,
         outputs \in Seq(Output), outputs' \in Seq(Output),
         Len(outputs') >= Len(outputs),
         \A o \in 1..Len(outputs) : /\ outputs'[o].feedback = outputs[o].feedback
                                   /\ outputs'[o].seatId = outputs[o].seatId,
         \A o \in (Len(outputs) + 1)..Len(outputs') : outputs'[o].feedback = None
  PROVE  FeedbackMirrorsLog'
<1>1. \A i \in DOMAIN feedbackLog : feedbackLog[i].outputId \in 1..Len(outputs)
  BY DEF FeedbackMirrorsLog
<1>2. \A i \in DOMAIN feedbackLog :
        /\ feedbackLog'[i].outputId \in DOMAIN outputs'
        /\ feedbackLog'[i].seatId = outputs'[feedbackLog'[i].outputId].seatId
  BY <1>1 DEF FeedbackMirrorsLog
<1>3. ASSUME NEW o \in DOMAIN outputs'
      PROVE  LET records == {i \in DOMAIN feedbackLog' : feedbackLog'[i].outputId = o}
             IN  IF records = {} THEN outputs'[o].feedback = None
                 ELSE \E i \in records :
                        /\ \A j \in records : j <= i
                        /\ outputs'[o].feedback = feedbackLog'[i].rating
  <2>1. CASE o \in 1..Len(outputs)
    <3>1. o \in DOMAIN outputs
      BY <2>1
    <3> QED
      BY <2>1, <3>1 DEF FeedbackMirrorsLog
  <2>2. CASE o \notin 1..Len(outputs)
    <3>1. o \in (Len(outputs) + 1)..Len(outputs')
      BY <2>2
    <3>2. {i \in DOMAIN feedbackLog' : feedbackLog'[i].outputId = o} = {}
      BY <1>1, <2>2
    <3> QED
      BY <3>1, <3>2
  <2> QED
    BY <2>1, <2>2
<1> QED
  BY <1>2, <1>3 DEF FeedbackMirrorsLog

\* A new record is the last about its output and the first to say so there.
LEMMA FeedbackRecorded ==
  ASSUME TypeOK, FeedbackMirrorsLog, NEW o \in DOMAIN outputs, NEW rating \in Ratings,
         RecordFeedback(o, rating)
  PROVE  FeedbackMirrorsLog'
<1> DEFINE N == Len(feedbackLog) + 1
           record == [outputId |-> o, seatId |-> outputs[o].seatId, rating |-> rating]
<1>1. /\ N \in Nat \ {0} /\ DOMAIN feedbackLog = 1..(N - 1) /\ DOMAIN feedbackLog' = 1..N
      /\ feedbackLog'[N] = record
      /\ \A i \in 1..(N - 1) : feedbackLog'[i] = feedbackLog[i]
  BY DEF TypeOK, RecordFeedback
<1>2. /\ DOMAIN outputs' = DOMAIN outputs
      /\ \A p \in DOMAIN outputs : outputs'[p].seatId = outputs[p].seatId
      /\ \A p \in DOMAIN outputs : p # o => outputs'[p].feedback = outputs[p].feedback
  BY DEF RecordFeedback
<1>3. outputs'[o].feedback = rating
  <2>1. outputs[o] \in Output
    BY OutputTyped
  <2>2. outputs'[o] = [outputs[o] EXCEPT !.feedback = rating]
    BY DEF RecordFeedback
  <2> QED
    BY <2>1, <2>2 DEF Output
<1> HIDE DEF N
<1>4. ASSUME NEW i \in DOMAIN feedbackLog'
      PROVE  /\ feedbackLog'[i].outputId \in DOMAIN outputs'
             /\ feedbackLog'[i].seatId = outputs'[feedbackLog'[i].outputId].seatId
  <2>1. CASE i = N
    BY <1>1, <1>2, <2>1
  <2>2. CASE i # N
    <3>1. i \in DOMAIN feedbackLog /\ feedbackLog'[i] = feedbackLog[i]
      BY <1>1, <2>2
    <3> QED
      BY <1>2, <3>1 DEF FeedbackMirrorsLog
  <2> QED
    BY <2>1, <2>2
<1>5. ASSUME NEW p \in DOMAIN outputs'
      PROVE  LET records == {i \in DOMAIN feedbackLog' : feedbackLog'[i].outputId = p}
             IN  IF records = {} THEN outputs'[p].feedback = None
                 ELSE \E i \in records :
                        /\ \A j \in records : j <= i
                        /\ outputs'[p].feedback = feedbackLog'[i].rating
  <2> DEFINE records == {i \in DOMAIN feedbackLog' : feedbackLog'[i].outputId = p}
             old == {i \in DOMAIN feedbackLog : feedbackLog[i].outputId = p}
  <2>1. CASE p = o
    <3>1. N \in 1..N /\ \A j \in 1..N : j <= N
      BY <1>1
    <3>2. feedbackLog'[N].outputId = p
      BY <1>1, <2>1
    <3>3. N \in records /\ \A j \in records : j <= N
      BY <1>1, <3>1, <3>2
    <3>4. outputs'[p].feedback = feedbackLog'[N].rating
      BY <1>1, <1>3, <2>1
    <3> QED
      BY <3>3, <3>4
  <2>2. CASE p # o
    <3>1. records = old
      BY <1>1, <2>2
    <3>2. \A i \in old : feedbackLog'[i] = feedbackLog[i]
      BY <1>1
    <3>3. p \in DOMAIN outputs /\ outputs'[p].feedback = outputs[p].feedback
      BY <1>2, <2>2
    <3> QED
      BY <3>1, <3>2, <3>3 DEF FeedbackMirrorsLog
  <2> QED
    BY <2>1, <2>2
<1> QED
  BY <1>4, <1>5 DEF FeedbackMirrorsLog

\* Every step keeps the outputs and the feedback log in agreement.
LEMMA FeedbackStep == TypeOK /\ FeedbackMirrorsLog /\ [Next]_vars => FeedbackMirrorsLog'
<1> SUFFICES ASSUME TypeOK, FeedbackMirrorsLog, [Next]_vars
             PROVE  FeedbackMirrorsLog'
  OBVIOUS
<1>1. TypeOK'
  BY TypeInductive
<1>2. CASE outputs' = outputs /\ feedbackLog' = feedbackLog
  BY <1>2 DEF FeedbackMirrorsLog
<1>3. ASSUME NEW t \in DOMAIN tasks, NEW seat \in Seats, SubmitOutput(t, seat)
      PROVE  FeedbackMirrorsLog'
  <2>1. /\ Len(outputs') = Len(outputs) + 1
        /\ \A o \in 1..Len(outputs) : outputs'[o] = outputs[o]
        /\ outputs'[Len(outputs) + 1].feedback = None
    BY <1>3 DEF SubmitOutput, TypeOK
  <2> QED
    BY <1>1, <1>3, <2>1, FeedbackDependsOn DEF SubmitOutput, TypeOK
<1>4. ASSUME NEW bySeat \in Seats, NEW o \in DOMAIN outputs,
             NEW status \in {"executing", "completed"}, Decide(bySeat, o, status)
      PROVE  FeedbackMirrorsLog'
  <2>1. outputs[o] \in Output
    BY OutputTyped
  <2>2. Len(outputs') = Len(outputs)
    BY <1>4 DEF Decide, TypeOK
  <2>3. \A p \in 1..Len(outputs) : /\ outputs'[p].feedback = outputs[p].feedback
                                   /\ outputs'[p].seatId = outputs[p].seatId
    BY <1>4, <2>1 DEF Decide, TypeOK, Output
  <2> QED
    BY <1>1, <1>4, <2>2, <2>3, FeedbackDependsOn DEF Decide, TypeOK
<1>5. ASSUME NEW o \in DOMAIN outputs, NEW rating \in Ratings, RecordFeedback(o, rating)
      PROVE  FeedbackMirrorsLog'
  BY <1>5, FeedbackRecorded
<1>6. ASSUME NEW input \in TaskInputs, AutoDispatch(input) PROVE FeedbackMirrorsLog'
  BY <1>2, <1>6 DEF AutoDispatch, CreateTask
<1>7. ASSUME NEW bySeat \in Seats, NEW target \in Seats, NEW input \in TaskInputs,
             Dispatch(bySeat, input, target)
      PROVE  FeedbackMirrorsLog'
  BY <1>2, <1>7 DEF Dispatch, CreateTask
<1>8. ASSUME NEW role \in Roles, NEW r \in Rights[role], ChangeRole(role, r)
      PROVE  FeedbackMirrorsLog'
  BY <1>2, <1>8 DEF ChangeRole
<1>9. CASE RebuildRegistry
  BY <1>2, <1>9 DEF RebuildRegistry
<1>10. CASE UNCHANGED vars
  BY <1>2, <1>10 DEF vars
<1> QED
  BY <1>3, <1>4, <1>5, <1>6, <1>7, <1>8, <1>9, <1>10 DEF Next, Approve, Reject

\* A task is done exactly when it was handed in and shows the last output, and
\* an output carries the feedback its last record says.
THEOREM RecordsKept == Spec => []RecordsAgree
<1>1. Init => FeedbackMirrorsLog
  BY DEF Init, FeedbackMirrorsLog
<1>2. LoadInv /\ FeedbackMirrorsLog /\ [Next]_vars => FeedbackMirrorsLog'
  BY FeedbackStep DEF LoadInv
<1>3. LoadInv /\ FeedbackMirrorsLog => RecordsAgree
  BY DEF LoadInv, RecordsAgree
<1> QED
  BY <1>1, <1>2, <1>3, LoadInvariant, PTL DEF Spec

------------------------------------------------------------------------------
\* The sort by load is a sort by work in hand where the counters are exact.
LEMMA SortedByWork ==
  ASSUME LoadInv, NEW input \in TaskInputs, AutoDispatch(input),
         \A seat \in CapableSeats(input) : ~HandedInTwice(seat)
  PROVE  ChosenIsLeastBusy(input)
<1>1. PICK seat \in CapableSeats(input) :
        FirstByLoad(seat, CapableSeats(input)) /\ CreateTask(seat)
  BY DEF AutoDispatch
<1>2. tasks'[Len(tasks')].assignedSeatId = seat
  BY <1>1 DEF CreateTask, LoadInv, TypeOK
<1>3. \A other \in CapableSeats(input) :
        other \in Seats /\ load[other] = Cardinality(OpenTasks(other)) /\ load[other] \in Nat
  BY DEF LoadInv, TypeOK, LoadExactWithoutResubmission, CapableSeats
<1>4. \A other \in CapableSeats(input) : load[seat] <= load[other]
  BY <1>1, <1>3 DEF FirstByLoad
<1> QED
  BY <1>1, <1>2, <1>3, <1>4 DEF ChosenIsLeastBusy

\* Automatic dispatch goes to a capable seat with the fewest tasks in hand, as
\* long as no capable seat has handed a task in twice.
THEOREM AutoDispatchFair == Spec => AutoDispatchPicksLeastBusy
<1>1. LoadInv => \A input \in TaskInputs :
                   /\ AutoDispatch(input)
                   /\ \A seat \in CapableSeats(input) : ~HandedInTwice(seat)
                   => ChosenIsLeastBusy(input)
  BY SortedByWork
<1> QED
  BY <1>1, LoadInvariant, PTL DEF AutoDispatchPicksLeastBusy
==============================================================================
