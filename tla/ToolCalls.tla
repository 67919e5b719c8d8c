------------------------------ MODULE ToolCalls ------------------------------
(***************************************************************************)
(* The tool calls of one step of the agent loop.  executeToolCalls takes   *)
(* them in model order: an exclusive call is a barrier, parallel calls     *)
(* share a bounded rolling pool.  The scheduler is one async function; the *)
(* bodies it dispatched, the abort signal and the tool registry, whose     *)
(* modes are read again before each start, run beside it.                  *)
(***************************************************************************)
EXTENDS Naturals, Sequences, FiniteSets

CONSTANTS
  NumCalls,             \* the calls of the step, numbered in model order
  MaxParallelToolCalls  \* the configured size of the pool

ASSUME CallsAssumption ==
  NumCalls \in Nat \ {0} /\ MaxParallelToolCalls \in Nat \ {0}

Calls == 1..NumCalls
Modes == {"parallel", "exclusive"}

VARIABLES
  mode,      \* executionMode of each call: now, or when it was started
  signal,    \* the abort signal is aborted
  at,        \* where the scheduler is
  group,     \* the running group: its mode and the calls it may take
  nextCall,  \* the next call to start
  body,      \* what has become of each call: its slot and its dispatch
  inFlight,  \* the calls whose dispatch the pool still waits for
  failed,    \* schedulerFailure is set
  log        \* the tool/call and tool/result events of the session

vars == <<mode, signal, at, group, nextCall, body, inFlight, failed, log>>

Calling(c) == [kind |-> "call", call |-> c]
Result(c) == [kind |-> "result", call |-> c]
Skipped(c) == [kind |-> "skipped", call |-> c]
Committed == {c \in Calls : body[c] = "committed"}

\* Every variable holds a value of its kind, and what is in flight was dispatched.
TypeOK ==
  /\ mode \in [Calls -> Modes]
  /\ signal \in BOOLEAN /\ failed \in BOOLEAN
  /\ at \in {"classify", "starting", "committing", "preparing", "racing", "draining",
            "returned", "threw"}
  /\ group \in [mode : Modes, first : 1..(NumCalls + 1), last : 0..NumCalls]
  /\ nextCall \in 1..(NumCalls + 1)
  /\ body \in [Calls -> {"none", "preparing", "running", "settled", "failed", "committed"}]
  /\ inFlight \subseteq {c \in Calls : body[c] \in {"running", "settled", "failed", "committed"}}
  /\ log \in Seq([kind : {"call", "result", "skipped"}, call : Calls])

Init ==
  /\ mode \in [Calls -> Modes]
  /\ signal = FALSE /\ at = "classify"
  /\ group = [mode |-> "parallel", first |-> 1, last |-> 0] /\ nextCall = 1
  /\ body = [c \in Calls |-> "none"] /\ inFlight = {} /\ failed = FALSE /\ log = <<>>

------------------------------------------------------------------------------
\* A plugin changes the execution mode of a tool whose call is still to start.
\* The first call of a group starts in the breath that classified it.
RegistryChanges(c) ==
  /\ at # "starting" /\ c >= nextCall
  /\ \E m \in Modes \ {mode[c]} : mode' = [mode EXCEPT ![c] = m]
  /\ UNCHANGED <<signal, at, group, nextCall, body, inFlight, failed, log>>

Abort ==
  /\ at # "starting" /\ ~signal /\ signal' = TRUE
  /\ UNCHANGED <<mode, at, group, nextCall, body, inFlight, failed, log>>

\* A dispatched body ends with a result, or its dispatch rejects.
BodySettles(c) ==
  /\ body[c] = "running"
  /\ \/ body' = [body EXCEPT ![c] = "settled"] /\ UNCHANGED failed
     \/ body' = [body EXCEPT ![c] = "failed"] /\ failed' = TRUE
  /\ UNCHANGED <<mode, signal, at, group, nextCall, inFlight, log>>

\* The next group is classified: a parallel one may take every call left, an
\* exclusive one its first.
Classify ==
  /\ at = "classify" /\ nextCall <= NumCalls
  /\ group' = [mode |-> mode[nextCall], first |-> nextCall,
               last |-> IF mode[nextCall] = "parallel" THEN NumCalls ELSE nextCall]
  /\ at' = "starting"
  /\ UNCHANGED <<mode, signal, nextCall, body, inFlight, failed, log>>

AllDone ==
  /\ at = "classify" /\ nextCall > NumCalls /\ at' = "returned"
  /\ UNCHANGED <<mode, signal, group, nextCall, body, inFlight, failed, log>>

\* The first call without a result in the log.
Oldest == Cardinality(Committed) + 1
Ready == Oldest <= group.last /\ body[Oldest] = "settled"

\* (slip) Whatever has settled is committed.
Commit_AsSettled ==
  /\ at = "committing"
  /\ \E c \in Calls : /\ body[c] = "settled"
                      /\ body' = [body EXCEPT ![c] = "committed"]
                      /\ log' = Append(log, Result(c))
  /\ UNCHANGED <<mode, signal, at, group, nextCall, inFlight, failed>>

\* commitReady: results are finalized and appended in model order only.
Commit ==
  /\ at = "committing" /\ Ready
  /\ body' = [body EXCEPT ![Oldest] = "committed"]
  /\ log' = Append(log, Result(Oldest))
  /\ UNCHANGED <<mode, signal, at, group, nextCall, inFlight, failed>>

\* A finalization throws.
CommitFails ==
  /\ at = "committing" /\ Ready
  /\ failed' = TRUE /\ at' = "draining"
  /\ UNCHANGED <<mode, signal, group, nextCall, body, inFlight, log>>

\* (slip) Later calls of a pool are not classified again.
MayStart_Once ==
  ~signal /\ nextCall <= group.last /\ Cardinality(inFlight) < MaxParallelToolCalls

\* Whether fillPool starts another call.
MayStart ==
  /\ ~signal /\ nextCall <= group.last /\ Cardinality(inFlight) < MaxParallelToolCalls
  /\ \/ nextCall = group.first
     \/ group.mode = "parallel" => mode[nextCall] = "parallel"

\* (slip) The pairs go one call too far.
SkipRest_OneTooMany ==
  log' = log \o [i \in 1..(2 * (NumCalls + 2 - nextCall)) |->
                   LET c == nextCall + (i - 1) \div 2
                   IN  IF i % 2 = 1 THEN Calling(c) ELSE Skipped(c)]

\* An abort gives every call that has not started a call and a result.
SkipRest ==
  log' = log \o [i \in 1..(2 * (NumCalls + 1 - nextCall)) |->
                   LET c == nextCall + (i - 1) \div 2
                   IN  IF i % 2 = 1 THEN Calling(c) ELSE Skipped(c)]

\* Nothing is ready: the scheduler sees a failure and drains, starts the next
\* call, waits for one in flight, or ends the group.
Fill ==
  /\ at \in {"starting", "committing"} /\ ~Ready
  /\ IF failed THEN at' = "draining" /\ UNCHANGED <<nextCall, body, log>>
     ELSE IF MayStart
     THEN /\ at' = "preparing" /\ nextCall' = nextCall + 1
          /\ body' = [body EXCEPT ![nextCall] = "preparing"]
          /\ log' = Append(log, Calling(nextCall))
     ELSE /\ UNCHANGED <<body, nextCall>>
          /\ IF inFlight # {} THEN at' = "racing" /\ UNCHANGED log
             ELSE IF signal THEN at' = "returned" /\ SkipRest
             ELSE at' = "classify" /\ UNCHANGED log
  /\ UNCHANGED <<mode, signal, group, inFlight, failed>>

\* The ordered pre-execute has settled: a body to dispatch, or a result at once.
Prepared ==
  /\ at = "preparing"
  /\ LET c == nextCall - 1
     IN  IF failed THEN at' = "draining" /\ UNCHANGED <<body, inFlight>>
         ELSE /\ at' = "committing"
              /\ \/ body' = [body EXCEPT ![c] = "running"] /\ inFlight' = inFlight \cup {c}
                 \/ body' = [body EXCEPT ![c] = "settled"] /\ UNCHANGED inFlight
  /\ UNCHANGED <<mode, signal, group, nextCall, failed, log>>

PrepareFails ==
  /\ at = "preparing"
  /\ failed' = TRUE /\ at' = "draining"
  /\ UNCHANGED <<mode, signal, group, nextCall, body, inFlight, log>>

\* (slip) The dispatch that won the race stays in the pool.
Race_KeepsWinner ==
  /\ at = "racing"
  /\ \E c \in inFlight : body[c] # "running"
  /\ at' = IF failed THEN "draining" ELSE "committing"
  /\ UNCHANGED <<mode, signal, group, nextCall, body, inFlight, failed, log>>

Race ==
  /\ at = "racing"
  /\ \E c \in inFlight : body[c] # "running" /\ inFlight' = inFlight \ {c}
  /\ at' = IF failed THEN "draining" ELSE "committing"
  /\ UNCHANGED <<mode, signal, group, nextCall, body, failed, log>>

\* The failure is thrown when every dispatch has settled.
Throw ==
  /\ at = "draining" /\ (\A c \in inFlight : body[c] # "running") /\ at' = "threw"
  /\ UNCHANGED <<mode, signal, group, nextCall, body, inFlight, failed, log>>

Scheduler == \/ Classify \/ AllDone \/ Commit \/ CommitFails \/ Fill
             \/ Prepared \/ PrepareFails \/ Race \/ Throw

Next ==
  \/ Scheduler \/ Abort
  \/ \E c \in Calls : RegistryChanges(c) \/ BodySettles(c)

\* The scheduler and its ordered hooks run on; a body ends when it is aborted.
Fairness == WF_vars(Scheduler) /\ \A c \in Calls : WF_vars(signal /\ BodySettles(c))

Spec == Init /\ [][Next]_vars /\ Fairness

------------------------------------------------------------------------------
Ended == at \in {"returned", "threw"}
Unsettled == {c \in Calls : body[c] \in {"preparing", "running"}}
Logged == {log[k] : k \in 1..Len(log)}
Before(n) == {log[k] : k \in 1..(n - 1)}
Answers(c) == {Result(c), Skipped(c)}

\* A call follows the call before it, a result its call and the result before it.
FitsAfter(event, before) ==
  LET c == event.call
  IN  \/ /\ event = Calling(c) /\ Calling(c) \notin before
         /\ c > 1 => Calling(c - 1) \in before
      \/ /\ event \in Answers(c) /\ Calling(c) \in before
         /\ Answers(c) \cap before = {}
         /\ c > 1 => Answers(c - 1) \cap before # {}

\* However the bodies finish, the log has one call and at most one result of
\* each call, both in the model's order, and each result after its call.
LogInModelOrder == \A n \in 1..Len(log) : FitsAfter(log[n], Before(n))

\* A step whose calls ran or were aborted leaves no call without a result, so
\* that the history can be replayed; one that failed makes no result up.
ReplayStaysValid ==
  /\ at = "returned" => \A c \in Calls : Answers(c) \cap Logged # {}
  /\ \A c \in Calls : Skipped(c) \in Logged => signal /\ at = "returned"

\* What a step leaves in the log can be replayed.
LogReplays == LogInModelOrder /\ ReplayStaysValid

\* A call that was started as exclusive shares its time with no other call.
ExclusiveRunsAlone ==
  \A c, d \in Unsettled : mode[c] = "exclusive" => c = d

\* No more bodies run at a time than the configuration allows.
PoolIsBounded == Cardinality({c \in Calls : body[c] = "running"}) <= MaxParallelToolCalls

\* Whether it returns or throws, no body is left running behind the step.
NoBodyOutlivesTheStep == Ended => \A c \in Calls : body[c] # "running"

\* After a failed dispatch no other body begins, not even one being prepared.
NothingBeginsAfterFailure ==
  [][failed => \A c \in Calls : body'[c] = "running" => body[c] = "running"]_vars

\* The bodies keep to the pool and to the step, and a failure stops those that
\* have not begun.
PoolIsKept ==
  /\ [](ExclusiveRunsAlone /\ PoolIsBounded /\ NoBodyOutlivesTheStep)
  /\ NothingBeginsAfterFailure

\* An aborted step ends, with the calls in flight drained.
AbortDrains == signal ~> Ended
==============================================================================
