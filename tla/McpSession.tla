------------------------------ MODULE McpSession ------------------------------
(***************************************************************************)
(* One simulator run seen from inside: SimulationRunner.runOne and the     *)
(* McpClient it owns, talking JSON-RPC over the stdio of a child process.  *)
(* PlanEvaluation sees a whole session as a single step.                   *)
(*                                                                         *)
(* A client makes two requests, `initialize` with id 1 and `tools/call`    *)
(* with id 2, the second once the first is answered.  The continuation of  *)
(* an await runs before the next event is taken, so an event and what it   *)
(* resumes are one step.  The simulator is the environment: it may answer, *)
(* answer twice, write lines of its own, stay silent or die.  A request    *)
(* arms a timer of its own, which nothing disarms: one that fires after    *)
(* the answer finds its request gone.                                      *)
(***************************************************************************)
EXTENDS Naturals, Sequences

CONSTANTS
  Sessions,   \* the sessions running in the platform's process
  Scores,     \* the scores a simulator can answer with
  Foreign,    \* the lines a simulator can write that answer nothing
  MaxLines,   \* bound on the lines a simulator writes
  None

\* The answers that give no score: a JSON-RPC error, and a result whose text is
\* not JSON or that is no result object.
Unusable == {"rpc_error", "unreadable"}

ASSUME ScoresAssumption ==
  /\ Scores \cap (Unusable \cup {"failed", "noise", "null"}) = {}
  /\ None \notin Scores \cup {"failed"}

\* A line that is no JSON or that carries no id that was given out, and the JSON
\* value null.
ASSUME ForeignAssumption == Foreign \subseteq {"noise", "null"}

ASSUME LinesAssumption == MaxLines \in Nat

VARIABLES
  up,        \* the platform's own process is alive
  pc,        \* [Sessions -> ...]: where runOne is
  child,     \* [Sessions -> ...]: the child process and its standard input
  killed,    \* [Sessions -> BOOLEAN]: dispose has sent the kill signal
  nextId,    \* [Sessions -> 1..3]: McpClient.nextId
  pending,   \* [Sessions -> SUBSET {1, 2}]: McpClient.pending
  timers,    \* [Sessions -> SUBSET {1, 2}]: requests whose timer has not fired
  asked,     \* [Sessions -> SUBSET {1, 2}]: requests that reached the child
  sent,      \* [Sessions -> Seq(Line)]: lines the child has written
  read,      \* [Sessions -> Nat]: how many of them handleLine was given
  outcome    \* [Sessions -> ...]: what runOne returned

vars == <<up, pc, child, killed, nextId, pending, timers, asked, sent, read, outcome>>

\* Lines with id 0 answer nothing.
Line == [id : {1, 2}, body : Scores \cup Unusable] \cup [id : {0}, body : Foreign]

\* A child that could not be started is "absent" until its 'error' event; one
\* that died is "dead" until its exit is noticed.  From then on its standard
\* input is destroyed ("gone").
ChildStates == {"none", "absent", "running", "dead", "gone"}

TypeOK ==
  /\ up \in BOOLEAN
  /\ pc \in [Sessions -> {"idle", "initialize", "call", "settled"}]
  /\ child \in [Sessions -> ChildStates]
  /\ killed \in [Sessions -> BOOLEAN]
  /\ nextId \in [Sessions -> 1..3]
  /\ pending \in [Sessions -> SUBSET {1, 2}]
  /\ timers \in [Sessions -> SUBSET {1, 2}]
  /\ asked \in [Sessions -> SUBSET {1, 2}]
  /\ sent \in [Sessions -> Seq(Line)]
  /\ read \in [Sessions -> Nat]
  /\ \A s \in Sessions : read[s] <= Len(sent[s])
  /\ outcome \in [Sessions -> Scores \cup {"failed", None}]

------------------------------------------------------------------------------
\* Writing to the child's standard input.  A child that is dead but whose exit
\* is not noticed yet makes the write fail with EPIPE; nothing listens to the
\* 'error' event of child.stdin, which ends the whole process.  A destroyed
\* stream swallows the write.
Write(s, id) ==
  /\ asked' = [asked EXCEPT ![s] = IF child[s] = "running" THEN @ \cup {id} ELSE @]
  /\ up' = (child[s] # "dead")

\* (slip) The answer is taken as it comes.
Decode_Raw(body) == body

\* The score callTool and runOne make of the answer to tools/call.
Decode(body) == IF body \in Scores THEN body ELSE "failed"

\* McpClient.request for the session that awaits no other: the id is taken, the
\* entry made, the line written, the timer armed.
Request(s, others) ==
  /\ nextId' = [nextId EXCEPT ![s] = @ + 1]
  /\ pending' = [pending EXCEPT ![s] = others \cup {nextId[s]}]
  /\ timers' = [timers EXCEPT ![s] = @ \cup {nextId[s]}]
  /\ Write(s, nextId[s])

\* The awaited request was settled by its answer, a spawn error or a timer and
\* runOne comes to its end: its outcome and, in `finally`, dispose.
Settle(s, result) ==
  /\ pc' = [pc EXCEPT ![s] = "settled"]
  /\ outcome' = [outcome EXCEPT ![s] = result]
  /\ killed' = [killed EXCEPT ![s] = TRUE]

------------------------------------------------------------------------------
Init ==
  /\ up = TRUE
  /\ pc = [s \in Sessions |-> "idle"]
  /\ child = [s \in Sessions |-> "none"]
  /\ killed = [s \in Sessions |-> FALSE]
  /\ nextId = [s \in Sessions |-> 1]
  /\ pending = [s \in Sessions |-> {}]
  /\ timers = [s \in Sessions |-> {}]
  /\ asked = [s \in Sessions |-> {}]
  /\ sent = [s \in Sessions |-> <<>>]
  /\ read = [s \in Sessions |-> 0]
  /\ outcome = [s \in Sessions |-> None]

\* runOne up to the first await: connect spawns the child and requests
\* initialize.  A child that could not be started never gets the line.
Start(s) ==
  /\ pc[s] = "idle"
  /\ \E c \in {"running", "absent"} :
       /\ child' = [child EXCEPT ![s] = c]
       /\ asked' = [asked EXCEPT ![s] = IF c = "running" THEN {nextId[s]} ELSE {}]
  /\ pc' = [pc EXCEPT ![s] = "initialize"]
  /\ nextId' = [nextId EXCEPT ![s] = @ + 1]
  /\ pending' = [pending EXCEPT ![s] = {nextId[s]}]
  /\ timers' = [timers EXCEPT ![s] = {nextId[s]}]
  /\ UNCHANGED <<up, killed, sent, read, outcome>>

\* child.on('error'): every pending request is rejected.
SpawnError(s) ==
  /\ child[s] = "absent"
  /\ child' = [child EXCEPT ![s] = "gone"]
  /\ pending' = [pending EXCEPT ![s] = {}]
  /\ IF pending[s] # {}
     THEN Settle(s, "failed")
     ELSE UNCHANGED <<pc, outcome, killed>>
  /\ UNCHANGED <<up, nextId, timers, asked, sent, read>>

\* (slip) Any answer is taken for the one awaited.
HandleLine_AnyId(s) ==
  /\ read[s] < Len(sent[s])
  /\ read' = [read EXCEPT ![s] = @ + 1]
  /\ LET line == sent[s][read[s] + 1]
     IN  \/ /\ line.id = 0 \/ pending[s] = {}
            /\ UNCHANGED <<up, pc, killed, nextId, pending, timers, asked, outcome>>
         \/ /\ line.id # 0
            /\ 1 \in pending[s]
            /\ pc' = [pc EXCEPT ![s] = "call"]
            /\ Request(s, {})
            /\ UNCHANGED <<killed, outcome>>
         \/ /\ line.id # 0
            /\ 2 \in pending[s]
            /\ pending' = [pending EXCEPT ![s] = {}]
            /\ Settle(s, Decode(line.body))
            /\ UNCHANGED <<up, nextId, timers, asked>>
  /\ UNCHANGED <<child, sent>>

\* The readline 'line' event, in the order the child wrote the lines.  A
\* result for initialize, whatever it says, leads to the notification and to
\* tools/call; an error, or any answer to tools/call, ends the session.  The
\* line null parses, and reading its id throws where nothing catches: the whole
\* process ends.
HandleLine(s) ==
  /\ read[s] < Len(sent[s])
  /\ read' = [read EXCEPT ![s] = @ + 1]
  /\ LET line == sent[s][read[s] + 1]
     IN  \/ /\ line.id \notin pending[s]
            /\ up' = (line.body # "null")
            /\ UNCHANGED <<pc, killed, nextId, pending, timers, asked, outcome>>
         \/ /\ line.id \in pending[s]
            /\ line.id = 1
            /\ line.body # "rpc_error"
            /\ pc' = [pc EXCEPT ![s] = "call"]
            /\ Request(s, pending[s] \ {line.id})
            /\ UNCHANGED <<killed, outcome>>
         \/ /\ line.id \in pending[s]
            /\ line.id = 1 => line.body = "rpc_error"
            /\ pending' = [pending EXCEPT ![s] = @ \ {line.id}]
            /\ Settle(s, Decode(line.body))
            /\ UNCHANGED <<up, nextId, timers, asked>>
  /\ UNCHANGED <<child, sent>>

\* The timer of one request rejects that request if it is still pending.
TimerFires(s, id) ==
  /\ timers' = [timers EXCEPT ![s] = @ \ {id}]
  /\ IF id \in pending[s]
     THEN /\ pending' = [pending EXCEPT ![s] = @ \ {id}]
          /\ Settle(s, "failed")
     ELSE UNCHANGED <<pc, pending, outcome, killed>>
  /\ UNCHANGED <<up, child, nextId, asked, sent, read>>

\* (slip) Only initialize is given a timeout.
Timeout_FirstOnly(s) == 1 \in timers[s] /\ TimerFires(s, 1)

\* (slip) A timer rejects whatever is pending when it fires.
Timeout_AnyRequest(s) ==
  \E id \in timers[s] :
    /\ \A other \in timers[s] : id <= other
    /\ timers' = [timers EXCEPT ![s] = @ \ {id}]
    /\ pending' = [pending EXCEPT ![s] = {}]
    /\ IF pending[s] # {} THEN Settle(s, "failed") ELSE UNCHANGED <<pc, outcome, killed>>
    /\ UNCHANGED <<up, child, nextId, asked, sent, read>>

\* The timers are of one length, so they fire in the order they were armed.
Timeout(s) ==
  \E id \in timers[s] :
    /\ \A other \in timers[s] : id <= other
    /\ TimerFires(s, id)

\* Node notices that the child exited and destroys its standard input.  The
\* client has no handler of its own for that: pending requests wait for their
\* timers, and lines already written are still read.
ChildGone(s) ==
  /\ child[s] = "dead"
  /\ child' = [child EXCEPT ![s] = "gone"]
  /\ UNCHANGED <<up, pc, killed, nextId, pending, timers, asked, sent, read, outcome>>

\* The simulator answers a request it received, possibly again, or writes a
\* line that answers nothing.
ChildWrites(s) ==
  /\ child[s] = "running"
  /\ Len(sent[s]) < MaxLines
  /\ \E line \in Line :
       /\ line.id \in asked[s] \cup {0}
       /\ sent' = [sent EXCEPT ![s] = Append(@, line)]
  /\ UNCHANGED <<up, pc, child, killed, nextId, pending, timers, asked, read, outcome>>

\* The simulator exits, by itself or because it was killed.
ChildDies(s) ==
  /\ child[s] = "running"
  /\ child' = [child EXCEPT ![s] = "dead"]
  /\ UNCHANGED <<up, pc, killed, nextId, pending, timers, asked, sent, read, outcome>>

Next ==
  /\ up
  /\ \E s \in Sessions :
       \/ Start(s)
       \/ SpawnError(s)
       \/ HandleLine(s)
       \/ Timeout(s)
       \/ ChildGone(s)
       \/ ChildWrites(s)
       \/ ChildDies(s)

Spec == Init /\ [][Next]_vars

\* A timer that is armed fires sooner or later; nothing is assumed of the
\* simulator.
FairSpec == Spec /\ \A s \in Sessions : WF_vars(up /\ Timeout(s))

------------------------------------------------------------------------------
\* The request made last, which is the one runOne awaits.
LastId(s) == nextId[s] - 1

\* The first line read that answers request id has one of the bodies.
FirstAnswerIn(s, id, bodies) ==
  \E k \in 1..read[s] :
    /\ sent[s][k].id = id
    /\ sent[s][k].body \in bodies
    /\ \A j \in 1..(k - 1) : sent[s][j].id # id

\* A session waits for exactly the request it last made: no reply, late or
\* repeated, and no timer leaves an entry behind or takes that one away.
AwaitsItsLastRequest ==
  \A s \in Sessions :
    pending[s] = IF pc[s] \in {"initialize", "call"} THEN {LastId(s)} ELSE {}

\* A session that failed did so for the request it was waiting for: its child
\* could not be started, the first answer to that request was unusable, or the
\* timer of that request, no earlier one's, has fired.
FailsForItsOwnRequest ==
  \A s \in Sessions :
    outcome[s] = "failed" =>
      \/ child[s] = "gone" /\ asked[s] = {}
      \/ FirstAnswerIn(s, LastId(s), IF LastId(s) = 1 THEN {"rpc_error"} ELSE Unusable)
      \/ LastId(s) \notin timers[s]

\* What a session came to is never changed by what comes later.
OutcomeIsFinal == \A s \in Sessions : outcome[s] # None => outcome'[s] = outcome[s]

\* Answer, timer and spawn error race for the pending request: one of them, one
\* that is about that very request, settles it, once, and nothing stays pending
\* (McpClient.handleLine and the timer in request).
SettledByItsOwnRequest ==
  [](AwaitsItsLastRequest /\ FailsForItsOwnRequest) /\ [][OutcomeIsFinal]_vars

\* A score that enters the ranking is the first answer the simulator gave to
\* tools/call, never one to initialize nor a later repetition.
ScoreIsFirstAnswer ==
  \A s \in Sessions : outcome[s] \in Scores => FirstAnswerIn(s, 2, {outcome[s]})

\* evaluatePlans waits for every session: each one ends, even if its simulator
\* is silent or dead, as long as the platform's process lives.
SessionEnds ==
  \A s \in Sessions : pc[s] # "idle" ~> (pc[s] = "settled" \/ ~up)

\* What the specification of the simulators says: one that fails does not
\* interrupt the others.  A session whose own simulator is alive keeps a living
\* process to be awaited in.
FailureIsContained ==
  \A s \in Sessions :
    pc[s] \in {"initialize", "call"} /\ child[s] = "running" => up
==============================================================================
