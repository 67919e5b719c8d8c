--------------------------- MODULE McpSession_proofs ---------------------------
(***************************************************************************)
(* Proofs about McpSession, for any number of sessions, any scores and any *)
(* number of lines: a session awaits its last request, what settles it is  *)
(* about that very request, and it takes the first answer to it.           *)
(***************************************************************************)
EXTENDS McpSession, TLAPS

\* What is pending, by where the session is.
Waiting(s) ==
  /\ pc[s] = "idle" => nextId[s] = 1 /\ pending[s] = {} /\ asked[s] = {}
  /\ pc[s] = "initialize" => nextId[s] = 2 /\ pending[s] = {1} /\ 2 \notin asked[s]
  /\ pc[s] = "call" => nextId[s] = 3 /\ pending[s] = {2}
  /\ pc[s] = "settled" => nextId[s] \in {2, 3} /\ pending[s] = {}
  /\ child[s] = "absent" => asked[s] = {}

\* A simulator can only answer what it was asked, so a session that waits has
\* read no answer yet to its request.
Reading(s) ==
  /\ \A k \in 1..Len(sent[s]) : sent[s][k].id \in asked[s] \cup {0}
  /\ pc[s] \in {"idle", "initialize"} => \A k \in 1..read[s] : sent[s][k].id # 1
  /\ pc[s] # "settled" => \A k \in 1..read[s] : sent[s][k].id # 2

\* Why a session ended as it did.
Reason(s) ==
  \/ child[s] = "gone" /\ asked[s] = {}
  \/ FirstAnswerIn(s, LastId(s), IF LastId(s) = 1 THEN {"rpc_error"} ELSE Unusable)
  \/ LastId(s) \notin timers[s]

Ended(s) ==
  /\ pc[s] # "settled" => outcome[s] = None
  /\ outcome[s] \in Scores => FirstAnswerIn(s, 2, {outcome[s]})
  /\ outcome[s] = "failed" => Reason(s)

Sound(s) == Waiting(s) /\ Reading(s) /\ Ended(s)

SessionInv == TypeOK /\ \A s \in Sessions : Sound(s)

------------------------------------------------------------------------------
\* A score or a failure is all that Decode makes of an answer: a failure of an
\* answer that gives no score.
LEMMA DecodeType ==
  ASSUME NEW body \in Scores \cup Unusable
  PROVE  /\ Decode(body) \in Scores \cup {"failed"}
         /\ Decode(body) \in Scores => Decode(body) = body
         /\ Decode(body) = "failed" => body \in Unusable
         /\ body = "rpc_error" => Decode(body) = "failed"
  BY ScoresAssumption DEF Decode, Unusable

\* What is pending tells where the session is.
LEMMA PendingTells ==
  ASSUME SessionInv, NEW s \in Sessions
  PROVE  /\ 1 \in pending[s] => pc[s] = "initialize"
         /\ 2 \in pending[s] => pc[s] = "call"
         /\ pending[s] \subseteq {1, 2}
         /\ pc[s] = "call" => 2 \in pending[s]
         /\ pending[s] # {} => pending[s] = {LastId(s)} /\ LastId(s) \in {1, 2}
         /\ pc[s] \in {"idle", "initialize", "call", "settled"}
<1>1. pc[s] \in {"idle", "initialize", "call", "settled"}
  BY DEF SessionInv, TypeOK
<1>2. Waiting(s)
  BY DEF SessionInv, Sound
<1> QED
  BY <1>1, <1>2 DEF Waiting, LastId

\* The next line to be read is one that was written.
LEMMA NextLine ==
  ASSUME SessionInv, NEW s \in Sessions, read[s] < Len(sent[s]),
         read' = [read EXCEPT ![s] = @ + 1]
  PROVE  /\ read[s] \in Nat
         /\ read'[s] = read[s] + 1
         /\ read[s] + 1 \in 1..Len(sent[s])
         /\ sent[s][read[s] + 1] \in Line
         /\ \A k \in 1..read'[s] : k \in 1..read[s] \/ k = read[s] + 1
         /\ \A t \in Sessions : t # s => read'[t] = read[t]
<1>1. Len(sent[s]) \in Nat /\ sent[s] \in Seq(Line) /\ read[s] \in Nat
  BY DEF SessionInv, TypeOK
<1> QED
  BY <1>1 DEF SessionInv, TypeOK

\* An answer that was the first stays the first.
LEMMA FirstStaysFirst ==
  ASSUME NEW s, read[s] \in Nat, read'[s] \in Nat, read[s] <= read'[s],
         \A k \in 1..read[s] : sent'[s][k] = sent[s][k]
  PROVE  \A id, bodies : FirstAnswerIn(s, id, bodies) => FirstAnswerIn(s, id, bodies)'
<1> SUFFICES ASSUME NEW id, NEW bodies, FirstAnswerIn(s, id, bodies)
             PROVE  FirstAnswerIn(s, id, bodies)'
  OBVIOUS
<1>1. PICK k \in 1..read[s] :
        /\ sent[s][k].id = id
        /\ sent[s][k].body \in bodies
        /\ \A j \in 1..(k - 1) : sent[s][j].id # id
  BY DEF FirstAnswerIn
<1>2. k \in 1..read'[s] /\ \A j \in 1..(k - 1) : j \in 1..read[s]
  OBVIOUS
<1> QED
  BY <1>1, <1>2 DEF FirstAnswerIn

\* The state at the start.
LEMMA SessionInit == Init => SessionInv
<1> SUFFICES ASSUME Init PROVE SessionInv
  OBVIOUS
<1>1. TypeOK
  BY DEF Init, TypeOK, ChildStates
<1>2. ASSUME NEW s \in Sessions PROVE Sound(s)
  BY ScoresAssumption DEF Init, Sound, Waiting, Reading, Ended
<1> QED
  BY <1>1, <1>2 DEF SessionInv

\* Other sessions are not touched by the step of one.
Untouched(t) ==
  /\ pc'[t] = pc[t] /\ nextId'[t] = nextId[t] /\ pending'[t] = pending[t]
  /\ timers'[t] = timers[t] /\ child'[t] = child[t] /\ asked'[t] = asked[t]
  /\ sent'[t] = sent[t] /\ read'[t] = read[t] /\ outcome'[t] = outcome[t]

\* A session a step does not touch stays sound.
LEMMA UntouchedSound ==
  ASSUME NEW t, Sound(t), Untouched(t)
  PROVE  Sound(t)'
<1>1. Waiting(t)' /\ Reading(t)'
  BY DEF Sound, Untouched, Waiting, Reading
<1>2. Ended(t)'
  BY DEF Sound, Untouched, Ended, Reason, FirstAnswerIn, LastId
<1> QED
  BY <1>1, <1>2 DEF Sound

\* A step that touches one session keeps the invariant if it keeps that session
\* sound.
LEMMA OneSession ==
  ASSUME SessionInv, TypeOK', NEW s \in Sessions, Sound(s)',
         \A t \in Sessions : t # s => Untouched(t)
  PROVE  SessionInv'
<1>1. ASSUME NEW t \in Sessions PROVE Sound(t)'
  BY <1>1, UntouchedSound DEF SessionInv
<1> QED
  BY <1>1 DEF SessionInv

\* What has ended stays as it is while lines are written and read, timers fire
\* and the child comes to its end.
LEMMA EndedStays ==
  ASSUME SessionInv, TypeOK', NEW s \in Sessions,
         pc'[s] = pc[s], outcome'[s] = outcome[s],
         asked'[s] = asked[s], nextId'[s] = nextId[s],
         child[s] = "gone" => child'[s] = "gone",
         timers'[s] \subseteq timers[s], read[s] <= read'[s],
         \A k \in 1..read[s] : sent'[s][k] = sent[s][k]
  PROVE  Ended(s)'
<1>1. read[s] \in Nat /\ read'[s] \in Nat
  BY DEF SessionInv, TypeOK
<1>2. \A id, bodies : FirstAnswerIn(s, id, bodies) => FirstAnswerIn(s, id, bodies)'
  BY <1>1, FirstStaysFirst
<1>3. Ended(s)
  BY DEF SessionInv, Sound
<1>4. LastId(s)' = LastId(s)
  BY DEF LastId
<1>5. outcome'[s] \in Scores => FirstAnswerIn(s, 2, {outcome[s]})'
  BY <1>2, <1>3 DEF Ended
<1>6. Reason(s) => Reason(s)'
  <2>1. FirstAnswerIn(s, LastId(s), IF LastId(s) = 1 THEN {"rpc_error"} ELSE Unusable)
          => FirstAnswerIn(s, LastId(s), IF LastId(s) = 1 THEN {"rpc_error"} ELSE Unusable)'
    BY <1>1, <1>4 DEF FirstAnswerIn
  <2> QED
    BY <1>4, <2>1 DEF Reason
<1>7. outcome'[s] \in Scores => FirstAnswerIn(s, 2, {outcome[s]})' /\ {outcome[s]}' = {outcome[s]}
  BY <1>5
<1> QED
  BY <1>3, <1>6, <1>7 DEF Ended, FirstAnswerIn

\* Starting a session, whether its child could be started or not.
LEMMA StartKeeps ==
  ASSUME SessionInv, NEW s \in Sessions, Start(s)
  PROVE  SessionInv'
<1>1. TypeOK'
  BY DEF SessionInv, TypeOK, Start, ChildStates, Sound, Waiting
<1>2. Sound(s)'
  <2>1. Waiting(s) /\ Reading(s) /\ Ended(s)
    BY DEF SessionInv, Sound
  <2>2. pc[s] = "idle" /\ pc'[s] = "initialize" /\ nextId'[s] = 2 /\ pending'[s] = {1}
    BY <2>1 DEF SessionInv, TypeOK, Start, Waiting
  <2>3. /\ asked'[s] \subseteq {1} /\ asked[s] = {}
        /\ child'[s] = "absent" => asked'[s] = {}
    BY <2>1, <2>2 DEF SessionInv, TypeOK, Start, Waiting
  <2>4. sent'[s] = sent[s] /\ read'[s] = read[s] /\ outcome'[s] = outcome[s]
    BY DEF Start
  <2>5. Waiting(s)'
    BY <2>2, <2>3 DEF Waiting
  <2>6. Reading(s)'
    BY <2>1, <2>2, <2>3, <2>4 DEF Reading
  <2>7. outcome[s] = None
    BY <2>1, <2>2 DEF Ended
  <2>8. Ended(s)'
    BY <2>4, <2>7, ScoresAssumption DEF Ended
  <2> QED
    BY <2>5, <2>6, <2>8 DEF Sound
<1>3. \A t \in Sessions : t # s => Untouched(t)
  BY DEF SessionInv, TypeOK, Start, Untouched
<1> QED
  BY <1>1, <1>2, <1>3, OneSession

\* A session that was waiting ends with a failure, for a reason of its own.
LEMMA FailKeeps ==
  ASSUME SessionInv, NEW s \in Sessions, pending[s] # {}, Settle(s, "failed"),
         pending' = [pending EXCEPT ![s] = {}],
         timers' \in [Sessions -> SUBSET {1, 2}], child' \in [Sessions -> ChildStates],
         \A t \in Sessions : t # s => timers'[t] = timers[t] /\ child'[t] = child[t],
         UNCHANGED <<up, nextId, asked, sent, read>>,
         child'[s] = child[s] \/ child'[s] = "gone",
         Reason(s)'
  PROVE  SessionInv'
<1>1. TypeOK'
  BY DEF SessionInv, TypeOK, Settle
<1>2. /\ pc'[s] = "settled" /\ pending'[s] = {} /\ outcome'[s] = "failed"
  BY DEF SessionInv, TypeOK, Settle
<1>3. Waiting(s) /\ Reading(s) /\ pc[s] \in {"initialize", "call"}
  BY PendingTells DEF SessionInv, Sound, Waiting
<1>4. Waiting(s)'
  BY <1>2, <1>3 DEF Waiting
<1>5. Reading(s)'
  BY <1>2, <1>3 DEF Reading
<1>6. Ended(s)'
  BY <1>2, ScoresAssumption DEF Ended
<1>7. Sound(s)'
  BY <1>4, <1>5, <1>6 DEF Sound
<1>8. \A t \in Sessions : t # s => Untouched(t)
  BY DEF SessionInv, TypeOK, Settle, Untouched
<1> QED
  BY <1>1, <1>7, <1>8, OneSession

\* A step in which only the child moves on, towards its end, or a timer fires
\* whose request is gone.
LEMMA PassingKeeps ==
  ASSUME SessionInv, NEW s \in Sessions, up' \in BOOLEAN,
         child' \in [Sessions -> ChildStates], timers' \in [Sessions -> SUBSET {1, 2}],
         \A t \in Sessions : t # s => timers'[t] = timers[t] /\ child'[t] = child[t],
         timers'[s] \subseteq timers[s],
         child[s] = "gone" => child'[s] = "gone",
         child'[s] # child[s] => child'[s] # "absent",
         UNCHANGED <<pc, killed, nextId, pending, asked, sent, read, outcome>>
  PROVE  SessionInv'
<1>1. TypeOK'
  BY DEF SessionInv, TypeOK
<1>2. Waiting(s) /\ Reading(s)
  BY DEF SessionInv, Sound
<1>3. Waiting(s)'
  BY <1>2 DEF Waiting
<1>4. Reading(s)'
  BY <1>2 DEF Reading
<1>5. Ended(s)'
  <2>1. read[s] <= read'[s]
    BY DEF SessionInv, TypeOK
  <2> QED
    BY <1>1, <2>1, EndedStays
<1>6. Sound(s)'
  BY <1>3, <1>4, <1>5 DEF Sound
<1>7. \A t \in Sessions : t # s => Untouched(t)
  BY DEF Untouched
<1> QED
  BY <1>1, <1>6, <1>7, OneSession

\* The child could not be started: the session fails if it still waits.
LEMMA SpawnErrorKeeps ==
  ASSUME SessionInv, NEW s \in Sessions, SpawnError(s)
  PROVE  SessionInv'
<1>1. child' \in [Sessions -> ChildStates] /\ child'[s] = "gone" /\ up' \in BOOLEAN
  BY DEF SessionInv, TypeOK, SpawnError, ChildStates
<1>2. asked[s] = {} /\ child[s] = "absent"
  BY DEF SessionInv, Sound, Waiting, SpawnError
<1>3. timers' \in [Sessions -> SUBSET {1, 2}]
      /\ \A t \in Sessions : timers'[t] = timers[t] /\ (t # s => child'[t] = child[t])
  BY DEF SessionInv, TypeOK, SpawnError
<1>4. CASE pending[s] # {}
  <2>1. Reason(s)'
    BY <1>1, <1>2 DEF Reason, SpawnError
  <2> QED
    BY <1>1, <1>3, <1>4, <2>1, FailKeeps DEF SpawnError
<1>5. CASE pending[s] = {}
  <2>1. pending' = pending
    BY <1>5 DEF SpawnError, SessionInv, TypeOK
  <2> QED
    BY <1>1, <1>2, <1>3, <1>5, <2>1, PassingKeeps DEF SpawnError
<1> QED
  BY <1>4, <1>5

\* A timer fires: the session fails if it still waits for that request.
LEMMA TimeoutKeeps ==
  ASSUME SessionInv, NEW s \in Sessions, Timeout(s)
  PROVE  SessionInv'
<1>1. PICK id \in timers[s] : TimerFires(s, id)
  BY DEF Timeout
<1>2. /\ timers' \in [Sessions -> SUBSET {1, 2}] /\ timers'[s] = timers[s] \ {id}
      /\ \A t \in Sessions : t # s => timers'[t] = timers[t]
  BY <1>1 DEF SessionInv, TypeOK, TimerFires
<1>3. child' = child /\ child' \in [Sessions -> ChildStates] /\ up' \in BOOLEAN
  BY <1>1 DEF SessionInv, TypeOK, TimerFires
<1>4. CASE id \in pending[s]
  <2>1. pending[s] = {id} /\ LastId(s) = id
    BY <1>4, PendingTells
  <2>2. pending' = [pending EXCEPT ![s] = {}]
    BY <1>1, <1>4, <2>1 DEF TimerFires
  <2>3. Reason(s)'
    BY <1>1, <1>2, <2>1 DEF Reason, LastId, TimerFires
  <2> QED
    BY <1>1, <1>2, <1>3, <1>4, <2>2, <2>3, FailKeeps DEF TimerFires
<1>5. CASE id \notin pending[s]
  BY <1>1, <1>2, <1>3, <1>5, PassingKeeps DEF TimerFires
<1> QED
  BY <1>4, <1>5

\* A line that answers nothing that is pending is only read.
LEMMA IgnoredKeeps ==
  ASSUME SessionInv, NEW s \in Sessions,
         read[s] < Len(sent[s]),
         read' = [read EXCEPT ![s] = @ + 1],
         sent[s][read[s] + 1].id \notin pending[s],
         up' \in BOOLEAN,
         UNCHANGED <<pc, child, killed, nextId, pending, timers, asked, sent, outcome>>
  PROVE  SessionInv'
<1>1. TypeOK'
  BY DEF SessionInv, TypeOK
<1>2. /\ read'[s] = read[s] + 1
      /\ read[s] \in Nat
      /\ \A k \in 1..read'[s] : k \in 1..read[s] \/ k = read[s] + 1
  BY NextLine
<1>3. Waiting(s) /\ Reading(s)
  BY DEF SessionInv, Sound
<1>4. /\ pc[s] # "settled" => sent[s][read[s] + 1].id # 2
      /\ pc[s] \in {"idle", "initialize"} => sent[s][read[s] + 1].id # 1
  <2>1. read[s] + 1 \in 1..Len(sent[s])
    BY NextLine
  <2>2. sent[s][read[s] + 1].id \in asked[s] \cup {0}
    BY <1>3, <2>1 DEF Reading
  <2> QED
    BY <1>3, <2>2, PendingTells DEF Waiting
<1>5. Waiting(s)'
  BY <1>3 DEF Waiting
<1>6. Reading(s)'
  BY <1>2, <1>3, <1>4 DEF Reading
<1>7. Ended(s)'
  BY <1>1, <1>2, EndedStays
<1>8. Sound(s)'
  BY <1>5, <1>6, <1>7 DEF Sound
<1>9. \A t \in Sessions : t # s => Untouched(t)
  BY NextLine DEF Untouched
<1> QED
  BY <1>1, <1>8, <1>9, OneSession

\* A result for initialize: tools/call is requested, and no line read so far
\* has its id.
LEMMA InitializedKeeps ==
  ASSUME SessionInv, NEW s \in Sessions,
         read[s] < Len(sent[s]),
         read' = [read EXCEPT ![s] = @ + 1],
         sent[s][read[s] + 1].id = 1, 1 \in pending[s],
         pc' = [pc EXCEPT ![s] = "call"],
         Request(s, pending[s] \ {1}),
         UNCHANGED <<child, killed, sent, outcome>>
  PROVE  SessionInv'
<1>1. pc[s] = "initialize" /\ Waiting(s) /\ Reading(s) /\ Ended(s)
  BY PendingTells DEF SessionInv, Sound
<1>2. nextId[s] = 2 /\ pending[s] = {1}
  BY <1>1 DEF Waiting
<1>3. /\ nextId' = [nextId EXCEPT ![s] = 3] /\ pending' = [pending EXCEPT ![s] = {2}]
      /\ timers' = [timers EXCEPT ![s] = @ \cup {2}]
      /\ asked' = [asked EXCEPT ![s] = IF child[s] = "running" THEN @ \cup {2} ELSE @]
      /\ up' \in BOOLEAN
  <2>1. nextId[s] + 1 = 3 /\ (pending[s] \ {1}) \cup {nextId[s]} = {2}
    BY <1>2
  <2> QED
    BY <1>2, <2>1 DEF Request, Write
<1>4. TypeOK'
  BY <1>3 DEF SessionInv, TypeOK
<1>5. /\ read'[s] = read[s] + 1
      /\ read[s] \in Nat
      /\ \A k \in 1..read'[s] : k \in 1..read[s] \/ k = read[s] + 1
  BY NextLine
<1>6. /\ pc'[s] = "call" /\ pending'[s] = {2} /\ nextId'[s] = 3
      /\ asked[s] \subseteq asked'[s]
      /\ child[s] = "absent" => asked'[s] = asked[s]
  BY <1>3 DEF SessionInv, TypeOK
<1>7. Waiting(s)'
  BY <1>1, <1>6 DEF Waiting
<1>8. Reading(s)'
  <2>1. \A k \in 1..read'[s] : sent[s][k].id # 2
    BY <1>1, <1>5 DEF Reading
  <2>2. \A k \in 1..Len(sent[s]) : sent[s][k].id \in asked'[s] \cup {0}
    BY <1>1, <1>6 DEF Reading
  <2> QED
    BY <1>6, <2>1, <2>2 DEF Reading
<1>9. Ended(s)'
  BY <1>1, ScoresAssumption DEF Ended
<1>10. Sound(s)'
  BY <1>7, <1>8, <1>9 DEF Sound
<1>11. \A t \in Sessions : t # s => Untouched(t)
  BY <1>3, NextLine DEF SessionInv, TypeOK, Untouched
<1> QED
  BY <1>4, <1>10, <1>11, OneSession

\* The line that ends a session: the first with the id of tools/call, or an
\* error in answer to initialize, which gives no score.
LEMMA AnsweredKeeps ==
  ASSUME SessionInv, NEW s \in Sessions,
         read[s] < Len(sent[s]),
         read' = [read EXCEPT ![s] = @ + 1],
         sent[s][read[s] + 1].id \in pending[s],
         sent[s][read[s] + 1].id = 1 => sent[s][read[s] + 1].body = "rpc_error",
         pending' = [pending EXCEPT ![s] = @ \ {sent[s][read[s] + 1].id}],
         Settle(s, Decode(sent[s][read[s] + 1].body)),
         UNCHANGED <<up, child, nextId, timers, asked, sent>>
  PROVE  SessionInv'
<1> DEFINE line == sent[s][read[s] + 1]
<1>1. /\ read[s] + 1 \in 1..Len(sent[s])
      /\ read'[s] = read[s] + 1
      /\ read[s] \in Nat
      /\ line \in Line
  BY NextLine
<1>2. /\ pending[s] = {line.id} /\ line.id = LastId(s) /\ line.id \in {1, 2}
      /\ pc[s] \in {"initialize", "call"}
      /\ line.id = 1 => pc[s] = "initialize"
  BY PendingTells
<1>3. line.body \in Scores \cup Unusable
  BY <1>1, <1>2 DEF Line
<1>4. /\ pc'[s] = "settled" /\ pending'[s] = {} /\ outcome'[s] = Decode(line.body)
  <2> HIDE DEF line
  <2>1. pending' = [pending EXCEPT ![s] = @ \ {line.id}] /\ Settle(s, Decode(line.body))
    BY DEF line
  <2> QED
    BY <1>2, <2>1 DEF SessionInv, TypeOK, Settle
<1>5. Decode(line.body) \in Scores \cup {"failed"}
  <2> HIDE DEF line
  <2> QED
    BY <1>3, DecodeType
<1>6. TypeOK'
  <2> HIDE DEF line
  <2>1. pending' = [pending EXCEPT ![s] = @ \ {line.id}] /\ Settle(s, Decode(line.body))
    BY DEF line
  <2>2. outcome' \in [Sessions -> Scores \cup {"failed", None}]
    BY <1>5, <2>1 DEF SessionInv, TypeOK, Settle
  <2>3. read' \in [Sessions -> Nat] /\ \A t \in Sessions : read'[t] <= Len(sent'[t])
    BY <1>1 DEF SessionInv, TypeOK
  <2> QED
    BY <2>1, <2>2, <2>3 DEF SessionInv, TypeOK, Settle
<1>7. Waiting(s) /\ Reading(s)
  BY DEF SessionInv, Sound
<1>8. \A j \in 1..read[s] : sent[s][j].id # line.id
  BY <1>2, <1>7 DEF Reading
<1>9. \E k \in 1..read'[s] :
        /\ sent'[s][k] = line
        /\ \A j \in 1..(k - 1) : sent'[s][j].id # line.id
  <2>1. /\ read[s] + 1 \in 1..read'[s] /\ (read[s] + 1) - 1 = read[s]
        /\ sent'[s][read[s] + 1] = line /\ sent' = sent
    BY <1>1
  <2> HIDE DEF line
  <2> QED
    BY <1>8, <2>1
<1> HIDE DEF line
<1>10. "failed" \notin Scores
  BY ScoresAssumption
<1>11. line.id = 1 => line.body = "rpc_error"
  BY DEF line
<1>12. ASSUME outcome'[s] \in Scores PROVE FirstAnswerIn(s, 2, {outcome[s]})'
  <2>1. line.id = 2 /\ line.body = outcome'[s]
    BY <1>2, <1>3, <1>4, <1>10, <1>11, <1>12, DecodeType
  <2> QED
    BY <1>9, <2>1 DEF FirstAnswerIn
<1>13. ASSUME outcome'[s] = "failed" PROVE Reason(s)'
  <2>1. line.body \in Unusable
    BY <1>3, <1>4, <1>13, DecodeType
  <2>2. LastId(s)' = line.id
    BY <1>2 DEF LastId
  <2>3. \E k \in 1..read'[s] :
          /\ sent'[s][k].id = LastId(s)'
          /\ sent'[s][k].body \in IF LastId(s)' = 1 THEN {"rpc_error"} ELSE Unusable
          /\ \A j \in 1..(k - 1) : sent'[s][j].id # LastId(s)'
    BY <1>9, <1>11, <2>1, <2>2
  <2> QED
    BY <2>3 DEF Reason, FirstAnswerIn
<1>14. Ended(s)'
  BY <1>4, <1>12, <1>13 DEF Ended
<1>15. Waiting(s)'
  BY <1>2, <1>4, <1>7 DEF Waiting
<1>16. Reading(s)'
  BY <1>4, <1>7 DEF Reading
<1>17. Sound(s)'
  BY <1>14, <1>15, <1>16 DEF Sound
<1>18. \A t \in Sessions : t # s => Untouched(t)
  BY NextLine DEF SessionInv, TypeOK, Settle, Untouched
<1> QED
  BY <1>6, <1>17, <1>18, OneSession

\* A line is read: it is ignored, leads on to tools/call, or ends the session.
LEMMA HandleLineKeeps ==
  ASSUME SessionInv, NEW s \in Sessions, HandleLine(s)
  PROVE  SessionInv'
<1> DEFINE line == sent[s][read[s] + 1]
<1>1. CASE line.id \notin pending[s]
  <2>1. up' \in BOOLEAN
    BY <1>1 DEF HandleLine
  <2> QED
    BY <1>1, <2>1, IgnoredKeeps DEF HandleLine
<1>2. CASE line.id \in pending[s] /\ line.id = 1 /\ line.body # "rpc_error"
  BY <1>2, InitializedKeeps DEF HandleLine
<1>3. CASE line.id \in pending[s] /\ (line.id = 1 => line.body = "rpc_error")
  BY <1>3, AnsweredKeeps DEF HandleLine
<1> QED
  BY <1>1, <1>2, <1>3

\* The simulator writes a line that answers something it was asked, or nothing.
LEMMA ChildWritesKeeps ==
  ASSUME SessionInv, NEW s \in Sessions, ChildWrites(s)
  PROVE  SessionInv'
<1>1. PICK line \in Line : /\ line.id \in asked[s] \cup {0}
                           /\ sent' = [sent EXCEPT ![s] = Append(@, line)]
  BY DEF ChildWrites
<1>2. /\ sent[s] \in Seq(Line)
      /\ sent'[s] = Append(sent[s], line)
  BY <1>1 DEF SessionInv, TypeOK
<1>3. /\ sent'[s] \in Seq(Line)
      /\ Len(sent[s]) \in Nat
      /\ Len(sent'[s]) = Len(sent[s]) + 1
      /\ \A k \in 1..Len(sent[s]) : sent'[s][k] = sent[s][k]
      /\ sent'[s][Len(sent[s]) + 1] = line
  BY <1>2
<1>4. TypeOK'
  <2>1. sent' \in [Sessions -> Seq(Line)]
    BY <1>1, <1>2, <1>3 DEF SessionInv, TypeOK
  <2>2. ASSUME NEW t \in Sessions PROVE read'[t] <= Len(sent'[t])
    BY <1>1, <1>3, <2>2 DEF ChildWrites, SessionInv, TypeOK
  <2> QED
    BY <2>1, <2>2 DEF ChildWrites, SessionInv, TypeOK
<1>5. read[s] \in Nat /\ \A k \in 1..read[s] : k \in 1..Len(sent[s]) /\ sent'[s][k] = sent[s][k]
  BY <1>3 DEF SessionInv, TypeOK
<1>6. UNCHANGED <<pc, child, nextId, pending, timers, asked, read, outcome>>
  BY DEF ChildWrites
<1>7. Waiting(s) /\ Reading(s)
  BY DEF SessionInv, Sound
<1>8. Waiting(s)'
  BY <1>6, <1>7 DEF Waiting
<1>9. Reading(s)'
  <2>1. \A k \in 1..Len(sent'[s]) : sent'[s][k].id \in asked[s] \cup {0}
    <3>1. \A k \in 1..Len(sent'[s]) : k \in 1..Len(sent[s]) \/ k = Len(sent[s]) + 1
      BY <1>3
    <3> QED
      BY <1>1, <1>3, <1>7, <3>1 DEF Reading
  <2> QED
    BY <1>5, <1>6, <1>7, <2>1 DEF Reading
<1>10. Ended(s)'
  <2>1. read[s] <= read'[s]
    BY <1>5, <1>6
  <2> QED
    BY <1>4, <1>5, <1>6, <2>1, EndedStays
<1>11. Sound(s)'
  BY <1>8, <1>9, <1>10 DEF Sound
<1>12. \A t \in Sessions : t # s => Untouched(t)
  BY <1>1, <1>6 DEF SessionInv, TypeOK, Untouched
<1> QED
  BY <1>4, <1>11, <1>12, OneSession

\* Every step keeps the invariant.
LEMMA SessionStep == SessionInv /\ [Next]_vars => SessionInv'
<1> SUFFICES ASSUME SessionInv, [Next]_vars PROVE SessionInv'
  OBVIOUS
<1>1. ASSUME NEW s \in Sessions, ChildGone(s) \/ ChildDies(s) PROVE SessionInv'
  <2>1. /\ up' \in BOOLEAN /\ child' \in [Sessions -> ChildStates]
        /\ timers' = timers /\ timers' \in [Sessions -> SUBSET {1, 2}]
        /\ \A t \in Sessions : t # s => child'[t] = child[t]
        /\ child[s] # "gone" /\ child'[s] # "absent"
    BY <1>1 DEF SessionInv, TypeOK, ChildGone, ChildDies, ChildStates
  <2> QED
    BY <1>1, <2>1, PassingKeeps DEF ChildGone, ChildDies
<1>2. CASE UNCHANGED vars
  <2>1. TypeOK'
    BY <1>2 DEF vars, SessionInv, TypeOK
  <2>2. ASSUME NEW t \in Sessions PROVE Sound(t)'
    BY <1>2, UntouchedSound DEF vars, SessionInv, Untouched
  <2> QED
    BY <2>1, <2>2 DEF SessionInv
<1> QED
  BY <1>1, <1>2, StartKeeps, SpawnErrorKeeps, HandleLineKeeps, TimeoutKeeps,
     ChildWritesKeeps DEF Next

\* SessionInv holds in every state.
LEMMA SessionInvariant == Spec => []SessionInv
  BY SessionInit, SessionStep, PTL DEF Spec

------------------------------------------------------------------------------
\* Every variable of the sessions keeps its type.
THEOREM TypeCorrect == Spec => []TypeOK
  BY SessionInvariant, PTL DEF SessionInv

\* A session awaits exactly the request it last made, whatever lines, timers
\* and deaths come in whatever order.
LEMMA AwaitsTheLast ==
  ASSUME SessionInv
  PROVE  AwaitsItsLastRequest
<1>1. ASSUME NEW s \in Sessions
      PROVE  pending[s] = IF pc[s] \in {"initialize", "call"} THEN {LastId(s)} ELSE {}
  <2>1. pc[s] \in {"idle", "initialize", "call", "settled"} /\ Waiting(s)
    BY PendingTells DEF SessionInv, Sound
  <2> QED
    BY <2>1 DEF Waiting, LastId
<1> QED
  BY <1>1 DEF AwaitsItsLastRequest

\* A session that has ended awaits nothing, so nothing that comes later can
\* settle it again.
LEMMA EndIsFinal ==
  ASSUME SessionInv, [Next]_vars, NEW s \in Sessions, outcome[s] # None
  PROVE  outcome'[s] = outcome[s]
<1>1. pc[s] = "settled" /\ pending[s] = {}
  BY DEF SessionInv, Sound, Waiting, Ended
<1>2. ASSUME NEW t \in Sessions, Start(t) \/ ChildGone(t) \/ ChildWrites(t) \/ ChildDies(t)
      PROVE  outcome'[s] = outcome[s]
  BY <1>2 DEF Start, ChildGone, ChildWrites, ChildDies
<1>3. ASSUME NEW t \in Sessions, SpawnError(t) PROVE outcome'[s] = outcome[s]
  BY <1>1, <1>3 DEF SpawnError, Settle, SessionInv, TypeOK
<1>4. ASSUME NEW t \in Sessions, HandleLine(t) PROVE outcome'[s] = outcome[s]
  BY <1>1, <1>4 DEF HandleLine, Settle, SessionInv, TypeOK
<1>5. ASSUME NEW t \in Sessions, Timeout(t) PROVE outcome'[s] = outcome[s]
  BY <1>1, <1>5 DEF Timeout, TimerFires, Settle, SessionInv, TypeOK
<1> QED
  BY <1>2, <1>3, <1>4, <1>5 DEF Next, vars

\* Whatever lines, timers, spawn errors and deaths come in whatever order, a
\* session awaits its last request, is settled by what is about that request,
\* and is settled once.
THEOREM SettledByItsOwn == Spec => SettledByItsOwnRequest
<1>1. SessionInv => AwaitsItsLastRequest /\ FailsForItsOwnRequest
  BY AwaitsTheLast DEF SessionInv, Sound, Ended, Reason, FailsForItsOwnRequest
<1>2. SessionInv /\ [Next]_vars => [OutcomeIsFinal]_vars
  BY EndIsFinal DEF OutcomeIsFinal
<1> QED
  BY <1>1, <1>2, SessionInvariant, PTL DEF Spec, SettledByItsOwnRequest

\* A score is the first answer to tools/call.
THEOREM FirstAnswerScores == Spec => []ScoreIsFirstAnswer
<1>1. SessionInv => ScoreIsFirstAnswer
  BY DEF SessionInv, Sound, Ended, ScoreIsFirstAnswer
<1> QED
  BY <1>1, SessionInvariant, PTL
==============================================================================
