--------------------------- MODULE AgentLoop_proofs ---------------------------
(***************************************************************************)
(* For any number of messages and steps: the brackets of the log are       *)
(* closed between drivers, a wake is latched only where an activity to come*)
(* will honour it, every message is at one place, and follow-ups get turns *)
(* of their own in the order they were sent.                               *)
(***************************************************************************)
EXTENDS AgentLoop, SequenceTheorems, TLAPS

\* The turn is open while the driver is between its boundaries, the step while
\* it runs.
OpenTellsStage ==
  /\ open = "nothing" <=> at \in {"none", "opening", "closing", "leaving"}
  /\ open = "step" <=> at = "stepping"

\* Only a proposed step holds a batch.
BatchTellsStage == at \notin {"preparing", "prepared"} => local.claimed = <<>>

\* A batch repeats nothing and is not in the log; while nobody aborted the turn
\* nobody took it back either.
BatchIsFresh ==
  /\ Distinct(local.claimed)
  /\ Elements(local.claimed) \cap Entered = {}
  /\ ~aborted => Elements(local.claimed) \cap gone = {}

LoopInv == TypeOK /\ OpenTellsStage /\ LatchHasAReason /\ BatchTellsStage
AccountInv == LoopInv /\ EveryMessageAccounted /\ BatchIsFresh

IsFollowup(m) == queued[m] = "next-turn"
Ascends(s) == \A i, j \in 1..Len(s) : i < j => s[i] < s[j]

\* The two lists: input for a step is no follow-up, and the follow-ups are in
\* the order they were sent.
ListsInOrder ==
  /\ \A m \in Elements(inbox["next-step"]) : ~IsFollowup(m)
  /\ Ascends(inbox["next-turn"])

\* A batch brings one follow-up at most, at its end, to the first step of a turn,
\* and that one was queued before those still pending.
BatchInOrder ==
  \A i \in 1..Len(local.claimed) :
    IsFollowup(local.claimed[i]) =>
      /\ i = Len(local.claimed) /\ local.step = 0
      /\ \A m \in Elements(inbox["next-turn"]) : local.claimed[i] < m

\* The follow-ups in the log were sent before the pending and the claimed ones.
LogInOrder ==
  \A k \in 1..Len(entered) :
    /\ entered[k].turn <= turn
    /\ IsFollowup(entered[k].message) =>
         /\ \A m \in Elements(inbox["next-turn"]) : entered[k].message < m
         /\ \A m \in Elements(local.claimed) : IsFollowup(m) => entered[k].message < m

\* Nothing has entered an open turn before its first step.
TurnIsFresh ==
  open # "nothing" /\ local.step = 0 => \A k \in 1..Len(entered) : entered[k].turn < turn

OrderInv ==
  /\ AccountInv /\ ListsInOrder /\ BatchInOrder /\ LogInOrder /\ TurnIsFresh
  /\ FollowupsOwnTheirTurns

------------------------------------------------------------------------------
\* The sequences the inbox is made of.
LEMMA AppendElements ==
  ASSUME NEW s \in Seq(Messages), NEW m \in Messages
  PROVE  /\ Append(s, m) \in Seq(Messages)
         /\ Elements(Append(s, m)) = Elements(s) \cup {m}
         /\ Distinct(s) /\ m \notin Elements(s) => Distinct(Append(s, m))
<1> DEFINE r == Append(s, m)
<1>1. /\ r \in Seq(Messages) /\ Len(r) = Len(s) + 1 /\ r[Len(s) + 1] = m
      /\ \A i \in 1..Len(s) : r[i] = s[i]
  OBVIOUS
<1>2. 1..Len(r) = 1..Len(s) \cup {Len(s) + 1}
  BY <1>1
<1> HIDE DEF r
<1>3. Elements(r) = Elements(s) \cup {m}
  BY <1>1, <1>2 DEF Elements
<1>4. ASSUME Distinct(s), m \notin Elements(s) PROVE Distinct(r)
  BY <1>1, <1>2, <1>4 DEF Distinct, Elements
<1> QED
  BY <1>1, <1>3, <1>4 DEF r

LEMMA ConcatElements ==
  ASSUME NEW s \in Seq(Messages), NEW t \in Seq(Messages)
  PROVE  /\ s \o t \in Seq(Messages)
         /\ Elements(s \o t) = Elements(s) \cup Elements(t)
         /\ Distinct(s) /\ Distinct(t) /\ Elements(s) \cap Elements(t) = {} => Distinct(s \o t)
<1> SUFFICES ASSUME NEW r, r = s \o t
             PROVE  /\ r \in Seq(Messages)
                    /\ Elements(r) = Elements(s) \cup Elements(t)
                    /\ Distinct(s) /\ Distinct(t) /\ Elements(s) \cap Elements(t) = {}
                         => Distinct(r)
  OBVIOUS
<1>1. /\ r \in Seq(Messages) /\ Len(r) = Len(s) + Len(t)
      /\ Len(s) \in Nat /\ Len(t) \in Nat
      /\ \A i \in 1..Len(r) : r[i] = IF i <= Len(s) THEN s[i] ELSE t[i - Len(s)]
  BY ConcatProperties
<1>2. \A i \in 1..Len(r) : \/ i \in 1..Len(s) /\ r[i] = s[i]
                           \/ i - Len(s) \in 1..Len(t) /\ r[i] = t[i - Len(s)]
  BY <1>1
<1>3. \A i \in 1..Len(s) : i \in 1..Len(r) /\ r[i] = s[i]
  BY <1>1
<1>4. \A i \in 1..Len(t) : Len(s) + i \in 1..Len(r) /\ r[Len(s) + i] = t[i]
  BY <1>1
<1>5. Elements(r) = Elements(s) \cup Elements(t)
  BY <1>2, <1>3, <1>4 DEF Elements
<1>6. ASSUME Distinct(s), Distinct(t), Elements(s) \cap Elements(t) = {} PROVE Distinct(r)
  <2> SUFFICES ASSUME NEW i \in 1..Len(r), NEW j \in 1..Len(r), i # j, r[i] = r[j] PROVE FALSE
    BY DEF Distinct
  <2>1. CASE i \in 1..Len(s) /\ r[i] = s[i] /\ j \in 1..Len(s) /\ r[j] = s[j]
    BY <1>6, <2>1 DEF Distinct
  <2>2. CASE /\ i - Len(s) \in 1..Len(t) /\ r[i] = t[i - Len(s)]
             /\ j - Len(s) \in 1..Len(t) /\ r[j] = t[j - Len(s)]
    <3>1. i - Len(s) # j - Len(s)
      BY <1>1
    <3> QED
      BY <1>6, <2>2, <3>1 DEF Distinct
  <2>3. CASE \/ /\ i \in 1..Len(s) /\ r[i] = s[i]
                /\ j - Len(s) \in 1..Len(t) /\ r[j] = t[j - Len(s)]
             \/ /\ j \in 1..Len(s) /\ r[j] = s[j]
                /\ i - Len(s) \in 1..Len(t) /\ r[i] = t[i - Len(s)]
    <3>1. r[i] \in Elements(s) \cap Elements(t)
      BY <2>3 DEF Elements
    <3> QED
      BY <1>6, <3>1
  <2> QED
    BY <1>2, <2>1, <2>2, <2>3
<1> QED
  BY <1>1, <1>5, <1>6

\* A list is what its first n members and the others are.
LEMMA SplitElements ==
  ASSUME NEW s \in Seq(Messages), NEW n \in 0..Len(s)
  PROVE  LET low == SubSeq(s, 1, n)
             high == SubSeq(s, n + 1, Len(s))
         IN  /\ low \in Seq(Messages) /\ high \in Seq(Messages)
             /\ Elements(s) = Elements(low) \cup Elements(high)
             /\ Distinct(s) => /\ Distinct(low) /\ Distinct(high)
                               /\ Elements(low) \cap Elements(high) = {}
<1> SUFFICES ASSUME NEW low, NEW high, low = SubSeq(s, 1, n), high = SubSeq(s, n + 1, Len(s))
             PROVE  /\ low \in Seq(Messages) /\ high \in Seq(Messages)
                    /\ Elements(s) = Elements(low) \cup Elements(high)
                    /\ Distinct(s) => /\ Distinct(low) /\ Distinct(high)
                                      /\ Elements(low) \cap Elements(high) = {}
  BY Zenon
<1>1. /\ low \in Seq(Messages) /\ Len(low) = n /\ n \in Nat
      /\ \A i \in 1..n : low[i] = s[i]
  OBVIOUS
<1>2. /\ high \in Seq(Messages) /\ Len(high) = Len(s) - n
      /\ \A i \in 1..(Len(s) - n) : high[i] = s[n + i]
  OBVIOUS
<1>3. \A i \in 1..Len(s) : \/ i \in 1..Len(low) /\ s[i] = low[i]
                           \/ i - n \in 1..Len(high) /\ s[i] = high[i - n]
  BY <1>1, <1>2
<1>4. \A i \in 1..Len(low) : i \in 1..Len(s) /\ i <= n /\ low[i] = s[i]
  BY <1>1
<1>5. \A i \in 1..Len(high) : n + i \in 1..Len(s) /\ n + i > n /\ high[i] = s[n + i]
  <2>1. \A i \in 1..(Len(s) - n) : n + i \in 1..Len(s) /\ n + i > n
    BY <1>1
  <2> QED
    BY <1>2, <2>1
<1>6. Elements(s) = Elements(low) \cup Elements(high)
  <2>1. \A i \in 1..Len(s) : s[i] \in Elements(low) \cup Elements(high)
    BY <1>3 DEF Elements
  <2>2. \A i \in 1..Len(low) : low[i] \in Elements(s)
    BY <1>4 DEF Elements
  <2>3. \A i \in 1..Len(high) : high[i] \in Elements(s)
    BY <1>5 DEF Elements
  <2>4. Elements(s) \subseteq Elements(low) \cup Elements(high)
    BY <2>1 DEF Elements
  <2>5. Elements(low) \subseteq Elements(s)
    BY <2>2 DEF Elements
  <2>6. Elements(high) \subseteq Elements(s)
    BY <2>3 DEF Elements
  <2> QED
    BY <2>4, <2>5, <2>6
<1>7. ASSUME Distinct(s)
      PROVE  Distinct(low) /\ Distinct(high) /\ Elements(low) \cap Elements(high) = {}
  <2>1. Distinct(low)
    BY <1>4, <1>7 DEF Distinct
  <2>2. Distinct(high)
    <3> SUFFICES ASSUME NEW a \in 1..Len(high), NEW b \in 1..Len(high), a # b
                 PROVE  high[a] # high[b]
      BY DEF Distinct
    <3>1. /\ n + a \in 1..Len(s) /\ high[a] = s[n + a] /\ n + b \in 1..Len(s)
          /\ high[b] = s[n + b]
      BY <1>5
    <3>2. n + a # n + b
      BY <1>1, <1>2
    <3> QED
      BY <1>7, <3>1, <3>2 DEF Distinct
  <2>3. ASSUME NEW i \in 1..Len(low), NEW j \in 1..Len(high), low[i] = high[j] PROVE FALSE
    <3>1. i \in 1..Len(s) /\ i <= n /\ low[i] = s[i]
      BY <1>4
    <3>2. n + j \in 1..Len(s) /\ n + j > n /\ high[j] = s[n + j]
      BY <1>5
    <3>3. i # n + j
      BY <1>1, <3>1, <3>2
    <3> QED
      BY <1>7, <2>3, <3>1, <3>2, <3>3 DEF Distinct
  <2>4. \A k \in 1..Len(low) : low[k] \notin Elements(high)
    BY <2>3 DEF Elements
  <2>5. Elements(low) \cap Elements(high) = {}
    BY <2>4 DEF Elements
  <2> QED
    BY <2>1, <2>2, <2>5
<1> QED
  BY <1>1, <1>2, <1>6, <1>7

\* Taking out the member at i leaves the others.
LEMMA RemoveElement ==
  ASSUME NEW s \in Seq(Messages), NEW i \in 1..Len(s), Distinct(s)
  PROVE  LET r == SubSeq(s, 1, i - 1) \o SubSeq(s, i + 1, Len(s))
         IN  r \in Seq(Messages) /\ Elements(r) = Elements(s) \ {s[i]} /\ Distinct(r)
<1> SUFFICES ASSUME NEW low, NEW high,
                    low = SubSeq(s, 1, i - 1), high = SubSeq(s, i + 1, Len(s))
             PROVE  /\ low \o high \in Seq(Messages)
                    /\ Elements(low \o high) = Elements(s) \ {s[i]}
                    /\ Distinct(low \o high)
  BY Zenon
<1>1. /\ low \in Seq(Messages) /\ Len(low) = i - 1
      /\ \A k \in 1..(i - 1) : low[k] = s[k]
  OBVIOUS
<1>2. /\ high \in Seq(Messages) /\ Len(high) = Len(s) - i
      /\ \A k \in 1..(Len(s) - i) : high[k] = s[i + k]
  OBVIOUS
<1>3. \A k \in 1..Len(s) : \/ k \in 1..Len(low) /\ s[k] = low[k]
                           \/ k = i
                           \/ k - i \in 1..Len(high) /\ s[k] = high[k - i]
  BY <1>1, <1>2
<1>4. \A k \in 1..Len(low) : k \in 1..Len(s) /\ k < i /\ low[k] = s[k]
  BY <1>1
<1>5. \A k \in 1..Len(high) : i + k \in 1..Len(s) /\ i + k > i /\ high[k] = s[i + k]
  <2>1. \A k \in 1..(Len(s) - i) : i + k \in 1..Len(s) /\ i + k > i
    OBVIOUS
  <2> QED
    BY <1>2, <2>1
<1>6. Elements(low) \cup Elements(high) = Elements(s) \ {s[i]}
  <2>1. \A k \in 1..Len(low) : low[k] # s[i]
    BY <1>4 DEF Distinct
  <2>2. \A k \in 1..Len(high) : high[k] # s[i]
    BY <1>5 DEF Distinct
  <2>3. \A k \in 1..Len(s) : s[k] \in Elements(low) \cup Elements(high) \cup {s[i]}
    BY <1>3 DEF Elements
  <2>4. \A k \in 1..Len(low) : low[k] \in Elements(s) \ {s[i]}
    BY <1>4, <2>1 DEF Elements
  <2>5. \A k \in 1..Len(high) : high[k] \in Elements(s) \ {s[i]}
    BY <1>5, <2>2 DEF Elements
  <2>6. Elements(s) \ {s[i]} \subseteq Elements(low) \cup Elements(high)
    BY <2>3 DEF Elements
  <2>7. Elements(low) \subseteq Elements(s) \ {s[i]}
    BY <2>4 DEF Elements
  <2>8. Elements(high) \subseteq Elements(s) \ {s[i]}
    BY <2>5 DEF Elements
  <2> QED
    BY <2>6, <2>7, <2>8
<1>7. Distinct(low) /\ Distinct(high) /\ Elements(low) \cap Elements(high) = {}
  <2>1. Distinct(low)
    <3> SUFFICES ASSUME NEW a \in 1..Len(low), NEW b \in 1..Len(low), a # b
                 PROVE  low[a] # low[b]
      BY DEF Distinct
    <3> QED
      BY <1>4 DEF Distinct
  <2>2. Distinct(high)
    <3> SUFFICES ASSUME NEW a \in 1..Len(high), NEW b \in 1..Len(high), a # b
                 PROVE  high[a] # high[b]
      BY DEF Distinct
    <3>1. /\ i + a \in 1..Len(s) /\ high[a] = s[i + a] /\ i + b \in 1..Len(s)
          /\ high[b] = s[i + b]
      BY <1>5
    <3>2. i + a # i + b
      BY <1>2
    <3> QED
      BY <3>1, <3>2 DEF Distinct
  <2>3. ASSUME NEW k \in 1..Len(low), NEW j \in 1..Len(high), low[k] = high[j] PROVE FALSE
    <3>1. k \in 1..Len(s) /\ k < i /\ low[k] = s[k]
      BY <1>4
    <3>2. i + j \in 1..Len(s) /\ i + j > i /\ high[j] = s[i + j]
      BY <1>5
    <3>3. k # i + j
      BY <3>1, <3>2
    <3> QED
      BY <2>3, <3>1, <3>2, <3>3 DEF Distinct
  <2>4. \A k \in 1..Len(low) : low[k] \notin Elements(high)
    BY <2>3 DEF Elements
  <2>5. Elements(low) \cap Elements(high) = {}
    BY <2>4 DEF Elements
  <2> QED
    BY <2>1, <2>2, <2>5
<1> QED
  BY <1>1, <1>2, <1>6, <1>7, ConcatElements

------------------------------------------------------------------------------
PhaseType == [kind : {"idle", "maintenance", "running"},
              signal : {"live", "user", "disposed"}, wakeRequested : BOOLEAN]

\* A new turn, and a phase that begins, are typed.
LEMMA NewTyped ==
  /\ NewTurn \in Local
  /\ \A kind \in {"idle", "maintenance", "running"} : Activity(kind) \in PhaseType
  BY DEF NewTurn, Local, Activity, PhaseType

LEMMA LoopInit == Init => LoopInv
<1> SUFFICES ASSUME Init PROVE LoopInv
  OBVIOUS
<1>1. phase = Activity("idle") /\ phase \in PhaseType /\ local \in Local
  BY NewTyped DEF Init
<1>2. inbox \in [Targets -> Seq(Messages)] /\ queued \in Seq(Targets) /\ Len(queued) <= MaxMessages
  BY BoundsAssumption DEF Init
<1>3. entered \in Seq([message : Messages, turn : Nat])
  BY DEF Init
<1>4. TypeOK
  <2>1. phase.kind = "idle"
    BY <1>1 DEF Activity
  <2>2. at = "none" /\ turn = 0 /\ open = "nothing" /\ gone = {} /\ ~replay /\ ~disposing
        /\ replay \in BOOLEAN /\ disposing \in BOOLEAN
    BY DEF Init
  <2> QED
    BY <1>1, <1>2, <1>3, <2>1, <2>2 DEF TypeOK, PhaseType, Stages
<1> QED
  BY <1>1, <1>4
     DEF Init, LoopInv, OpenTellsStage, LatchHasAReason, BatchTellsStage, Activity, NewTurn

\* Waking the driver starts one or latches the wake where it will be honoured.
LEMMA WakeKeepsLoop ==
  ASSUME LoopInv, NEW afterAbort \in BOOLEAN, afterAbort => aborted, WakeDriver(afterAbort),
         UNCHANGED <<turn, open, entered, disposing>>
  PROVE  /\ phase' \in PhaseType /\ local' \in Local /\ at' \in Stages
         /\ at' = "none" <=> phase'.kind # "running"
         /\ OpenTellsStage' /\ LatchHasAReason' /\ BatchTellsStage'
<1>1. CASE phase.kind = "idle"
  <2>1. /\ phase' = Activity("running") /\ at' = "opening" /\ local' = NewTurn
        /\ open' = open /\ at = "none"
    BY <1>1 DEF WakeDriver, LoopInv, TypeOK
  <2> QED
    BY <2>1, NewTyped DEF LoopInv, OpenTellsStage, LatchHasAReason, BatchTellsStage,
                          Activity, NewTurn, Stages
<1>2. CASE phase.kind # "idle"
  <2>1. /\ UNCHANGED <<at, local, open>> /\ phase \in PhaseType
        /\ at \in Stages /\ local \in Local
        /\ at = "none" <=> phase.kind # "running"
    BY <1>2 DEF WakeDriver, LoopInv, TypeOK, PhaseType
  <2>2. /\ phase' \in PhaseType /\ phase'.kind = phase.kind /\ phase'.signal = phase.signal
        /\ phase'.wakeRequested =>
             \/ phase.wakeRequested
             \/ /\ phase.signal # "disposed"
                /\ phase.kind = "maintenance" \/ (afterAbort /\ aborted)
    BY <1>2, <2>1 DEF WakeDriver, PhaseType
  <2>3. LatchHasAReason'
    BY <1>2, <2>1, <2>2 DEF LoopInv, LatchHasAReason, aborted, PhaseType
  <2> QED
    BY <2>1, <2>2, <2>3 DEF LoopInv, OpenTellsStage, BatchTellsStage
<1> QED
  BY <1>1, <1>2

\* A message put in is one more of the list it goes to.
LEMMA PutTyped ==
  ASSUME TypeOK, NEW target \in Targets, Put(target)
  PROVE  /\ queued' \in Seq(Targets) /\ Len(queued') = Len(queued) + 1
         /\ Len(queued') <= MaxMessages
         /\ Len(queued) + 1 \in Messages
         /\ inbox' \in [Targets -> Seq(Messages)]
         /\ inbox'[target] = Append(inbox[target], Len(queued) + 1)
         /\ \A t \in Targets : t # target => inbox'[t] = inbox[t]
<1>1. Len(queued) + 1 \in Messages
  BY BoundsAssumption DEF TypeOK, Put, Messages
<1>2. queued' \in Seq(Targets) /\ Len(queued') = Len(queued) + 1 /\ Len(queued') <= MaxMessages
  BY BoundsAssumption DEF TypeOK, Put
<1>3. /\ inbox'[target] = Append(inbox[target], Len(queued) + 1)
      /\ \A t \in Targets : t # target => inbox'[t] = inbox[t]
      /\ DOMAIN inbox' = Targets
      /\ inbox' = [inbox EXCEPT ![target] = Append(@, Len(queued) + 1)]
  BY DEF TypeOK, Put
<1>4. Append(inbox[target], Len(queued) + 1) \in Seq(Messages)
  BY <1>1 DEF TypeOK
<1>5. inbox' \in [Targets -> Seq(Messages)]
  BY <1>3, <1>4 DEF TypeOK
<1> QED
  BY <1>1, <1>2, <1>3, <1>5

LEMMA SendKeepsLoop ==
  ASSUME LoopInv, NEW target \in Targets, NEW wakeup \in BOOLEAN, Send(target, wakeup)
  PROVE  LoopInv'
<1> DEFINE after == wakeup /\ aborted
           list == IF after THEN "next-turn" ELSE target
<1>1. list \in Targets /\ Put(list) /\ UNCHANGED <<gone, replay, turn, open, entered, disposing>>
  BY DEF Send, Targets
<1>2. CASE wakeup
  <2>1. WakeDriver(after) /\ after \in BOOLEAN /\ (after => aborted)
    BY <1>2 DEF Send, aborted
  <2>2. /\ phase' \in PhaseType /\ local' \in Local /\ at' \in Stages
        /\ at' = "none" <=> phase'.kind # "running"
        /\ OpenTellsStage' /\ LatchHasAReason' /\ BatchTellsStage'
    BY <1>1, <2>1, WakeKeepsLoop
  <2>3. TypeOK'
    BY <1>1, <2>2, PutTyped DEF LoopInv, TypeOK, PhaseType
  <2> QED
    BY <2>2, <2>3 DEF LoopInv
<1>3. CASE ~wakeup
  <2>1. UNCHANGED <<phase, at, local>>
    BY <1>3 DEF Send
  <2>2. TypeOK'
    BY <1>1, <2>1, PutTyped DEF LoopInv, TypeOK
  <2> QED
    BY <1>1, <2>1, <2>2 DEF LoopInv, OpenTellsStage, LatchHasAReason, BatchTellsStage
<1> QED
  BY <1>2, <1>3

\* Taking messages back, cancelling and maintenance.
LEMMA OthersKeepLoop ==
  ASSUME LoopInv,
         \/ \E target \in Targets : \E i \in DOMAIN inbox[target] : Remove(target, i)
         \/ \E cause \in {"user", "disposed"}, keepInbox \in BOOLEAN :
              /\ Cancelled(cause, keepInbox) /\ disposing' \in BOOLEAN
              /\ cause = "disposed" => ~keepInbox
         \/ RunMaintenance \/ MaintenanceEnds
  PROVE  LoopInv'
<1>1. ASSUME NEW target \in Targets, NEW i \in DOMAIN inbox[target], Remove(target, i)
      PROVE  LoopInv'
  <2> DEFINE list == inbox[target]
             rest == SubSeq(list, 1, i - 1) \o SubSeq(list, i + 1, Len(list))
  <2>1. list \in Seq(Messages) /\ i \in 1..Len(list)
    BY DEF LoopInv, TypeOK
  <2>2. rest \in Seq(Messages) /\ list[i] \in Messages
    BY <2>1
  <2>3. inbox' = [inbox EXCEPT ![target] = rest] /\ gone' = gone \cup {list[i]}
    BY <1>1 DEF Remove
  <2> HIDE DEF rest
  <2>4. TypeOK'
    BY <1>1, <2>2, <2>3 DEF Remove, LoopInv, TypeOK
  <2> QED
    BY <1>1, <2>4 DEF Remove, LoopInv, OpenTellsStage, LatchHasAReason, BatchTellsStage
<1>2. ASSUME NEW cause \in {"user", "disposed"}, NEW keepInbox \in BOOLEAN,
             Cancelled(cause, keepInbox), disposing' \in BOOLEAN,
             cause = "disposed" => ~keepInbox
      PROVE  LoopInv'
  <2>1. UNCHANGED <<queued, replay, at, turn, local, open, entered>>
    BY <1>2 DEF Cancelled
  <2>2. /\ phase' \in PhaseType /\ phase'.kind = phase.kind
        /\ phase.kind # "idle" => phase'.signal = IF phase.signal = "live" THEN cause ELSE phase.signal
        /\ phase'.wakeRequested => phase.wakeRequested /\ (keepInbox \/ phase.kind = "idle")
    BY <1>2 DEF Cancelled, LoopInv, TypeOK, PhaseType
  <2>3. inbox' \in [Targets -> Seq(Messages)] /\ gone' \subseteq Messages
    <3>1. Pending \subseteq Messages /\ Elements(local.claimed) \subseteq Messages
      BY DEF LoopInv, TypeOK, Pending, Elements, Targets, Local
    <3>2. gone' \subseteq Messages
      BY <1>2, <3>1 DEF Cancelled, LoopInv, TypeOK
    <3>3. [t \in Targets |-> <<>>] \in [Targets -> Seq(Messages)]
      OBVIOUS
    <3>4. inbox' = inbox \/ inbox' = [t \in Targets |-> <<>>]
      BY <1>2 DEF Cancelled
    <3> QED
      BY <3>2, <3>3, <3>4 DEF LoopInv, TypeOK
  <2>4. LatchHasAReason'
    BY <1>2, <2>2 DEF LoopInv, LatchHasAReason, TypeOK
  <2>5. TypeOK'
    BY <1>2, <2>1, <2>2, <2>3 DEF LoopInv, TypeOK, PhaseType
  <2> QED
    BY <2>1, <2>4, <2>5 DEF LoopInv, OpenTellsStage, BatchTellsStage
<1>3. CASE RunMaintenance
  <2>1. /\ phase' = Activity("maintenance") /\ phase.kind = "idle" /\ phase' \in PhaseType
        /\ UNCHANGED <<queued, inbox, gone, replay, at, turn, local, open, entered, disposing>>
    BY <1>3, NewTyped DEF RunMaintenance
  <2>2. TypeOK'
    BY <2>1 DEF LoopInv, TypeOK, Activity, PhaseType
  <2> QED
    BY <2>1, <2>2
       DEF LoopInv, OpenTellsStage, LatchHasAReason, BatchTellsStage, Activity
<1>4. CASE MaintenanceEnds
  <2>1. /\ phase.kind = "maintenance" /\ at = "none"
        /\ UNCHANGED <<queued, inbox, gone, replay, turn, open, entered, disposing>>
        /\ \/ phase' = Activity("running") /\ at' = "opening" /\ local' = NewTurn
           \/ phase' = Activity("idle") /\ UNCHANGED <<at, local>>
    BY <1>4 DEF MaintenanceEnds, LoopInv, TypeOK
  <2>2. /\ phase' \in PhaseType /\ local' \in Local /\ ~phase'.wakeRequested
        /\ at' \in {"none", "opening"} /\ (at' = "none" <=> phase'.kind # "running")
        /\ local'.claimed = <<>>
    <3>1. CASE phase' = Activity("running") /\ at' = "opening" /\ local' = NewTurn
      BY <3>1, NewTyped DEF Activity, NewTurn
    <3>2. CASE phase' = Activity("idle") /\ UNCHANGED <<at, local>>
      BY <2>1, <3>2, NewTyped DEF Activity, LoopInv, TypeOK, BatchTellsStage
    <3> QED
      BY <2>1, <3>1, <3>2
  <2>3. TypeOK'
    BY <2>1, <2>2 DEF LoopInv, TypeOK, PhaseType, Stages
  <2> QED
    BY <2>1, <2>2, <2>3 DEF LoopInv, OpenTellsStage, LatchHasAReason, BatchTellsStage
<1> QED
  BY <1>1, <1>2, <1>3, <1>4

\* Closing a turn leaves no batch, and no bracket open.
LEMMA CloseKeepsLoop ==
  ASSUME LoopInv, NEW next \in {"look", "stop"}, CloseTurn(next), at # "none",
         inbox' = inbox, entered' = entered,
         UNCHANGED <<queued, phase, replay, turn, disposing>>
  PROVE  LoopInv'
<1>1. at' = "closing" /\ open' = "nothing" /\ gone' = gone \cup Elements(local.claimed)
  BY DEF CloseTurn
<1>2. local' \in Local /\ local'.claimed = <<>>
  <2>1. local \in Local /\ local' = [local EXCEPT !.claimed = <<>>, !.next = next]
    BY DEF CloseTurn, LoopInv, TypeOK
  <2>2. <<>> \in Seq(Messages)
    OBVIOUS
  <2> QED
    BY <2>1, <2>2 DEF Local
<1>3. gone' \subseteq Messages
  BY <1>1 DEF LoopInv, TypeOK, Local, Elements
<1>4. TypeOK'
  BY <1>1, <1>2, <1>3 DEF LoopInv, TypeOK, Stages
<1> QED
  BY <1>1, <1>2, <1>4 DEF LoopInv, OpenTellsStage, LatchHasAReason, BatchTellsStage

\* A step that moves the driver on and may change its variables.
LEMMA MoveKeepsLoop ==
  ASSUME LoopInv, phase.kind = "running", phase' = phase,
         inbox' \in [Targets -> Seq(Messages)], gone' \subseteq Messages,
         UNCHANGED <<queued, replay, disposing>>, turn' \in Nat,
         entered' \in Seq([message : Messages, turn : Nat]),
         local' \in Local, BatchTellsStage', OpenTellsStage',
         at' \in Stages \ {"none"}, open' \in {"nothing", "turn", "step"}
  PROVE  LoopInv'
<1>1. TypeOK'
  BY DEF LoopInv, TypeOK
<1> QED
  BY <1>1 DEF LoopInv, LatchHasAReason

\* What the proposed step claims, and what the others keep.
LEMMA ClaimTyped ==
  ASSUME TypeOK, Claim
  PROVE  \E n \in {0, 1} :
           /\ n <= Len(inbox["next-turn"])
           /\ inbox'["next-step"] = <<>>
           /\ inbox'["next-turn"] = SubSeq(inbox["next-turn"], n + 1, Len(inbox["next-turn"]))
           /\ local' = [local EXCEPT !.claimed =
                          inbox["next-step"] \o SubSeq(inbox["next-turn"], 1, n)]
           /\ inbox' \in [Targets -> Seq(Messages)]
           /\ local'.claimed \in Seq(Messages) /\ local' \in Local
           /\ local'.claimed = inbox["next-step"] \o SubSeq(inbox["next-turn"], 1, n)
<1> DEFINE queue == inbox["next-turn"]
           n == IF local.step > 0 \/ queue = <<>> THEN 0 ELSE 1
<1>1. queue \in Seq(Messages) /\ inbox["next-step"] \in Seq(Messages)
  BY DEF TypeOK, Targets
<1>2. n \in 0..Len(queue) /\ n \in {0, 1} /\ n <= Len(queue)
  BY <1>1
<1>3. SubSeq(queue, 1, n) \in Seq(Messages) /\ SubSeq(queue, n + 1, Len(queue)) \in Seq(Messages)
  BY <1>1, <1>2, SplitElements
<1>4. inbox["next-step"] \o SubSeq(queue, 1, n) \in Seq(Messages)
  BY <1>1, <1>3, ConcatElements
<1>5. /\ inbox' = [t \in Targets |-> IF t = "next-step" THEN <<>>
                                     ELSE SubSeq(inbox[t], n + 1, Len(inbox[t]))]
      /\ local' = [local EXCEPT !.claimed = inbox["next-step"] \o SubSeq(queue, 1, n)]
  BY DEF Claim
<1> HIDE DEF n
<1>6. inbox'["next-step"] = <<>> /\ inbox'["next-turn"] = SubSeq(queue, n + 1, Len(queue))
  BY <1>5 DEF Targets
<1>7. inbox' \in [Targets -> Seq(Messages)]
  BY <1>3, <1>5 DEF Targets
<1>8. local' \in Local /\ local'.claimed = inbox["next-step"] \o SubSeq(queue, 1, n)
  BY <1>4, <1>5 DEF TypeOK, Local
<1> QED
  BY <1>2, <1>4, <1>5, <1>6, <1>7, <1>8

\* The messages of a part of the log.
LEMMA MessagesTyped ==
  ASSUME NEW e \in Seq([message : Messages, turn : Nat])
  PROVE  LET m == [i \in 1..Len(e) |-> e[i].message]
         IN  /\ m \in Seq(Messages) /\ Len(m) = Len(e)
             /\ \A i \in 1..Len(e) : m[i] = e[i].message
<1> DEFINE m == [i \in 1..Len(e) |-> e[i].message]
<1>1. \A i \in 1..Len(e) : m[i] = e[i].message /\ m[i] \in Messages
  <2>1. \A i \in 1..Len(e) : e[i] \in [message : Messages, turn : Nat]
    BY ElementOfSeq
  <2>2. \A i \in 1..Len(e) : e[i].message \in Messages
    BY <2>1
  <2> QED
    BY <2>2
<1>2. m \in [1..Len(e) -> Messages] /\ Len(e) \in Nat
  BY <1>1
<1> HIDE DEF m
<1>3. m \in Seq(Messages) /\ Len(m) = Len(e)
  BY <1>2
<1> QED
  BY <1>1, <1>3 DEF m

\* A batch that enters adds its messages to the log, in the running turn.
LEMMA EnterTyped ==
  ASSUME TypeOK,
         entered' = entered \o [i \in 1..Len(local.claimed) |->
                                  [message |-> local.claimed[i], turn |-> turn]]
  PROVE  /\ entered' \in Seq([message : Messages, turn : Nat])
         /\ EnteredMessages' = EnteredMessages \o local.claimed
<1> DEFINE E == [message : Messages, turn : Nat]
           batch == [i \in 1..Len(local.claimed) |->
                       [message |-> local.claimed[i], turn |-> turn]]
<1>1. local.claimed \in Seq(Messages) /\ entered \in Seq(E) /\ turn \in Nat
  BY DEF TypeOK, Local
<1>2. /\ batch \in Seq(E) /\ Len(batch) = Len(local.claimed)
      /\ \A i \in 1..Len(local.claimed) : batch[i].message = local.claimed[i]
  <2>1. \A i \in 1..Len(local.claimed) : batch[i] \in E /\ batch[i].message = local.claimed[i]
    BY <1>1
  <2>2. batch \in [1..Len(local.claimed) -> E] /\ Len(local.claimed) \in Nat
    BY <1>1, <2>1
  <2> HIDE DEF batch, E
  <2> QED
    BY <2>1, <2>2
<1> SUFFICES ASSUME NEW b, b \in Seq(E), Len(b) = Len(local.claimed), entered' = entered \o b,
                    \A i \in 1..Len(local.claimed) : b[i].message = local.claimed[i]
             PROVE  /\ entered' \in Seq(E)
                    /\ EnteredMessages' = EnteredMessages \o local.claimed
  BY <1>2
<1> HIDE DEF batch
<1>3. /\ entered' \in Seq(E) /\ Len(entered') = Len(entered) + Len(local.claimed)
      /\ \A i \in 1..Len(entered') :
           entered'[i] = IF i <= Len(entered) THEN entered[i] ELSE b[i - Len(entered)]
  BY <1>1, ConcatProperties
<1>4. /\ EnteredMessages \in Seq(Messages) /\ Len(EnteredMessages) = Len(entered)
      /\ \A i \in 1..Len(entered) : EnteredMessages[i] = entered[i].message
  BY <1>1, MessagesTyped DEF EnteredMessages
<1>5. /\ EnteredMessages \o local.claimed \in Seq(Messages)
      /\ Len(EnteredMessages \o local.claimed) = Len(entered')
      /\ \A i \in 1..Len(entered') :
           (EnteredMessages \o local.claimed)[i] =
              IF i <= Len(entered) THEN entered[i].message ELSE local.claimed[i - Len(entered)]
  <2>1. /\ EnteredMessages \o local.claimed \in Seq(Messages)
        /\ Len(EnteredMessages \o local.claimed) = Len(entered')
        /\ \A i \in 1..Len(entered') :
             (EnteredMessages \o local.claimed)[i] =
               IF i <= Len(entered) THEN EnteredMessages[i] ELSE local.claimed[i - Len(entered)]
    BY <1>1, <1>3, <1>4, ConcatProperties, SMTT(20)
  <2>2. \A i \in 1..Len(entered') : i <= Len(entered) => EnteredMessages[i] = entered[i].message
    BY <1>4
  <2> QED
    BY <2>1, <2>2
<1>6. /\ EnteredMessages' \in Seq(Messages) /\ Len(EnteredMessages') = Len(entered')
      /\ \A i \in 1..Len(entered') : EnteredMessages'[i] = entered'[i].message
  BY <1>3, MessagesTyped DEF EnteredMessages
<1>7. \A i \in 1..Len(entered') : EnteredMessages'[i] = (EnteredMessages \o local.claimed)[i]
  <2> SUFFICES ASSUME NEW i \in 1..Len(entered')
               PROVE  EnteredMessages'[i] = (EnteredMessages \o local.claimed)[i]
    OBVIOUS
  <2>1. CASE i <= Len(entered)
    BY <1>3, <1>5, <1>6, <2>1
  <2>2. CASE ~(i <= Len(entered))
    <3>1. i - Len(entered) \in 1..Len(local.claimed)
      BY <1>1, <1>3, <2>2
    <3> QED
      BY <1>3, <1>5, <1>6, <2>2, <3>1
  <2> QED
    BY <2>1, <2>2
<1>8. EnteredMessages' = EnteredMessages \o local.claimed
  <2> SUFFICES ASSUME NEW new, new = EnteredMessages', NEW both,
                      both = EnteredMessages \o local.claimed
               PROVE  new = both
    OBVIOUS
  <2>1. /\ new \in Seq(Messages) /\ both \in Seq(Messages) /\ Len(new) = Len(both)
        /\ \A i \in 1..Len(new) : new[i] = both[i]
    BY <1>5, <1>6, <1>7
  <2> QED
    BY <2>1, SeqEqual
<1> QED
  BY <1>3, <1>8

\* The driver's steps, from the opening of a turn to the end of the driver.
LEMMA DriverKeepsLoop ==
  ASSUME LoopInv, \/ OpenTurn \/ Propose \/ Prepared \/ NotPrepared \/ StartStep \/ ToolContext
                  \/ \E outcome \in {"open", "completed", "max-tokens"} : StepReturns(outcome)
                  \/ StepThrows \/ AfterStep \/ Stopped \/ NextTurn \/ KickEnds \/ Replay
  PROVE  LoopInv'
<1> USE DEF LoopInv
<1>1. CASE OpenTurn
  BY <1>1 DEF OpenTurn, Driving, TypeOK, Stages, OpenTellsStage, BatchTellsStage, LatchHasAReason
<1>2. CASE Propose
  <2>1. CASE aborted
    BY <1>2, <2>1, CloseKeepsLoop DEF Propose, Driving
  <2>2. CASE ~aborted
    <3>1. /\ Claim /\ at = "boundary" /\ at' = "preparing" /\ phase.kind = "running"
          /\ UNCHANGED <<gone, open, queued, phase, replay, turn, entered, disposing>>
      BY <1>2, <2>2 DEF Propose, Driving
    <3>2. inbox' \in [Targets -> Seq(Messages)] /\ local' \in Local
      BY <3>1, ClaimTyped
    <3>3. OpenTellsStage' /\ BatchTellsStage'
      BY <3>1 DEF OpenTellsStage, BatchTellsStage
    <3> QED
      BY <3>1, <3>2, <3>3, MoveKeepsLoop DEF TypeOK, Stages
  <2> QED
    BY <2>1, <2>2
<1>3. CASE Prepared
  <2>1. PICK keep \in BOOLEAN, extra \in BOOLEAN :
          /\ local' = [local EXCEPT !.claimed = IF keep THEN @ ELSE <<>>, !.extra = extra]
          /\ gone' = IF keep THEN gone ELSE gone \cup Elements(local.claimed)
    BY <1>3 DEF Prepared
  <2>2. local' \in Local
    <3>1. local \in Local /\ (IF keep THEN local.claimed ELSE <<>>) \in Seq(Messages)
      BY DEF TypeOK, Local
    <3> QED
      BY <2>1, <3>1 DEF Local
  <2>3. gone' \subseteq Messages
    BY <2>1 DEF TypeOK, Local, Elements
  <2>4. /\ at = "preparing" /\ at' = "prepared" /\ phase.kind = "running"
        /\ UNCHANGED <<queued, inbox, phase, replay, turn, open, entered, disposing>>
    BY <1>3 DEF Prepared, Driving
  <2>5. OpenTellsStage' /\ BatchTellsStage'
    BY <2>4 DEF OpenTellsStage, BatchTellsStage
  <2> QED
    BY <2>2, <2>3, <2>4, <2>5, MoveKeepsLoop DEF TypeOK, Stages
<1>4. CASE NotPrepared
  BY <1>4, CloseKeepsLoop DEF NotPrepared, Driving
<1>5. CASE StepThrows
  BY <1>5, CloseKeepsLoop DEF StepThrows, Driving
<1>6. CASE StartStep
  <2>1. at = "prepared" /\ phase.kind = "running" /\ UNCHANGED <<queued, inbox, phase, replay, turn, disposing>>
    BY <1>6 DEF StartStep, Driving
  <2>2. CASE /\ local' = [local EXCEPT !.step = @ + 1, !.claimed = <<>>]
             /\ at' = "stepping" /\ open' = "step" /\ gone' = gone
             /\ entered' = entered \o [i \in 1..Len(local.claimed) |->
                                         [message |-> local.claimed[i], turn |-> turn]]
    <3>1. local' \in Local /\ local'.claimed = <<>>
      <4>1. local \in Local /\ <<>> \in Seq(Messages)
        BY DEF TypeOK
      <4>2. local.step + 1 \in Nat
        BY <4>1 DEF Local
      <4>3. local' = [local EXCEPT !.step = local.step + 1, !.claimed = <<>>]
        BY <2>2
      <4> QED
        BY <4>1, <4>2, <4>3 DEF Local
    <3>2. entered' \in Seq([message : Messages, turn : Nat])
      BY <2>2, EnterTyped
    <3>3. OpenTellsStage' /\ BatchTellsStage'
      BY <2>2, <3>1 DEF OpenTellsStage, BatchTellsStage
    <3> QED
      BY <2>1, <2>2, <3>1, <3>2, <3>3, MoveKeepsLoop DEF TypeOK, Stages
  <2>3. CASE (CloseTurn("look") \/ CloseTurn("stop")) /\ entered' = entered
    BY <2>1, <2>3, CloseKeepsLoop
  <2> QED
    BY <1>6, <2>2, <2>3 DEF StartStep
<1>7. CASE ToolContext
  <2>1. /\ Put("next-step") /\ "next-step" \in Targets
        /\ UNCHANGED <<gone, phase, replay, at, turn, local, open, entered, disposing>>
    BY <1>7 DEF ToolContext, Targets
  <2>2. TypeOK'
    BY <2>1, PutTyped DEF TypeOK
  <2> QED
    BY <2>1, <2>2 DEF OpenTellsStage, BatchTellsStage, LatchHasAReason
<1>8. ASSUME NEW outcome \in {"open", "completed", "max-tokens"}, StepReturns(outcome)
      PROVE  LoopInv'
  <2>1. /\ at = "stepping" /\ at' = "stepped" /\ open' = "turn" /\ phase.kind = "running"
        /\ UNCHANGED <<queued, inbox, gone, phase, replay, turn, entered, disposing>>
        /\ local' = [local EXCEPT !.ends = IF @ = "max-tokens" THEN @ ELSE outcome,
                                  !.owed = (outcome = "open")]
    BY <1>8 DEF StepReturns, Driving
  <2>2. local' \in Local /\ local'.claimed = local.claimed
    BY <2>1 DEF TypeOK, Local
  <2>3. OpenTellsStage' /\ BatchTellsStage'
    BY <2>1, <2>2 DEF OpenTellsStage, BatchTellsStage
  <2> QED
    BY <2>1, <2>2, <2>3, MoveKeepsLoop DEF TypeOK, Stages
<1>9. CASE AfterStep \/ Stopped
  <2>1. /\ at \in {"stepped", "stopping"} /\ phase.kind = "running"
        /\ UNCHANGED <<queued, inbox, phase, replay, turn, entered, disposing>>
        /\ \/ CloseTurn("stop") \/ CloseTurn("look")
           \/ at' \in {"stopping", "boundary"} /\ UNCHANGED <<gone, local, open>>
    BY <1>9 DEF AfterStep, Stopped, Driving
  <2>2. CASE CloseTurn("stop") \/ CloseTurn("look")
    BY <2>1, <2>2, CloseKeepsLoop
  <2>3. CASE at' \in {"stopping", "boundary"} /\ UNCHANGED <<gone, local, open>>
    <3>1. OpenTellsStage' /\ BatchTellsStage'
      BY <2>1, <2>3 DEF OpenTellsStage, BatchTellsStage
    <3> QED
      BY <2>1, <2>3, <3>1, MoveKeepsLoop DEF TypeOK, Stages
  <2> QED
    BY <2>1, <2>2, <2>3
<1>10. CASE NextTurn
  <2>1. /\ at = "closing" /\ phase.kind = "running"
        /\ UNCHANGED <<queued, inbox, gone, replay, turn, open, entered, disposing>>
        /\ \/ phase' = Activity("running") /\ local' = NewTurn /\ at' = "opening"
           \/ at' = "leaving" /\ UNCHANGED <<phase, local>>
    BY <1>10 DEF NextTurn, Driving
  <2>2. CASE phase' = Activity("running") /\ local' = NewTurn /\ at' = "opening"
    <3>1. phase' \in PhaseType /\ phase'.kind = "running" /\ ~phase'.wakeRequested
      BY <2>2, NewTyped DEF Activity
    <3>2. local' \in Local /\ local'.claimed = <<>>
      BY <2>2, NewTyped DEF NewTurn
    <3> QED
      BY <2>1, <2>2, <3>1, <3>2
         DEF TypeOK, PhaseType, Stages, OpenTellsStage, BatchTellsStage, LatchHasAReason
  <2>3. CASE at' = "leaving" /\ UNCHANGED <<phase, local>>
    BY <2>1, <2>3 DEF TypeOK, Stages, OpenTellsStage, BatchTellsStage, LatchHasAReason
  <2> QED
    BY <2>1, <2>2, <2>3
<1>11. CASE KickEnds
  <2>1. /\ at = "leaving" /\ at' = "none" /\ phase' = Activity("idle")
        /\ replay' = phase.wakeRequested /\ replay' \in BOOLEAN
        /\ UNCHANGED <<queued, inbox, gone, turn, local, open, entered, disposing>>
    BY <1>11 DEF KickEnds, Driving, TypeOK
  <2>2. phase' \in PhaseType /\ phase'.kind = "idle" /\ ~phase'.wakeRequested
    BY <2>1, NewTyped DEF Activity
  <2> QED
    BY <2>1, <2>2
       DEF TypeOK, PhaseType, Stages, OpenTellsStage, BatchTellsStage, LatchHasAReason
<1>12. CASE Replay
  <2>1. /\ replay' \in BOOLEAN
        /\ UNCHANGED <<queued, inbox, gone, turn, open, entered, disposing>>
        /\ WakeDriver(FALSE) \/ UNCHANGED <<phase, at, local>>
    BY <1>12 DEF Replay
  <2>2. CASE WakeDriver(FALSE)
    <3>1. /\ phase' \in PhaseType /\ local' \in Local /\ at' \in Stages
          /\ at' = "none" <=> phase'.kind # "running"
          /\ OpenTellsStage' /\ LatchHasAReason' /\ BatchTellsStage'
      BY <2>1, <2>2, WakeKeepsLoop
    <3>2. TypeOK'
      BY <2>1, <3>1 DEF TypeOK, PhaseType
    <3> QED
      BY <3>1, <3>2
  <2>3. CASE UNCHANGED <<phase, at, local>>
    BY <2>1, <2>3 DEF TypeOK, OpenTellsStage, BatchTellsStage, LatchHasAReason
  <2> QED
    BY <2>1, <2>2, <2>3
<1> QED
  BY <1>1, <1>2, <1>3, <1>4, <1>5, <1>6, <1>7, <1>8, <1>9, <1>10, <1>11, <1>12

\* No step breaks LoopInv.
LEMMA LoopInductive == LoopInv /\ [Next]_vars => LoopInv'
<1> SUFFICES ASSUME LoopInv, [Next]_vars PROVE LoopInv'
  OBVIOUS
<1>1. CASE UNCHANGED vars
  BY <1>1 DEF vars, LoopInv, TypeOK, OpenTellsStage, LatchHasAReason, BatchTellsStage
<1>2. CASE Followup \/ Steer \/ Inject
  BY <1>2, SendKeepsLoop DEF Followup, Steer, Inject, Targets
<1>3. CASE Dispose
  BY <1>3, OthersKeepLoop DEF Dispose
<1>4. ASSUME NEW keepInbox \in BOOLEAN, Cancel(keepInbox) PROVE LoopInv'
  <2>1. Cancelled("user", keepInbox) /\ disposing' \in BOOLEAN
    BY <1>4 DEF Cancel, LoopInv, TypeOK
  <2> QED
    BY <2>1, OthersKeepLoop
<1>5. CASE \/ RunMaintenance \/ MaintenanceEnds
           \/ \E target \in Targets : \E i \in DOMAIN inbox[target] : Remove(target, i)
  BY <1>5, OthersKeepLoop
<1>6. CASE ToolContext \/ Sync \/ (Awaited /\ ~MaintenanceEnds)
  BY <1>6, DriverKeepsLoop DEF Sync, Awaited
<1> QED
  BY <1>1, <1>2, <1>3, <1>4, <1>5, <1>6 DEF Next, Awaited

LEMMA LoopInvariant == Spec => []LoopInv
  BY LoopInit, LoopInductive, PTL DEF Spec

\* Every variable keeps its type, and only a running agent has a stage.
THEOREM TypeCorrect == Spec => []TypeOK
<1>1. LoopInv => TypeOK
  BY DEF LoopInv
<1> QED
  BY <1>1, LoopInvariant, PTL

\* Whenever no driver runs, the brackets of the log are closed: no way out of a
\* turn, by an end, an abort or an exception, leaves one open.
THEOREM LogClosed == Spec => []LogClosedBetweenDrivers
<1>1. LoopInv => LogClosedBetweenDrivers
  BY DEF LoopInv, TypeOK, OpenTellsStage, LogClosedBetweenDrivers
<1> QED
  BY <1>1, LoopInvariant, PTL

\* A wake is latched only behind a user's abort or maintenance, never by a
\* driver that could still deliver it and never behind the disposal.
THEOREM LatchIsHonoured == Spec => []LatchHasAReason
<1>1. LoopInv => LatchHasAReason
  BY DEF LoopInv
<1> QED
  BY <1>1, LoopInvariant, PTL

------------------------------------------------------------------------------
\* Steps that move no message, or that give up the batch.
LEMMA AccountKept ==
  ASSUME AccountInv, LoopInv', UNCHANGED <<queued, inbox, entered>>,
         \/ /\ local'.claimed = local.claimed /\ gone' = gone
            /\ aborted /\ ~aborted' => local.claimed = <<>>
         \/ local'.claimed = <<>> /\ gone' = gone \cup Elements(local.claimed)
  PROVE  AccountInv'
<1>1. Pending' = Pending /\ Entered' = Entered /\ EnteredMessages' = EnteredMessages
  BY DEF Pending, Entered, EnteredMessages
<1>2. Elements(<<>>) = {} /\ Distinct(<<>>)
  BY DEF Elements, Distinct
<1>3. EveryMessageAccounted'
  <2>1. \/ Elements(local'.claimed) = Elements(local.claimed) /\ gone' = gone
        \/ Elements(local'.claimed) = {} /\ gone' = gone \cup Elements(local.claimed)
    BY <1>2
  <2>2. EveryMessageAccounted
    BY DEF AccountInv
  <2>3. CASE Elements(local'.claimed) = Elements(local.claimed) /\ gone' = gone
    BY <1>1, <2>2, <2>3 DEF EveryMessageAccounted
  <2>4. CASE Elements(local'.claimed) = {} /\ gone' = gone \cup Elements(local.claimed)
    <3>1. Elements(local.claimed) \cap Entered = {}
      BY DEF AccountInv, BatchIsFresh
    <3> QED
      BY <1>1, <2>2, <2>4, <3>1 DEF EveryMessageAccounted
  <2> QED
    BY <2>1, <2>3, <2>4
<1>4. BatchIsFresh'
  BY <1>1, <1>2 DEF AccountInv, BatchIsFresh
<1> QED
  BY <1>3, <1>4 DEF AccountInv

\* Waking the driver moves no message and frees no batch.
LEMMA WakeMovesNothing ==
  ASSUME LoopInv, NEW afterAbort \in BOOLEAN, WakeDriver(afterAbort)
  PROVE  local'.claimed = local.claimed /\ (aborted /\ ~aborted' => local.claimed = <<>>)
<1>1. CASE phase.kind = "idle"
  <2>1. local' = NewTurn /\ local.claimed = <<>>
    BY <1>1 DEF WakeDriver, LoopInv, TypeOK, BatchTellsStage
  <2> QED
    BY <2>1 DEF NewTurn
<1>2. CASE phase.kind # "idle"
  <2>1. local' = local /\ phase'.kind = phase.kind /\ phase'.signal = phase.signal
    BY <1>2 DEF WakeDriver, LoopInv, TypeOK
  <2> QED
    BY <2>1 DEF aborted
<1> QED
  BY <1>1, <1>2

\* A message put into the inbox is new and pending.
LEMMA PutAccounts ==
  ASSUME AccountInv, LoopInv', NEW target \in Targets, Put(target),
         UNCHANGED <<gone, entered>>, local'.claimed = local.claimed,
         aborted /\ ~aborted' => local.claimed = <<>>
  PROVE  AccountInv'
<1> DEFINE k == Len(queued) + 1
<1>1. TypeOK
  BY DEF AccountInv, LoopInv
<1>2. /\ Len(queued') = k /\ k \in Messages /\ Len(queued) \in Nat
      /\ inbox'[target] = Append(inbox[target], k)
      /\ \A t \in Targets : t # target => inbox'[t] = inbox[t]
      /\ \A t \in Targets : inbox[t] \in Seq(Messages)
  BY <1>1, PutTyped DEF TypeOK
<1>3. k \notin 1..Len(queued) /\ 1..Len(queued') = 1..Len(queued) \cup {k}
  BY <1>2
<1>4. \A t \in Targets : Elements(inbox[t]) \subseteq Pending
  BY DEF Pending, Targets
<1>5. k \notin Pending \cup Elements(local.claimed) \cup Entered \cup gone
  BY <1>3 DEF AccountInv, EveryMessageAccounted
<1> HIDE DEF k
<1>6. /\ Elements(inbox'[target]) = Elements(inbox[target]) \cup {k}
      /\ Distinct(inbox'[target])
  BY <1>2, <1>4, <1>5, AppendElements DEF AccountInv, EveryMessageAccounted
<1>7. Pending' = Pending \cup {k}
  BY <1>2, <1>6 DEF Pending, Targets
<1>8. Entered' = Entered /\ EnteredMessages' = EnteredMessages
  BY DEF Entered, EnteredMessages
<1>9. /\ Elements(inbox'["next-turn"]) \cap Elements(inbox'["next-step"]) = {}
      /\ \A t \in Targets : Distinct(inbox'[t])
  <2>1. /\ Elements(inbox["next-turn"]) \cap Elements(inbox["next-step"]) = {}
        /\ \A t \in Targets : Distinct(inbox[t]) /\ k \notin Elements(inbox[t])
    BY <1>4, <1>5 DEF AccountInv, EveryMessageAccounted
  <2>2. target \in {"next-turn", "next-step"}
    BY DEF Targets
  <2> QED
    BY <1>2, <1>6, <2>1, <2>2 DEF Targets
<1>10. EveryMessageAccounted'
  BY <1>3, <1>5, <1>7, <1>8, <1>9 DEF AccountInv, EveryMessageAccounted
<1>11. BatchIsFresh'
  BY <1>8 DEF AccountInv, BatchIsFresh, Elements, Distinct
<1> QED
  BY <1>10, <1>11 DEF AccountInv

\* A message that is taken back is gone.
LEMMA RemoveAccounts ==
  ASSUME AccountInv, LoopInv',
         NEW target \in Targets, NEW i \in DOMAIN inbox[target], Remove(target, i)
  PROVE  AccountInv'
<1>1. /\ inbox[target] \in Seq(Messages) /\ i \in 1..Len(inbox[target])
      /\ DOMAIN inbox = Targets /\ Distinct(inbox[target])
  BY DEF AccountInv, LoopInv, TypeOK, EveryMessageAccounted
<1> SUFFICES ASSUME NEW m, m = inbox[target][i], NEW rest,
                    rest = SubSeq(inbox[target], 1, i - 1)
                             \o SubSeq(inbox[target], i + 1, Len(inbox[target]))
             PROVE  AccountInv'
  OBVIOUS
<1>2. Elements(rest) = Elements(inbox[target]) \ {m} /\ Distinct(rest)
  BY <1>1, RemoveElement
<1>3. /\ inbox'[target] = rest /\ gone' = gone \cup {m}
      /\ \A t \in Targets : t # target => inbox'[t] = inbox[t]
      /\ UNCHANGED <<queued, phase, local, entered>>
  BY <1>1 DEF Remove
<1>4. m \in Elements(inbox[target])
  BY <1>1 DEF Elements
<1>5. \A t \in Targets : t # target => m \notin Elements(inbox[t])
  BY <1>4 DEF AccountInv, EveryMessageAccounted, Targets
<1>6. Pending' = Pending \ {m} /\ m \in Pending
  BY <1>2, <1>3, <1>4, <1>5 DEF Pending, Targets
<1>7. Entered' = Entered /\ EnteredMessages' = EnteredMessages
  BY <1>3 DEF Entered, EnteredMessages
<1>8. /\ Elements(inbox'["next-turn"]) \cap Elements(inbox'["next-step"]) = {}
      /\ \A t \in Targets : Distinct(inbox'[t])
  BY <1>2, <1>3 DEF AccountInv, EveryMessageAccounted, Targets
<1>9. m \notin Elements(local.claimed) \cup Entered
  BY <1>6 DEF AccountInv, EveryMessageAccounted
<1>10. EveryMessageAccounted'
  BY <1>3, <1>6, <1>7, <1>8, <1>9 DEF AccountInv, EveryMessageAccounted
<1>11. BatchIsFresh'
  BY <1>3, <1>7, <1>9 DEF AccountInv, BatchIsFresh, aborted
<1> QED
  BY <1>10, <1>11 DEF AccountInv

\* A cancel takes the batch, and what is pending unless it is to be kept.
LEMMA CancelAccounts ==
  ASSUME AccountInv, LoopInv', NEW cause \in {"user", "disposed"}, NEW keepInbox \in BOOLEAN,
         Cancelled(cause, keepInbox)
  PROVE  AccountInv'
<1>1. /\ inbox' = IF keepInbox THEN inbox ELSE [t \in Targets |-> <<>>]
      /\ gone' = gone \cup Elements(local.claimed) \cup (IF keepInbox THEN {} ELSE Pending)
      /\ UNCHANGED <<queued, local, entered>>
  BY DEF Cancelled
<1>2. Entered' = Entered /\ EnteredMessages' = EnteredMessages
  BY <1>1 DEF Entered, EnteredMessages
<1>3. Elements(<<>>) = {} /\ Distinct(<<>>)
  BY DEF Elements, Distinct
<1>4. ~keepInbox => Pending' = {}
  BY <1>1, <1>3 DEF Pending, Targets
<1>5. keepInbox => Pending' = Pending
  BY <1>1 DEF Pending
<1>6. /\ Elements(inbox'["next-turn"]) \cap Elements(inbox'["next-step"]) = {}
      /\ \A t \in Targets : Distinct(inbox'[t])
  BY <1>1, <1>3 DEF AccountInv, EveryMessageAccounted, Targets
<1>7. EveryMessageAccounted'
  <2>1. EveryMessageAccounted /\ Elements(local.claimed) \cap Entered = {}
    BY DEF AccountInv, BatchIsFresh
  <2>2. CASE keepInbox
    BY <1>1, <1>2, <1>5, <1>6, <2>1, <2>2 DEF EveryMessageAccounted
  <2>3. CASE ~keepInbox
    BY <1>1, <1>2, <1>4, <1>6, <2>1, <2>3 DEF EveryMessageAccounted
  <2> QED
    BY <2>2, <2>3
<1>8. ~aborted' => local.claimed = <<>>
  <2>1. CASE phase.kind = "idle"
    BY <2>1 DEF AccountInv, LoopInv, TypeOK, BatchTellsStage
  <2>2. CASE phase.kind # "idle"
    <3>1. phase'.kind # "idle" /\ phase'.signal # "live"
      BY <2>2 DEF Cancelled, AccountInv, LoopInv, TypeOK
    <3> QED
      BY <3>1 DEF aborted
  <2> QED
    BY <2>1, <2>2
<1>9. BatchIsFresh'
  BY <1>1, <1>2, <1>3, <1>8 DEF AccountInv, BatchIsFresh
<1> QED
  BY <1>7, <1>9 DEF AccountInv

\* What a step claims is no longer pending.
LEMMA ProposeAccounts == ASSUME AccountInv, LoopInv', Propose PROVE AccountInv'
<1>1. TypeOK /\ local.claimed = <<>> /\ Elements(<<>>) = {}
  BY DEF Propose, Driving, AccountInv, LoopInv, BatchTellsStage, Elements
<1>2. CASE aborted
  BY <1>2, AccountKept DEF Propose, CloseTurn, AccountInv, LoopInv, TypeOK, Local
<1>3. CASE ~aborted
  <2>1. Claim /\ UNCHANGED <<gone, queued, phase, entered>>
    BY <1>3 DEF Propose
  <2> SUFFICES ASSUME NEW queue, queue = inbox["next-turn"], NEW steps, steps = inbox["next-step"]
               PROVE  AccountInv'
    OBVIOUS
  <2>2. PICK n \in {0, 1} :
          /\ n <= Len(queue)
          /\ inbox'["next-step"] = <<>>
          /\ inbox'["next-turn"] = SubSeq(queue, n + 1, Len(queue))
          /\ local'.claimed = steps \o SubSeq(queue, 1, n)
    BY <1>1, <2>1, ClaimTyped
  <2> SUFFICES ASSUME NEW low, NEW high, low = SubSeq(queue, 1, n),
                      high = SubSeq(queue, n + 1, Len(queue))
               PROVE  AccountInv'
    OBVIOUS
  <2>3. queue \in Seq(Messages) /\ steps \in Seq(Messages) /\ n \in 0..Len(queue)
    BY <1>1, <2>2 DEF TypeOK, Targets
  <2>4. /\ Distinct(queue) /\ Distinct(steps) /\ Elements(queue) \cap Elements(steps) = {}
        /\ Pending = Elements(queue) \cup Elements(steps)
    BY DEF AccountInv, EveryMessageAccounted, Targets, Pending
  <2>5. /\ low \in Seq(Messages) /\ Elements(queue) = Elements(low) \cup Elements(high)
        /\ Distinct(low) /\ Distinct(high) /\ Elements(low) \cap Elements(high) = {}
    BY <2>3, <2>4, SplitElements, Zenon
  <2>6. /\ Elements(local'.claimed) = Elements(steps) \cup Elements(low)
        /\ Distinct(local'.claimed)
    <3>1. Elements(steps) \cap Elements(low) = {} /\ local'.claimed = steps \o low
      BY <2>2, <2>4, <2>5
    <3>2. /\ Elements(steps \o low) = Elements(steps) \cup Elements(low)
          /\ Distinct(steps \o low)
      BY <2>3, <2>4, <2>5, <3>1, ConcatElements
    <3> QED
      BY <3>1, <3>2
  <2>7. Pending' = Elements(high) /\ Distinct(<<>>)
    BY <1>1, <2>2 DEF Pending, Distinct
  <2>8. Entered' = Entered /\ EnteredMessages' = EnteredMessages
    BY <2>1 DEF Entered, EnteredMessages
  <2>9. /\ Elements(inbox'["next-turn"]) \cap Elements(inbox'["next-step"]) = {}
        /\ \A t \in Targets : Distinct(inbox'[t])
    BY <1>1, <2>2, <2>5, <2>7 DEF Targets
  <2>10. /\ Pending = Pending' \cup Elements(local'.claimed)
         /\ Pending' \cap Elements(local'.claimed) = {}
    BY <2>4, <2>5, <2>6, <2>7
  <2>11. /\ 1..Len(queued) = Pending \cup Entered \cup gone
         /\ (Pending \cup Entered) \cap gone = {} /\ Pending \cap Entered = {}
         /\ Distinct(EnteredMessages)
    BY <1>1 DEF AccountInv, EveryMessageAccounted
  <2>12. EveryMessageAccounted'
    BY <2>1, <2>8, <2>9, <2>10, <2>11 DEF EveryMessageAccounted
  <2>13. BatchIsFresh'
    BY <2>1, <2>6, <2>8, <2>10, <2>11 DEF BatchIsFresh
  <2> QED
    BY <2>12, <2>13 DEF AccountInv
<1> QED
  BY <1>2, <1>3

\* A batch enters the log of a turn nobody aborted, once and whole.
LEMMA StartAccounts == ASSUME AccountInv, LoopInv', StartStep PROVE AccountInv'
<1>1. UNCHANGED <<queued, inbox, phase>> /\ TypeOK
  BY DEF StartStep, AccountInv, LoopInv
<1>2. CASE (CloseTurn("look") \/ CloseTurn("stop")) /\ entered' = entered
  <2>1. local'.claimed = <<>> /\ gone' = gone \cup Elements(local.claimed)
    BY <1>1, <1>2 DEF CloseTurn, TypeOK, Local
  <2> QED
    BY <1>1, <1>2, <2>1, AccountKept
<1>3. CASE /\ ~aborted /\ local' = [local EXCEPT !.step = @ + 1, !.claimed = <<>>] /\ gone' = gone
           /\ entered' = entered \o [i \in 1..Len(local.claimed) |->
                                       [message |-> local.claimed[i], turn |-> turn]]
  <2>1. local'.claimed = <<>> /\ Elements(<<>>) = {} /\ Distinct(<<>>)
    BY <1>1, <1>3 DEF TypeOK, Local, Elements, Distinct
  <2>2. EnteredMessages' = EnteredMessages \o local.claimed
    BY <1>1, <1>3, EnterTyped
  <2>3. EnteredMessages \in Seq(Messages) /\ local.claimed \in Seq(Messages)
    BY <1>1, MessagesTyped DEF EnteredMessages, TypeOK, Local
  <2>4. /\ Distinct(local.claimed) /\ Elements(local.claimed) \cap Entered = {}
        /\ Elements(local.claimed) \cap gone = {} /\ Distinct(EnteredMessages)
    BY <1>3 DEF AccountInv, BatchIsFresh, EveryMessageAccounted
  <2>5. Entered' = Entered \cup Elements(local.claimed) /\ Distinct(EnteredMessages')
    BY <2>2, <2>3, <2>4, ConcatElements DEF Entered
  <2>6. Pending' = Pending
    BY <1>1 DEF Pending
  <2>7. EveryMessageAccounted'
    BY <1>1, <1>3, <2>1, <2>4, <2>5, <2>6 DEF AccountInv, EveryMessageAccounted
  <2>8. BatchIsFresh'
    BY <2>1 DEF BatchIsFresh
  <2> QED
    BY <2>7, <2>8 DEF AccountInv
<1> QED
  BY <1>2, <1>3 DEF StartStep

\* No step breaks AccountInv.
LEMMA AccountInductive == AccountInv /\ [Next]_vars => AccountInv'
<1> SUFFICES ASSUME AccountInv, [Next]_vars PROVE AccountInv'
  OBVIOUS
<1>1. LoopInv /\ LoopInv' /\ TypeOK
  BY LoopInductive DEF AccountInv, LoopInv
<1>2. CASE UNCHANGED vars
  BY <1>1, <1>2, AccountKept DEF vars, aborted
<1>3. ASSUME NEW target \in Targets, NEW wakeup \in BOOLEAN, Send(target, wakeup)
      PROVE  AccountInv'
  <2> DEFINE after == wakeup /\ aborted
             list == IF after THEN "next-turn" ELSE target
  <2>1. list \in Targets /\ Put(list) /\ UNCHANGED <<gone, entered>>
    BY <1>3 DEF Send, Targets
  <2>2. local'.claimed = local.claimed /\ (aborted /\ ~aborted' => local.claimed = <<>>)
    <3>1. CASE wakeup
      <4>1. WakeDriver(after) /\ after \in BOOLEAN
        BY <1>3, <3>1 DEF Send, aborted
      <4> QED
        BY <1>1, <4>1, WakeMovesNothing
    <3>2. CASE ~wakeup
      BY <1>3, <3>2 DEF Send, aborted
    <3> QED
      BY <3>1, <3>2
  <2> HIDE DEF list
  <2> QED
    BY <1>1, <2>1, <2>2, PutAccounts
<1>4. CASE Followup \/ Steer \/ Inject
  BY <1>3, <1>4 DEF Followup, Steer, Inject, Targets
<1>5. CASE ToolContext
  <2>1. "next-step" \in Targets /\ Put("next-step") /\ UNCHANGED <<gone, entered, local, phase>>
    BY <1>5 DEF ToolContext, Targets
  <2> QED
    BY <1>1, <2>1, PutAccounts DEF aborted
<1>6. CASE Dispose
  BY <1>1, <1>6, CancelAccounts DEF Dispose
<1>7. ASSUME NEW keepInbox \in BOOLEAN, Cancel(keepInbox) PROVE AccountInv'
  BY <1>1, <1>7, CancelAccounts DEF Cancel
<1>8. ASSUME NEW target \in Targets, NEW i \in DOMAIN inbox[target], Remove(target, i)
      PROVE  AccountInv'
  BY <1>1, <1>8, RemoveAccounts
<1>9. CASE Propose
  BY <1>1, <1>9, ProposeAccounts
<1>10. CASE StartStep
  BY <1>1, <1>10, StartAccounts
<1>11. CASE RunMaintenance \/ MaintenanceEnds \/ NextTurn \/ KickEnds
  <2>1. UNCHANGED <<queued, inbox, entered, gone>> /\ local.claimed = <<>>
    BY <1>1, <1>11 DEF RunMaintenance, MaintenanceEnds, NextTurn, KickEnds, Driving,
                       LoopInv, TypeOK, BatchTellsStage
  <2>2. local'.claimed = <<>>
    BY <1>11, <2>1 DEF RunMaintenance, MaintenanceEnds, NextTurn, KickEnds, NewTurn
  <2> QED
    BY <1>1, <2>1, <2>2, AccountKept
<1>12. CASE Replay
  <2>1. /\ UNCHANGED <<queued, inbox, entered, gone>>
        /\ WakeDriver(FALSE) \/ UNCHANGED <<phase, local>>
    BY <1>12 DEF Replay
  <2>2. local'.claimed = local.claimed /\ (aborted /\ ~aborted' => local.claimed = <<>>)
    BY <1>1, <2>1, WakeMovesNothing DEF aborted
  <2> QED
    BY <1>1, <2>1, <2>2, AccountKept
<1>13. CASE OpenTurn \/ \E outcome \in {"open", "completed", "max-tokens"} : StepReturns(outcome)
  <2>1. /\ UNCHANGED <<queued, inbox, entered, gone, phase>>
        /\ local'.claimed = local.claimed
    BY <1>1, <1>13 DEF OpenTurn, StepReturns, TypeOK, Local
  <2> QED
    BY <1>1, <2>1, AccountKept DEF aborted
<1>14. CASE NotPrepared \/ StepThrows \/ AfterStep \/ Stopped
  <2>1. UNCHANGED <<queued, inbox, entered, phase>>
    BY <1>14 DEF NotPrepared, StepThrows, AfterStep, Stopped
  <2>2. \/ UNCHANGED <<local, gone>>
        \/ local'.claimed = <<>> /\ gone' = gone \cup Elements(local.claimed)
    BY <1>1, <1>14 DEF NotPrepared, StepThrows, AfterStep, Stopped, CloseTurn, TypeOK, Local
  <2> QED
    BY <1>1, <2>1, <2>2, AccountKept DEF aborted
<1>15. CASE Prepared
  <2>1. PICK keep \in BOOLEAN, extra \in BOOLEAN :
          /\ local' = [local EXCEPT !.claimed = IF keep THEN @ ELSE <<>>, !.extra = extra]
          /\ gone' = IF keep THEN gone ELSE gone \cup Elements(local.claimed)
    BY <1>15 DEF Prepared
  <2>2. UNCHANGED <<queued, inbox, entered, phase>>
    BY <1>15 DEF Prepared
  <2>3. local'.claimed = IF keep THEN local.claimed ELSE <<>>
    BY <1>1, <2>1 DEF TypeOK, Local
  <2> QED
    BY <1>1, <2>1, <2>2, <2>3, AccountKept DEF aborted
<1> QED
  BY <1>2, <1>4, <1>5, <1>6, <1>7, <1>8, <1>9, <1>10, <1>11, <1>12, <1>13, <1>14, <1>15
     DEF Next, Sync, Awaited

LEMMA AccountInit == Init => AccountInv
<1> SUFFICES ASSUME Init PROVE AccountInv
  OBVIOUS
<1>1. Elements(<<>>) = {} /\ Distinct(<<>>)
  BY DEF Elements, Distinct
<1>2. /\ Pending = {} /\ local.claimed = <<>> /\ \A t \in Targets : inbox[t] = <<>>
      /\ gone = {} /\ queued = <<>>
  BY <1>1 DEF Init, Pending, Targets, NewTurn
<1>3. EnteredMessages = <<>>
  BY DEF Init, EnteredMessages
<1>4. Entered = {}
  BY <1>1, <1>3 DEF Entered
<1>5. 1..Len(queued) = {}
  BY <1>2
<1> QED
  BY <1>1, <1>2, <1>3, <1>4, <1>5, LoopInit
     DEF AccountInv, EveryMessageAccounted, BatchIsFresh, Targets

\* However turns open, throw, are cancelled and are replayed, every message that
\* was put into the inbox is at one place, and none that was taken back is in
\* the log.
THEOREM MessagesAccounted == Spec => []EveryMessageAccounted
<1>1. AccountInv => EveryMessageAccounted
  BY DEF AccountInv
<1> QED
  BY <1>1, AccountInit, AccountInductive, PTL DEF Spec

------------------------------------------------------------------------------
\* What the lists, the batch and the log are made of.
LEMMA OrderTypes ==
  ASSUME AccountInv
  PROVE  /\ \A t \in Targets : inbox[t] \in Seq(Messages)
         /\ "next-turn" \in Targets /\ "next-step" \in Targets
         /\ local.claimed \in Seq(Messages) /\ local.step \in Nat /\ turn \in Nat
         /\ entered \in Seq([message : Messages, turn : Nat])
         /\ \A k \in 1..Len(entered) :
              entered[k].message \in 1..Len(queued) /\ entered[k].turn \in Nat
         /\ \A t \in Targets : \A m \in Elements(inbox[t]) : m \in 1..Len(queued)
         /\ \A m \in Elements(local.claimed) : m \in 1..Len(queued)
         /\ Messages \subseteq Nat /\ Len(queued) \in Nat
<1>1. TypeOK /\ EveryMessageAccounted
  BY DEF AccountInv, LoopInv
<1>2. /\ \A t \in Targets : inbox[t] \in Seq(Messages)
      /\ "next-turn" \in Targets /\ "next-step" \in Targets
      /\ local.claimed \in Seq(Messages) /\ local.step \in Nat /\ turn \in Nat
      /\ entered \in Seq([message : Messages, turn : Nat])
      /\ Messages \subseteq Nat /\ Len(queued) \in Nat
  BY <1>1, BoundsAssumption DEF TypeOK, Local, Targets, Messages
<1>3. ASSUME NEW k \in 1..Len(entered)
      PROVE  entered[k].message \in 1..Len(queued) /\ entered[k].turn \in Nat
  <2>1. entered[k] \in [message : Messages, turn : Nat]
    BY <1>2, ElementOfSeq
  <2>2. Len(EnteredMessages) = Len(entered) /\ EnteredMessages[k] = entered[k].message
    BY <1>2, MessagesTyped DEF EnteredMessages
  <2>3. entered[k].message \in Entered
    BY <2>2 DEF Entered, Elements
  <2> QED
    BY <1>1, <2>1, <2>3 DEF EveryMessageAccounted
<1>4. \A t \in Targets : Elements(inbox[t]) \subseteq Pending
  BY DEF Pending, Targets
<1>5. Pending \subseteq 1..Len(queued) /\ Elements(local.claimed) \subseteq 1..Len(queued)
  BY <1>1 DEF EveryMessageAccounted
<1> QED
  BY <1>2, <1>3, <1>4, <1>5

\* A part of a list is in order.
LEMMA PartAscends ==
  ASSUME NEW s \in Seq(Messages), Ascends(s), NEW n \in 0..Len(s)
  PROVE  LET high == SubSeq(s, n + 1, Len(s))
         IN  /\ Elements(high) \subseteq Elements(s) /\ Ascends(high)
             /\ n = 1 => \A m \in Elements(high) : s[1] < m
<1> SUFFICES ASSUME NEW high, high = SubSeq(s, n + 1, Len(s))
             PROVE  /\ Elements(high) \subseteq Elements(s) /\ Ascends(high)
                    /\ n = 1 => \A m \in Elements(high) : s[1] < m
  BY Zenon
<1>1. /\ high \in Seq(Messages) /\ Len(high) = Len(s) - n
      /\ \A i \in 1..(Len(s) - n) : high[i] = s[n + i]
  OBVIOUS
<1>2. \A i \in 1..Len(high) : n + i \in 1..Len(s) /\ n + i > n /\ high[i] = s[n + i]
  <2>1. \A i \in 1..(Len(s) - n) : n + i \in 1..Len(s) /\ n + i > n
    OBVIOUS
  <2> QED
    BY <1>1, <2>1
<1>3. Elements(high) \subseteq Elements(s)
  BY <1>2 DEF Elements
<1>4. ASSUME NEW i \in 1..Len(high), NEW j \in 1..Len(high), i < j PROVE high[i] < high[j]
  <2>1. n + i \in 1..Len(s) /\ high[i] = s[n + i] /\ n + j \in 1..Len(s) /\ high[j] = s[n + j]
    BY <1>2
  <2>2. n \in Int /\ i \in Int /\ j \in Int
    BY <1>1
  <2>3. n + i < n + j
    BY <1>4, <2>2
  <2> QED
    BY <2>1, <2>3 DEF Ascends
<1>5. ASSUME n = 1, NEW i \in 1..Len(high) PROVE s[1] < high[i]
  <2>1. n + i \in 1..Len(s) /\ 1 < n + i /\ 1 \in 1..Len(s) /\ high[i] = s[n + i]
    BY <1>2, <1>5
  <2> QED
    BY <2>1 DEF Ascends
<1> QED
  BY <1>3, <1>4, <1>5 DEF Ascends, Elements

\* So is a list that one message was taken from, and one that a later message
\* was added to.
LEMMA GapAscends ==
  ASSUME NEW s \in Seq(Messages), Ascends(s), NEW i \in 1..Len(s),
         NEW low \in Seq(Messages), NEW high \in Seq(Messages),
         Len(low) = i - 1, \A k \in 1..(i - 1) : low[k] = s[k],
         Len(high) = Len(s) - i, \A k \in 1..(Len(s) - i) : high[k] = s[i + k]
  PROVE  Ascends(low \o high)
<1> SUFFICES ASSUME NEW r, r = low \o high PROVE Ascends(r)
  OBVIOUS
<1>1. Len(s) \in Nat /\ i \in Int /\ 1 <= i /\ i <= Len(s)
  OBVIOUS
<1>2. /\ Len(r) = Len(low) + Len(high)
      /\ \A k \in 1..(Len(low) + Len(high)) :
           r[k] = IF k <= Len(low) THEN low[k] ELSE high[k - Len(low)]
  BY ConcatProperties
<1>3. Len(r) = Len(s) - 1 /\ Len(low) + Len(high) = Len(s) - 1
  BY <1>1, <1>2
<1>4. \A k \in 1..(Len(s) - 1) : r[k] = IF k < i THEN s[k] ELSE s[k + 1]
  <2> SUFFICES ASSUME NEW k \in 1..(Len(s) - 1)
               PROVE  r[k] = IF k < i THEN s[k] ELSE s[k + 1]
    OBVIOUS
  <2>1. r[k] = IF k <= i - 1 THEN low[k] ELSE high[k - (i - 1)]
    BY <1>2, <1>3
  <2>2. CASE k < i
    <3>1. k <= i - 1 /\ k \in 1..(i - 1)
      BY <1>1, <2>2
    <3> QED
      BY <2>1, <2>2, <3>1
  <2>3. CASE ~(k < i)
    <3>1. ~(k <= i - 1) /\ k - (i - 1) \in 1..(Len(s) - i) /\ i + (k - (i - 1)) = k + 1
      BY <1>1, <2>3
    <3>2. high[k - (i - 1)] = s[i + (k - (i - 1))]
      BY <3>1
    <3> QED
      BY <2>1, <2>3, <3>1, <3>2
  <2> QED
    BY <2>2, <2>3
<1>5. ASSUME NEW a \in 1..(Len(s) - 1), NEW b \in 1..(Len(s) - 1), a < b PROVE r[a] < r[b]
  <2> DEFINE at1 == IF a < i THEN a ELSE a + 1
             at2 == IF b < i THEN b ELSE b + 1
  <2>1. at1 \in 1..Len(s) /\ at2 \in 1..Len(s) /\ at1 < at2
    BY <1>1, <1>5
  <2>2. r[a] = s[at1] /\ r[b] = s[at2]
    BY <1>4
  <2> HIDE DEF at1, at2
  <2> QED
    BY <2>1, <2>2 DEF Ascends
<1> QED
  BY <1>3, <1>5 DEF Ascends

LEMMA RestAscends ==
  ASSUME NEW s \in Seq(Messages), Ascends(s), NEW i \in 1..Len(s)
  PROVE  Ascends(SubSeq(s, 1, i - 1) \o SubSeq(s, i + 1, Len(s)))
<1> SUFFICES ASSUME NEW low, NEW high,
                    low = SubSeq(s, 1, i - 1), high = SubSeq(s, i + 1, Len(s))
             PROVE  Ascends(low \o high)
  BY Zenon
<1>1. /\ low \in Seq(Messages) /\ Len(low) = i - 1
      /\ \A k \in 1..(i - 1) : low[k] = s[k]
  OBVIOUS
<1>2. /\ high \in Seq(Messages) /\ Len(high) = Len(s) - i
      /\ \A k \in 1..(Len(s) - i) : high[k] = s[i + k]
  OBVIOUS
<1> QED
  BY <1>1, <1>2, GapAscends

LEMMA AddedAscends ==
  ASSUME NEW s \in Seq(Messages), NEW m \in Messages, Messages \subseteq Nat,
         Ascends(s), \A x \in Elements(s) : x < m
  PROVE  Ascends(Append(s, m))
<1> DEFINE r == Append(s, m)
<1>1. /\ Len(r) = Len(s) + 1 /\ r[Len(s) + 1] = m
      /\ \A i \in 1..Len(s) : r[i] = s[i] /\ s[i] < m
  BY DEF Elements
<1> HIDE DEF r
<1>2. ASSUME NEW i \in 1..Len(r), NEW j \in 1..Len(r), i < j PROVE r[i] < r[j]
  <2>1. i \in 1..Len(s) /\ (j \in 1..Len(s) \/ j = Len(s) + 1)
    BY <1>1, <1>2
  <2> QED
    BY <1>1, <1>2, <2>1 DEF Ascends
<1> QED
  BY <1>2 DEF Ascends, r

------------------------------------------------------------------------------
\* Steps that add nothing to the lists, the batch or the log keep the order.
LEMMA OrderKept ==
  ASSUME OrderInv, AccountInv', UNCHANGED <<queued, entered>>,
         Elements(inbox'["next-step"]) \subseteq Elements(inbox["next-step"]),
         Elements(inbox'["next-turn"]) \subseteq Elements(inbox["next-turn"]),
         Ascends(inbox'["next-turn"]),
         \/ local'.claimed = local.claimed /\ local'.step = local.step
         \/ local'.claimed = <<>>,
         turn <= turn', TurnIsFresh'
  PROVE  OrderInv'
<1>1. \A m : IsFollowup(m)' = IsFollowup(m)
  BY DEF IsFollowup
<1>2. ListsInOrder'
  BY <1>1 DEF OrderInv, ListsInOrder
<1>3. Elements(local'.claimed) \subseteq Elements(local.claimed)
  BY DEF Elements
<1>4. BatchInOrder'
  <2>1. CASE local'.claimed = local.claimed /\ local'.step = local.step
    BY <1>1, <2>1 DEF OrderInv, BatchInOrder
  <2>2. CASE local'.claimed = <<>>
    BY <2>2 DEF BatchInOrder
  <2> QED
    BY <2>1, <2>2
<1>5. LogInOrder'
  <2>1. turn' \in Nat
    BY DEF AccountInv, LoopInv, TypeOK
  <2>2. turn \in Nat /\ \A k \in 1..Len(entered) : entered[k].turn \in Nat
    BY OrderTypes DEF OrderInv
  <2>3. \A k \in 1..Len(entered) : entered[k].turn <= turn'
    BY <2>1, <2>2 DEF OrderInv, LogInOrder
  <2> QED
    BY <1>1, <1>3, <2>3 DEF OrderInv, LogInOrder
<1>6. FollowupsOwnTheirTurns'
  BY DEF OrderInv, FollowupsOwnTheirTurns
<1> QED
  BY <1>2, <1>4, <1>5, <1>6 DEF OrderInv

\* The driver's turn counts on, and a turn that starts finds an empty log.
LEMMA FreshKept ==
  ASSUME OrderInv, UNCHANGED entered,
         \/ UNCHANGED <<turn, open, local>>
         \/ UNCHANGED turn /\ open' = "nothing"
         \/ UNCHANGED turn /\ open # "nothing" /\ local'.step = local.step
         \/ UNCHANGED turn /\ local'.step # 0
         \/ turn' = turn + 1
  PROVE  TurnIsFresh'
<1>1. turn \in Nat /\ \A k \in 1..Len(entered) : entered[k].turn \in Nat /\ entered[k].turn <= turn
  BY OrderTypes DEF OrderInv, LogInOrder
<1>2. CASE turn' = turn + 1
  BY <1>1, <1>2 DEF TurnIsFresh
<1>3. CASE turn' = turn
  BY <1>1, <1>3 DEF OrderInv, TurnIsFresh
<1> QED
  BY <1>2, <1>3

\* A message put into the inbox was sent after all others.
LEMMA PutKeepsOrder ==
  ASSUME OrderInv, AccountInv', NEW target \in Targets, Put(target),
         UNCHANGED <<entered, turn>>, TurnIsFresh',
         local'.claimed = local.claimed,
         local'.step = local.step \/ local.claimed = <<>>
  PROVE  OrderInv'
<1> DEFINE new == Len(queued) + 1
<1>1. TypeOK /\ AccountInv
  BY DEF OrderInv, AccountInv, LoopInv
<1>2. /\ inbox'[target] = Append(inbox[target], new)
      /\ \A t \in Targets : t # target => inbox'[t] = inbox[t]
      /\ new \in Messages
  BY <1>1, PutTyped
<1>3. /\ queued' = Append(queued, target) /\ queued \in Seq(Targets)
  BY <1>1 DEF Put, TypeOK
<1>4. /\ \A m \in 1..Len(queued) : queued'[m] = queued[m] /\ m < new
      /\ queued'[new] = target
  BY <1>3
<1> HIDE DEF new
<1>5. \A m \in 1..Len(queued) : IsFollowup(m)' = IsFollowup(m)
  BY <1>4 DEF IsFollowup
<1>6. /\ \A m \in Elements(inbox["next-turn"]) \cup Elements(inbox["next-step"])
               \cup Elements(local.claimed) : m \in 1..Len(queued)
      /\ \A k \in 1..Len(entered) : entered[k].message \in 1..Len(queued)
      /\ \A t \in Targets : inbox[t] \in Seq(Messages)
      /\ Messages \subseteq Nat
      /\ \A i \in 1..Len(local.claimed) : local.claimed[i] \in Elements(local.claimed)
  BY <1>1, OrderTypes DEF Elements
<1>7. target \in {"next-turn", "next-step"}
  BY DEF Targets
<1>8. Elements(inbox'[target]) = Elements(inbox[target]) \cup {new}
  BY <1>2, <1>6, AppendElements
<1>9. ListsInOrder'
  <2>1. CASE target = "next-turn"
    <3>1. Ascends(inbox'["next-turn"])
      BY <1>2, <1>4, <1>6, <2>1, AddedAscends DEF OrderInv, ListsInOrder, Targets
    <3>2. inbox'["next-step"] = inbox["next-step"]
      BY <1>2, <2>1 DEF Targets
    <3> QED
      BY <1>5, <1>6, <3>1, <3>2 DEF OrderInv, ListsInOrder
  <2>2. CASE target = "next-step"
    <3>1. inbox'["next-turn"] = inbox["next-turn"]
      BY <1>2, <2>2 DEF Targets
    <3>2. queued'[new] # "next-turn"
      BY <1>4, <2>2
    <3>3. \A m \in Elements(inbox'["next-step"]) : ~(queued'[m] = "next-turn")
      <4>1. \A m \in Elements(inbox["next-step"]) : queued[m] # "next-turn"
        BY DEF OrderInv, ListsInOrder, IsFollowup
      <4> QED
        BY <1>4, <1>6, <1>8, <2>2, <3>2, <4>1
    <3> QED
      BY <3>1, <3>3 DEF OrderInv, ListsInOrder, IsFollowup
  <2> QED
    BY <1>7, <2>1, <2>2
<1>10. Elements(inbox'["next-turn"]) \subseteq Elements(inbox["next-turn"]) \cup {new}
  BY <1>2, <1>8 DEF Targets
<1>11. BatchInOrder'
  <2> SUFFICES ASSUME NEW i \in 1..Len(local.claimed), IsFollowup(local.claimed[i])'
               PROVE  /\ i = Len(local.claimed) /\ local'.step = 0
                      /\ \A m \in Elements(inbox'["next-turn"]) : local.claimed[i] < m
    BY DEF BatchInOrder, IsFollowup
  <2>1. IsFollowup(local.claimed[i]) /\ local.claimed[i] < new
    BY <1>4, <1>5, <1>6
  <2>2. /\ i = Len(local.claimed) /\ local.step = 0
        /\ \A m \in Elements(inbox["next-turn"]) : local.claimed[i] < m
    BY <2>1 DEF OrderInv, BatchInOrder
  <2>3. local.claimed # <<>>
    OBVIOUS
  <2> QED
    BY <1>10, <2>1, <2>2, <2>3
<1>12. LogInOrder'
  <2> SUFFICES ASSUME NEW k \in 1..Len(entered), IsFollowup(entered[k].message)'
               PROVE  /\ \A m \in Elements(inbox'["next-turn"]) : entered[k].message < m
                      /\ \A m \in Elements(local.claimed) :
                           IsFollowup(m)' => entered[k].message < m
    BY DEF OrderInv, LogInOrder, IsFollowup
  <2>1. IsFollowup(entered[k].message) /\ entered[k].message < new
    BY <1>4, <1>5, <1>6
  <2> QED
    BY <1>5, <1>6, <1>10, <2>1 DEF OrderInv, LogInOrder
<1>13. FollowupsOwnTheirTurns'
  BY <1>4, <1>6 DEF OrderInv, FollowupsOwnTheirTurns
<1> QED
  BY <1>9, <1>11, <1>12, <1>13 DEF OrderInv

\* Taking messages out of the inbox does not put others out of order.
LEMMA RemoveKeepsOrder ==
  ASSUME OrderInv, AccountInv',
         NEW target \in Targets, NEW i \in DOMAIN inbox[target], Remove(target, i)
  PROVE  OrderInv'
<1>1. /\ inbox[target] \in Seq(Messages) /\ i \in 1..Len(inbox[target])
      /\ DOMAIN inbox = Targets /\ Distinct(inbox[target])
  BY DEF OrderInv, AccountInv, LoopInv, TypeOK, EveryMessageAccounted
<1>2. /\ UNCHANGED <<queued, turn, local, open, entered>>
      /\ \A t \in Targets : t # target => inbox'[t] = inbox[t]
      /\ inbox'[target] = SubSeq(inbox[target], 1, i - 1)
                            \o SubSeq(inbox[target], i + 1, Len(inbox[target]))
  BY <1>1 DEF Remove
<1>3. Elements(inbox'[target]) \subseteq Elements(inbox[target])
  <2> SUFFICES ASSUME NEW rest, rest = SubSeq(inbox[target], 1, i - 1)
                                         \o SubSeq(inbox[target], i + 1, Len(inbox[target]))
               PROVE  Elements(rest) \subseteq Elements(inbox[target])
    BY <1>2
  <2>1. Elements(rest) = Elements(inbox[target]) \ {inbox[target][i]}
    BY <1>1, RemoveElement
  <2> QED
    BY <2>1
<1>4. Ascends(inbox[target]) => Ascends(inbox'[target])
  BY <1>1, <1>2, RestAscends
<1>5. /\ Elements(inbox'["next-step"]) \subseteq Elements(inbox["next-step"])
      /\ Elements(inbox'["next-turn"]) \subseteq Elements(inbox["next-turn"])
      /\ Ascends(inbox'["next-turn"])
  BY <1>2, <1>3, <1>4 DEF OrderInv, ListsInOrder, Targets
<1>6. TurnIsFresh'
  BY <1>2, FreshKept
<1>7. turn <= turn'
  BY <1>2, OrderTypes DEF OrderInv
<1> QED
  BY <1>2, <1>5, <1>6, <1>7, OrderKept

LEMMA CancelKeepsOrder ==
  ASSUME OrderInv, AccountInv', NEW cause, NEW keepInbox \in BOOLEAN,
         Cancelled(cause, keepInbox)
  PROVE  OrderInv'
<1>1. /\ UNCHANGED <<queued, turn, local, open, entered>>
      /\ inbox' = IF keepInbox THEN inbox ELSE [t \in Targets |-> <<>>]
  BY DEF Cancelled
<1>2. Elements(<<>>) = {} /\ Ascends(<<>>)
  BY DEF Elements, Ascends
<1>3. /\ Elements(inbox'["next-step"]) \subseteq Elements(inbox["next-step"])
      /\ Elements(inbox'["next-turn"]) \subseteq Elements(inbox["next-turn"])
      /\ Ascends(inbox'["next-turn"])
  BY <1>1, <1>2 DEF OrderInv, ListsInOrder, Targets
<1>4. TurnIsFresh'
  BY <1>1, FreshKept
<1>5. turn <= turn'
  BY <1>1, OrderTypes DEF OrderInv
<1> QED
  BY <1>1, <1>3, <1>4, <1>5, OrderKept

\* A step that leaves the lists and the log alone.
LEMMA QuietKeepsOrder ==
  ASSUME OrderInv, AccountInv', UNCHANGED <<queued, inbox, entered>>,
         \/ local'.claimed = local.claimed /\ local'.step = local.step
         \/ local'.claimed = <<>>,
         turn' = turn \/ turn' = turn + 1, TurnIsFresh'
  PROVE  OrderInv'
<1>1. turn <= turn'
  BY OrderTypes DEF OrderInv
<1> QED
  BY <1>1, OrderKept DEF OrderInv, ListsInOrder

\* A turn that ends or throws takes nothing further.
LEMMA CloseKeepsOrder ==
  ASSUME OrderInv, AccountInv', NEW next, CloseTurn(next),
         UNCHANGED <<queued, inbox, entered, turn>>
  PROVE  OrderInv'
<1>1. local'.claimed = <<>> /\ open' = "nothing"
  BY DEF CloseTurn, OrderInv, AccountInv, LoopInv, TypeOK, Local
<1> QED
  BY <1>1, FreshKept, QuietKeepsOrder

\* The step of a turn claims the oldest follow-up, if it is the first step.
LEMMA ProposeKeepsOrder == ASSUME OrderInv, AccountInv', Propose PROVE OrderInv'
<1>1. CASE aborted
  BY <1>1, CloseKeepsOrder DEF Propose
<1>2. CASE ~aborted
  <2>1. Claim /\ UNCHANGED <<queued, turn, open, entered>>
    BY <1>2 DEF Propose
  <2>2. TypeOK /\ AccountInv /\ local.claimed = <<>>
    BY DEF Propose, Driving, OrderInv, AccountInv, LoopInv, BatchTellsStage
  <2> SUFFICES ASSUME NEW queue, queue = inbox["next-turn"], NEW steps, steps = inbox["next-step"]
               PROVE  OrderInv'
    OBVIOUS
  <2>3. /\ queue \in Seq(Messages) /\ steps \in Seq(Messages) /\ Messages \subseteq Nat
        /\ Len(steps) \in Nat /\ Len(queue) \in Nat
    BY <2>2, OrderTypes
  <2> DEFINE n == IF local.step > 0 \/ queue = <<>> THEN 0 ELSE 1
  <2>4. /\ n \in 0..Len(queue) /\ n \in {0, 1} /\ (n = 1 => local.step = 0)
    BY <2>2, <2>3, OrderTypes
  <2>5. /\ inbox'["next-step"] = <<>>
        /\ inbox'["next-turn"] = SubSeq(queue, n + 1, Len(queue))
        /\ local' = [local EXCEPT !.claimed = steps \o SubSeq(queue, 1, n)]
    BY <2>1 DEF Claim, Targets
  <2>6. local'.step = local.step /\ local'.claimed = steps \o SubSeq(queue, 1, n)
    BY <2>2, <2>5 DEF TypeOK, Local
  <2> HIDE DEF n
  <2>7. /\ Elements(inbox'["next-turn"]) \subseteq Elements(queue)
        /\ Ascends(inbox'["next-turn"])
        /\ n = 1 => \A m \in Elements(inbox'["next-turn"]) : queue[1] < m
    <3>1. Ascends(queue)
      BY DEF OrderInv, ListsInOrder
    <3> QED
      BY <2>3, <2>4, <2>5, <3>1, PartAscends
  <2>8. /\ Len(local'.claimed) = Len(steps) + n
        /\ \A i \in 1..Len(steps) : local'.claimed[i] = steps[i]
        /\ n = 1 => local'.claimed[Len(steps) + 1] = queue[1]
    <3> DEFINE low == SubSeq(queue, 1, n)
    <3>1. low \in Seq(Messages) /\ Len(low) = n /\ (n = 1 => low[1] = queue[1])
      BY <2>3, <2>4
    <3>2. local'.claimed = steps \o low
      BY <2>6
    <3> HIDE DEF low
    <3>3. /\ Len(steps \o low) = Len(steps) + n
          /\ \A i \in 1..Len(steps) : (steps \o low)[i] = steps[i]
          /\ n = 1 => (steps \o low)[Len(steps) + 1] = queue[1]
      BY <2>3, <2>4, <3>1
    <3> QED
      BY <3>2, <3>3
  <2>9. \A m : IsFollowup(m)' = IsFollowup(m)
    BY <2>1 DEF IsFollowup
  <2>10. ListsInOrder'
    BY <2>5, <2>7 DEF ListsInOrder, Elements
  <2>11. ASSUME NEW i \in 1..Len(local'.claimed), IsFollowup(local'.claimed[i])
         PROVE  i = Len(local'.claimed) /\ n = 1 /\ local'.claimed[i] = queue[1]
    <3>1. i \notin 1..Len(steps)
      BY <2>8, <2>11 DEF OrderInv, ListsInOrder, Elements
    <3>2. n = 1 /\ i = Len(steps) + 1
      BY <2>3, <2>4, <2>8, <3>1
    <3> QED
      BY <2>8, <3>2
  <2>12. BatchInOrder'
    BY <2>4, <2>6, <2>7, <2>9, <2>11 DEF BatchInOrder
  <2>13. LogInOrder'
    <3> SUFFICES ASSUME NEW k \in 1..Len(entered), IsFollowup(entered[k].message)
                 PROVE  /\ \A m \in Elements(inbox'["next-turn"]) : entered[k].message < m
                        /\ \A m \in Elements(local'.claimed) :
                             IsFollowup(m) => entered[k].message < m
      BY <2>1, <2>9 DEF OrderInv, LogInOrder
    <3>1. \A m \in Elements(queue) : entered[k].message < m
      BY DEF OrderInv, LogInOrder
    <3>2. n = 1 => queue[1] \in Elements(queue)
      BY <2>4 DEF Elements
    <3> QED
      BY <2>7, <2>11, <3>1, <3>2 DEF Elements
  <2>14. TurnIsFresh'
    BY <2>1, <2>6 DEF OrderInv, TurnIsFresh
  <2>15. FollowupsOwnTheirTurns'
    BY <2>1 DEF OrderInv, FollowupsOwnTheirTurns
  <2> QED
    BY <2>10, <2>12, <2>13, <2>14, <2>15 DEF OrderInv
<1> QED
  BY <1>1, <1>2

\* A batch enters behind what is in the log, its follow-up in a turn of its own.
LEMMA StartKeepsOrder == ASSUME OrderInv, AccountInv', StartStep PROVE OrderInv'
<1>1. UNCHANGED <<queued, inbox, turn>>
  BY DEF StartStep
<1>2. CASE (CloseTurn("look") \/ CloseTurn("stop")) /\ entered' = entered
  BY <1>1, <1>2, CloseKeepsOrder
<1>3. CASE /\ local' = [local EXCEPT !.step = @ + 1, !.claimed = <<>>]
           /\ entered' = entered \o [i \in 1..Len(local.claimed) |->
                                       [message |-> local.claimed[i], turn |-> turn]]
  <2>1. /\ entered \in Seq([message : Messages, turn : Nat]) /\ turn \in Nat
        /\ local.claimed \in Seq(Messages) /\ Messages \subseteq Nat /\ local.step \in Nat
        /\ \A k \in 1..Len(entered) : entered[k].turn \in Nat
    BY OrderTypes DEF OrderInv
  <2>2. local'.claimed = <<>> /\ local'.step = local.step + 1
    BY <1>3 DEF OrderInv, AccountInv, LoopInv, TypeOK, Local
  <2>3. local.step = 0 => \A k \in 1..Len(entered) : entered[k].turn < turn
    BY DEF StartStep, Driving, OrderInv, AccountInv, LoopInv, OpenTellsStage, TurnIsFresh
  <2>4. \A k \in 1..Len(entered') :
          \/ k \in 1..Len(entered) /\ entered'[k] = entered[k]
          \/ /\ k > Len(entered) /\ k - Len(entered) \in 1..Len(local.claimed)
             /\ entered'[k].message = local.claimed[k - Len(entered)]
             /\ entered'[k].turn = turn
    <3> DEFINE E == [message : Messages, turn : Nat]
               batch == [i \in 1..Len(local.claimed) |->
                           [message |-> local.claimed[i], turn |-> turn]]
    <3>1. /\ \A i \in 1..Len(local.claimed) : batch[i] \in E
          /\ \A i \in 1..Len(local.claimed) :
               batch[i].message = local.claimed[i] /\ batch[i].turn = turn
      BY <2>1
    <3>2. batch \in [1..Len(local.claimed) -> E] /\ Len(local.claimed) \in Nat
      BY <2>1, <3>1
    <3>3. entered' = entered \o batch /\ entered \in Seq(E)
      BY <1>3, <2>1
    <3> HIDE DEF batch, E
    <3>4. batch \in Seq(E) /\ Len(batch) = Len(local.claimed)
      BY <3>2
    <3>5. /\ Len(entered') = Len(entered) + Len(batch) /\ Len(entered) \in Nat
          /\ \A k \in 1..(Len(entered) + Len(batch)) :
               entered'[k] = IF k <= Len(entered) THEN entered[k] ELSE batch[k - Len(entered)]
      <4>1. entered \in Seq(E) /\ batch \in Seq(E)
        BY <3>3, <3>4
      <4> SUFFICES ASSUME NEW both, both = entered \o batch
                   PROVE  /\ Len(both) = Len(entered) + Len(batch) /\ Len(entered) \in Nat
                          /\ \A k \in 1..(Len(entered) + Len(batch)) :
                               both[k] = IF k <= Len(entered) THEN entered[k]
                                         ELSE batch[k - Len(entered)]
        BY <3>3
      <4> QED
        BY <4>1, ConcatProperties
    <3> SUFFICES ASSUME NEW k \in 1..Len(entered')
                 PROVE  \/ k \in 1..Len(entered) /\ entered'[k] = entered[k]
                        \/ /\ k > Len(entered) /\ k - Len(entered) \in 1..Len(local.claimed)
                           /\ entered'[k].message = local.claimed[k - Len(entered)]
                           /\ entered'[k].turn = turn
      OBVIOUS
    <3>6. CASE k <= Len(entered)
      BY <3>4, <3>5, <3>6
    <3>7. CASE k > Len(entered)
      <4>1. k - Len(entered) \in 1..Len(local.claimed) /\ ~(k <= Len(entered))
        BY <3>2, <3>4, <3>5, <3>7
      <4>2. entered'[k] = batch[k - Len(entered)]
        BY <3>4, <3>5, <4>1
      <4> QED
        BY <3>1, <3>7, <4>1, <4>2
    <3> QED
      BY <3>5, <3>6, <3>7
  <2>5. \A m : IsFollowup(m)' = IsFollowup(m)
    BY <1>1 DEF IsFollowup
  <2>6. ASSUME NEW k \in 1..Len(entered'), k > Len(entered), IsFollowup(entered'[k].message)
        PROVE  /\ k - Len(entered) = Len(local.claimed) /\ local.step = 0
               /\ entered'[k].message \in Elements(local.claimed)
               /\ \A m \in Elements(inbox["next-turn"]) : entered'[k].message < m
               /\ entered'[k].turn = turn
    <3>1. /\ k - Len(entered) \in 1..Len(local.claimed)
          /\ entered'[k].message = local.claimed[k - Len(entered)] /\ entered'[k].turn = turn
      BY <2>1, <2>4, <2>6
    <3> QED
      BY <2>6, <3>1 DEF OrderInv, BatchInOrder, Elements
  <2>7. Len(entered) \in Nat /\ \A k \in 1..Len(entered') :
          (k \in 1..Len(entered) /\ entered'[k] = entered[k]) \/ k > Len(entered)
    BY <2>1, <2>4
  <2>8. ListsInOrder' /\ BatchInOrder'
    BY <1>1, <2>2, <2>5 DEF OrderInv, ListsInOrder, BatchInOrder
  <2>9. LogInOrder'
    <3> SUFFICES ASSUME NEW k \in 1..Len(entered')
                 PROVE  /\ entered'[k].turn <= turn
                        /\ IsFollowup(entered'[k].message) =>
                             \A m \in Elements(inbox["next-turn"]) : entered'[k].message < m
      BY <1>1, <2>2, <2>5 DEF LogInOrder, Elements
    <3>1. CASE k \in 1..Len(entered) /\ entered'[k] = entered[k]
      BY <3>1 DEF OrderInv, LogInOrder
    <3>2. CASE k > Len(entered)
      <4>1. entered'[k].turn = turn
        BY <2>1, <2>4, <3>2
      <4> QED
        BY <2>1, <2>6, <3>2, <4>1
    <3> QED
      BY <2>7, <3>1, <3>2
  <2>10. TurnIsFresh'
    BY <2>1, <2>2 DEF TurnIsFresh
  <2>11. FollowupsOwnTheirTurns'
    <3> SUFFICES ASSUME NEW i \in 1..Len(entered'), NEW j \in 1..Len(entered'), i < j,
                        IsFollowup(entered'[i].message), IsFollowup(entered'[j].message)
                 PROVE  /\ entered'[i].turn < entered'[j].turn
                        /\ entered'[i].message < entered'[j].message
      BY <1>1 DEF FollowupsOwnTheirTurns, IsFollowup
    <3>1. CASE /\ i \in 1..Len(entered) /\ entered'[i] = entered[i]
               /\ j \in 1..Len(entered) /\ entered'[j] = entered[j]
      BY <3>1 DEF OrderInv, FollowupsOwnTheirTurns, IsFollowup
    <3>2. CASE i \in 1..Len(entered) /\ entered'[i] = entered[i] /\ j > Len(entered)
      <4>1. /\ local.step = 0 /\ entered'[j].message \in Elements(local.claimed)
            /\ entered'[j].turn = turn
        BY <2>6, <3>2
      <4>2. entered[i].turn < turn
        BY <2>3, <3>2, <4>1
      <4>3. entered[i].message < entered'[j].message
        BY <3>2, <4>1 DEF OrderInv, LogInOrder
      <4> QED
        BY <3>2, <4>1, <4>2, <4>3
    <3>3. CASE i > Len(entered)
      <4>1. i - Len(entered) = Len(local.claimed)
        BY <2>6, <3>3
      <4>2. j > Len(entered)
        BY <2>7, <3>3
      <4>3. j - Len(entered) = Len(local.claimed)
        BY <2>6, <4>2
      <4> QED
        BY <2>7, <4>1, <4>3
    <3> QED
      BY <2>7, <3>1, <3>2, <3>3
  <2> QED
    BY <2>8, <2>9, <2>10, <2>11 DEF OrderInv
<1> QED
  BY <1>2, <1>3 DEF StartStep

\* Waking the driver leaves the order as it is.
LEMMA WakeKeepsFresh ==
  ASSUME OrderInv, NEW afterAbort \in BOOLEAN, WakeDriver(afterAbort), UNCHANGED <<turn, open, entered>>
  PROVE  TurnIsFresh' /\ local'.claimed = local.claimed
         /\ (local'.step = local.step \/ local.claimed = <<>>)
<1>1. CASE phase.kind = "idle"
  <2>1. /\ local' = NewTurn /\ local.claimed = <<>> /\ open = "nothing"
    BY <1>1 DEF WakeDriver, OrderInv, AccountInv, LoopInv, TypeOK, BatchTellsStage, OpenTellsStage
  <2> QED
    BY <2>1 DEF NewTurn, TurnIsFresh
<1>2. CASE phase.kind # "idle"
  <2>1. local' = local
    BY <1>2 DEF WakeDriver
  <2> QED
    BY <2>1, FreshKept
<1> QED
  BY <1>1, <1>2

\* No step breaks OrderInv.
LEMMA OrderInductive == OrderInv /\ [Next]_vars => OrderInv'
<1> SUFFICES ASSUME OrderInv, [Next]_vars PROVE OrderInv'
  OBVIOUS
<1>1. AccountInv /\ AccountInv' /\ TypeOK /\ TypeOK'
  BY AccountInductive DEF OrderInv, AccountInv, LoopInv
<1>2. CASE UNCHANGED vars
  BY <1>1, <1>2, FreshKept, QuietKeepsOrder DEF vars
<1>3. ASSUME NEW target \in Targets, NEW wakeup \in BOOLEAN, Send(target, wakeup)
      PROVE  OrderInv'
  <2> DEFINE after == wakeup /\ aborted
             list == IF after THEN "next-turn" ELSE target
  <2>1. list \in Targets /\ Put(list) /\ UNCHANGED <<turn, open, entered>>
    BY <1>3 DEF Send, Targets
  <2>2. /\ TurnIsFresh' /\ local'.claimed = local.claimed
        /\ local'.step = local.step \/ local.claimed = <<>>
    <3>1. CASE wakeup
      <4>1. WakeDriver(after) /\ after \in BOOLEAN
        BY <1>3, <3>1 DEF Send, aborted
      <4> QED
        BY <2>1, <4>1, WakeKeepsFresh
    <3>2. CASE ~wakeup
      BY <1>3, <2>1, <3>2, FreshKept DEF Send
    <3> QED
      BY <3>1, <3>2
  <2> HIDE DEF list
  <2> QED
    BY <1>1, <2>1, <2>2, PutKeepsOrder
<1>4. CASE Followup \/ Steer \/ Inject
  BY <1>3, <1>4 DEF Followup, Steer, Inject, Targets
<1>5. CASE ToolContext
  <2>1. /\ "next-step" \in Targets /\ Put("next-step")
        /\ UNCHANGED <<turn, open, local, entered>>
    BY <1>5 DEF ToolContext, Targets
  <2> QED
    BY <1>1, <2>1, FreshKept, PutKeepsOrder
<1>6. CASE Dispose
  BY <1>1, <1>6, CancelKeepsOrder DEF Dispose
<1>7. ASSUME NEW keepInbox \in BOOLEAN, Cancel(keepInbox) PROVE OrderInv'
  BY <1>1, <1>7, CancelKeepsOrder DEF Cancel
<1>8. ASSUME NEW target \in Targets, NEW i \in DOMAIN inbox[target], Remove(target, i)
      PROVE  OrderInv'
  BY <1>1, <1>8, RemoveKeepsOrder
<1>9. CASE Propose
  BY <1>1, <1>9, ProposeKeepsOrder
<1>10. CASE StartStep
  BY <1>1, <1>10, StartKeepsOrder
<1>11. CASE RunMaintenance \/ MaintenanceEnds \/ NextTurn \/ KickEnds
  <2>1. /\ UNCHANGED <<queued, inbox, turn, open, entered>>
        /\ open = "nothing" /\ (local' = local \/ local'.claimed = <<>>)
    BY <1>1, <1>11 DEF RunMaintenance, MaintenanceEnds, NextTurn, KickEnds, Driving, NewTurn,
                       AccountInv, LoopInv, OpenTellsStage, TypeOK
  <2> QED
    BY <1>1, <2>1, FreshKept, QuietKeepsOrder
<1>12. CASE Replay
  <2>1. UNCHANGED <<queued, inbox, turn, open, entered>>
    BY <1>12 DEF Replay
  <2>2. CASE WakeDriver(FALSE)
    BY <1>1, <2>1, <2>2, WakeKeepsFresh, QuietKeepsOrder
  <2>3. CASE UNCHANGED local
    BY <1>1, <2>1, <2>3, FreshKept, QuietKeepsOrder
  <2> QED
    BY <1>12, <2>2, <2>3 DEF Replay
<1>13. CASE OpenTurn
  <2>1. /\ UNCHANGED <<queued, inbox, local, entered>>
        /\ turn' = turn + 1 \/ UNCHANGED <<turn, open>>
    BY <1>13 DEF OpenTurn
  <2> QED
    BY <1>1, <2>1, FreshKept, QuietKeepsOrder
<1>14. ASSUME NEW outcome \in {"open", "completed", "max-tokens"}, StepReturns(outcome)
       PROVE  OrderInv'
  <2>1. /\ UNCHANGED <<queued, inbox, turn, entered>> /\ open # "nothing"
        /\ local'.claimed = local.claimed /\ local'.step = local.step
    BY <1>1, <1>14 DEF StepReturns, Driving, AccountInv, LoopInv, OpenTellsStage, TypeOK, Local
  <2> QED
    BY <1>1, <2>1, FreshKept, QuietKeepsOrder
<1>15. CASE NotPrepared \/ StepThrows \/ AfterStep \/ Stopped
  <2>1. UNCHANGED <<queued, inbox, turn, entered>>
    BY <1>15 DEF NotPrepared, StepThrows, AfterStep, Stopped
  <2>2. CASE CloseTurn("stop") \/ CloseTurn("look")
    BY <1>1, <2>1, <2>2, CloseKeepsOrder
  <2>3. CASE UNCHANGED <<local, open>>
    BY <1>1, <2>1, <2>3, FreshKept, QuietKeepsOrder
  <2> QED
    BY <1>15, <2>2, <2>3 DEF NotPrepared, StepThrows, AfterStep, Stopped
<1>16. CASE Prepared
  <2>1. PICK keep \in BOOLEAN, extra \in BOOLEAN :
          local' = [local EXCEPT !.claimed = IF keep THEN @ ELSE <<>>, !.extra = extra]
    BY <1>16 DEF Prepared
  <2>2. UNCHANGED <<queued, inbox, turn, open, entered>> /\ open # "nothing"
    BY <1>16 DEF Prepared, Driving, OrderInv, AccountInv, LoopInv, OpenTellsStage
  <2>3. /\ local'.claimed = local.claimed \/ local'.claimed = <<>>
        /\ local'.step = local.step
    BY <1>1, <2>1 DEF TypeOK, Local
  <2> QED
    BY <1>1, <2>2, <2>3, FreshKept, QuietKeepsOrder
<1> QED
  BY <1>2, <1>4, <1>5, <1>6, <1>7, <1>8, <1>9, <1>10, <1>11, <1>12, <1>13, <1>14, <1>15, <1>16
     DEF Next, Sync, Awaited

\* A follow-up is the sole ordinary message of its turn and follow-ups keep the
\* order they were sent in, however turns are aborted around them.
THEOREM FollowupsInOrder == Spec => []FollowupsOwnTheirTurns
<1>1. Init => OrderInv
  <2> SUFFICES ASSUME Init PROVE OrderInv
    OBVIOUS
  <2>1. /\ \A t \in Targets : inbox[t] = <<>> /\ Elements(inbox[t]) = {}
        /\ local.claimed = <<>> /\ entered = <<>>
    BY DEF Init, NewTurn, Elements
  <2> QED
    BY <2>1, AccountInit
       DEF OrderInv, ListsInOrder, BatchInOrder, LogInOrder, TurnIsFresh, Ascends, Targets,
           FollowupsOwnTheirTurns
<1>2. OrderInv => FollowupsOwnTheirTurns
  BY DEF OrderInv
<1> QED
  BY <1>1, <1>2, OrderInductive, PTL DEF Spec
==============================================================================
