--------------------------- MODULE ToolCalls_proofs ---------------------------
(***************************************************************************)
(* For every number of calls and every pool size: the bodies keep to the   *)
(* pool and to the step, and what a step leaves in the log can be replayed.*)
(***************************************************************************)
EXTENDS ToolCalls, FiniteSetTheorems, SequenceTheorems, TLAPS

Event == [kind : {"call", "result", "skipped"}, call : Calls]

\* The calls before nextCall have been started, and no others.
StartedInOrder == \A c \in Calls : body[c] # "none" <=> c < nextCall

\* At most the last call started is being prepared, and a preparation that was
\* left has failed the step.
OnePrepares ==
  /\ \A c \in Calls : body[c] = "preparing" =>
       /\ c = nextCall - 1
       /\ at = "preparing" \/ (failed /\ at \in {"draining", "threw"})
  /\ at = "preparing" =>
       /\ nextCall > 1 /\ body[nextCall - 1] = "preparing"
       /\ Cardinality(inFlight) < MaxParallelToolCalls

\* The pool waits for every running body, and is empty between the groups.
PoolHoldsRunning ==
  /\ \A c \in Calls : body[c] = "running" => c \in inFlight
  /\ Cardinality(inFlight) <= MaxParallelToolCalls
  /\ at \in {"classify", "starting", "returned"} => inFlight = {}
  /\ at = "threw" => \A c \in Calls : body[c] # "running"
  /\ \A c \in Calls : body[c] = "failed" => failed

\* The unsettled calls are the group's, and of its mode if it is parallel.
GroupHoldsUnsettled ==
  /\ group.mode = "exclusive" => group.last = group.first
  /\ at = "starting" => /\ nextCall = group.first /\ nextCall <= group.last
                        /\ mode[nextCall] = group.mode
  /\ at \in {"committing", "preparing", "racing"} =>
       nextCall > group.first /\ nextCall <= group.last + 1
  /\ \A c \in Unsettled :
       /\ group.first <= c /\ c <= group.last
       /\ group.mode = "parallel" => mode[c] = "parallel"

PoolInv ==
  TypeOK /\ StartedInOrder /\ OnePrepares /\ PoolHoldsRunning /\ GroupHoldsUnsettled

\* The calls with a result are the first ones, and between the groups they are
\* all that were started.
CommittedIsPrefix ==
  /\ Committed = 1..(Oldest - 1)
  /\ at \in {"classify", "starting"} => \A c \in Calls : c < nextCall => c \in Committed

\* Until it returns the log says which calls were started and which committed.
LogTellsState ==
  at # "returned" =>
    \A c \in Calls : /\ Calling(c) \in Logged <=> c < nextCall
                     /\ Result(c) \in Logged <=> c \in Committed
                     /\ Skipped(c) \notin Logged

LogInv == PoolInv /\ CommittedIsPrefix /\ LogTellsState /\ LogReplays

------------------------------------------------------------------------------
\* The number of the first call without a result is a number.
LEMMA OldestIsNat == ASSUME TypeOK PROVE Oldest \in Nat \ {0}
<1>1. IsFiniteSet(Calls)
  BY CallsAssumption, FS_Interval DEF Calls
<1>2. IsFiniteSet(Committed)
  BY <1>1, FS_Subset DEF Committed
<1> QED
  BY <1>2, FS_CardinalityType DEF Oldest

\* The pool is finite.
LEMMA PoolIsFinite ==
  ASSUME TypeOK PROVE IsFiniteSet(inFlight) /\ Cardinality(inFlight) \in Nat
<1>1. IsFiniteSet(Calls)
  BY CallsAssumption, FS_Interval DEF Calls
<1>2. IsFiniteSet(inFlight)
  BY <1>1, FS_Subset DEF TypeOK
<1> QED
  BY <1>2, FS_CardinalityType

\* The entries an abort appends come in pairs, a call and its result.
LEMMA HalfOf ==
  ASSUME NEW m \in Nat, NEW i \in 1..(2 * m)
  PROVE  /\ (i - 1) \div 2 \in 0..(m - 1)
         /\ \/ i % 2 = 1 /\ i = 2 * ((i - 1) \div 2) + 1
            \/ i % 2 = 0 /\ i = 2 * ((i - 1) \div 2) + 2
  BY SMT

------------------------------------------------------------------------------
LEMMA PoolInit == Init => PoolInv
<1> SUFFICES ASSUME Init PROVE PoolInv
  OBVIOUS
<1>1. TypeOK
  <2>1. 1 \in 1..(NumCalls + 1) /\ 0 \in 0..NumCalls
    BY CallsAssumption
  <2>2. group \in [mode : Modes, first : 1..(NumCalls + 1), last : 0..NumCalls]
    BY <2>1 DEF Init, Modes
  <2>3. body \in [Calls -> {"none", "preparing", "running", "settled", "failed", "committed"}]
    BY DEF Init
  <2>4. log \in Seq([kind : {"call", "result", "skipped"}, call : Calls])
    BY DEF Init
  <2> QED
    BY <2>1, <2>2, <2>3, <2>4 DEF Init, TypeOK
<1>2. Cardinality(inFlight) <= MaxParallelToolCalls
  BY CallsAssumption, FS_EmptySet DEF Init
<1>3. Unsettled = {}
  BY DEF Init, Unsettled
<1> QED
  BY <1>1, <1>2, <1>3
     DEF Init, PoolInv, StartedInOrder, OnePrepares, PoolHoldsRunning, GroupHoldsUnsettled, Calls

\* The pairs of an abort extend the log to a log.
LEMMA SkipRestTyped == ASSUME TypeOK, SkipRest PROVE log' \in Seq(Event)
<1> DEFINE m == NumCalls + 1 - nextCall
<1>1. m \in Nat
  BY CallsAssumption DEF TypeOK
<1>2. \A i \in 1..(2 * m) : nextCall + (i - 1) \div 2 \in Calls
  BY <1>1, HalfOf, CallsAssumption DEF TypeOK, Calls
<1> DEFINE rest == [i \in 1..(2 * m) |->
                      LET c == nextCall + (i - 1) \div 2
                      IN  IF i % 2 = 1 THEN Calling(c) ELSE Skipped(c)]
<1>3. rest \in Seq(Event)
  <2>1. \A i \in 1..(2 * m) : rest[i] \in Event
    BY <1>2 DEF Event, Calling, Skipped
  <2>2. rest \in [1..(2 * m) -> Event]
    BY <2>1
  <2>3. 2 * m \in Nat
    BY <1>1
  <2> HIDE DEF rest, m
  <2> QED
    BY <2>2, <2>3
<1>4. log' = log \o rest
  BY DEF SkipRest
<1> HIDE DEF rest
<1> QED
  BY <1>3, <1>4 DEF TypeOK, Event

\* The registry, the abort signal and the bodies leave the pool in order.
LEMMA OthersKeepPool ==
  ASSUME PoolInv, \/ Abort \/ \E c \in Calls : RegistryChanges(c) \/ BodySettles(c)
  PROVE  PoolInv'
<1>1. CASE Abort
  BY <1>1 DEF Abort, PoolInv, TypeOK, StartedInOrder, OnePrepares, PoolHoldsRunning,
              GroupHoldsUnsettled, Unsettled
<1>2. ASSUME NEW c \in Calls, RegistryChanges(c) PROVE PoolInv'
  <2>1. TypeOK'
    BY <1>2 DEF RegistryChanges, PoolInv, TypeOK
  <2>2. GroupHoldsUnsettled'
    <3>1. \A d \in Unsettled : d # c
      BY <1>2 DEF RegistryChanges, PoolInv, StartedInOrder, Unsettled, TypeOK, Calls
    <3>2. \A d \in Unsettled : mode'[d] = mode[d]
      BY <1>2, <3>1 DEF RegistryChanges, Unsettled, PoolInv, TypeOK
    <3> QED
      BY <1>2, <3>2 DEF RegistryChanges, PoolInv, GroupHoldsUnsettled, Unsettled
  <2> QED
    BY <1>2, <2>1, <2>2
       DEF RegistryChanges, PoolInv, StartedInOrder, OnePrepares, PoolHoldsRunning
<1>3. ASSUME NEW c \in Calls, BodySettles(c) PROVE PoolInv'
  <2>1. TypeOK'
    BY <1>3 DEF BodySettles, PoolInv, TypeOK
  <2>2. Unsettled' \subseteq Unsettled
    BY <1>3 DEF BodySettles, PoolInv, TypeOK, Unsettled
  <2>3. GroupHoldsUnsettled'
    BY <1>3, <2>2 DEF BodySettles, PoolInv, GroupHoldsUnsettled
  <2>4. /\ body[c] = "running" /\ body'[c] \in {"settled", "failed"}
        /\ \A d \in Calls : d # c => body'[d] = body[d]
        /\ UNCHANGED <<at, nextCall, inFlight>> /\ (failed => failed')
        /\ body'[c] = "failed" => failed'
    BY <1>3 DEF BodySettles, PoolInv, TypeOK
  <2>5. StartedInOrder'
    BY <2>4 DEF PoolInv, StartedInOrder
  <2>6. OnePrepares'
    <3>1. \A d \in Calls : body'[d] = "preparing" <=> body[d] = "preparing"
      BY <2>4
    <3>2. at = "preparing" => nextCall - 1 \in Calls
      BY CallsAssumption DEF PoolInv, OnePrepares, TypeOK, Calls
    <3> QED
      BY <2>4, <3>1, <3>2 DEF PoolInv, OnePrepares
  <2>7. PoolHoldsRunning'
    BY <2>4 DEF PoolInv, PoolHoldsRunning
  <2> QED
    BY <2>1, <2>3, <2>5, <2>6, <2>7 DEF PoolInv
<1> QED
  BY <1>1, <1>2, <1>3

\* Looking at the pool, starting the next call or ending the group keeps it in order.
LEMMA FillKeepsPool == ASSUME PoolInv, Fill PROVE PoolInv'
<1> USE DEF PoolInv
<1>1. CASE failed
  BY <1>1 DEF Fill, TypeOK, StartedInOrder, OnePrepares, PoolHoldsRunning,
              GroupHoldsUnsettled, Unsettled
<1>2. CASE ~failed /\ MayStart
  <2>1. /\ nextCall \in Calls /\ nextCall <= group.last /\ body[nextCall] = "none"
        /\ nextCall >= group.first
        /\ group.mode = "parallel" => mode[nextCall] = "parallel"
        /\ Cardinality(inFlight) < MaxParallelToolCalls
    <3>1. nextCall <= group.last /\ Cardinality(inFlight) < MaxParallelToolCalls
      BY <1>2 DEF MayStart
    <3>2. nextCall \in Nat /\ nextCall >= 1 /\ group.last \in 0..NumCalls /\ group.first \in Nat
      BY CallsAssumption DEF TypeOK
    <3>3. nextCall \in Calls
      BY <3>1, <3>2, CallsAssumption DEF Calls
    <3>4. body[nextCall] = "none"
      BY <3>2, <3>3 DEF StartedInOrder
    <3>5. nextCall >= group.first
      BY <1>2, <3>2 DEF Fill, GroupHoldsUnsettled
    <3>6. group.mode = "parallel" => mode[nextCall] = "parallel"
      <4>1. CASE at = "starting"
        BY <4>1 DEF GroupHoldsUnsettled
      <4>2. CASE at = "committing"
        BY <1>2, <3>2, <4>2 DEF MayStart, GroupHoldsUnsettled
      <4> QED
        BY <1>2, <4>1, <4>2 DEF Fill
    <3> QED
      BY <3>1, <3>3, <3>4, <3>5, <3>6
  <2>2. /\ body' = [body EXCEPT ![nextCall] = "preparing"] /\ nextCall' = nextCall + 1
        /\ at' = "preparing" /\ log' = Append(log, Calling(nextCall))
        /\ UNCHANGED <<mode, signal, group, inFlight, failed>>
    BY <1>2 DEF Fill
  <2>3. TypeOK'
    <3>1. log' \in Seq(Event)
      BY <2>1, <2>2 DEF TypeOK, Event, Calling
    <3> QED
      BY <2>1, <2>2, <3>1, CallsAssumption DEF TypeOK, Calls, Event
  <2>4. StartedInOrder'
    BY <2>1, <2>2 DEF StartedInOrder, TypeOK, Calls
  <2>5. \A c \in Calls : body[c] # "preparing"
    BY <1>2 DEF Fill, OnePrepares
  <2>6. OnePrepares'
    BY <2>1, <2>2, <2>5 DEF OnePrepares, TypeOK, Calls
  <2>7. PoolHoldsRunning'
    BY <2>1, <2>2 DEF PoolHoldsRunning, TypeOK
  <2>8. GroupHoldsUnsettled'
    <3>1. Unsettled' = Unsettled \cup {nextCall}
      BY <2>1, <2>2 DEF Unsettled, TypeOK
    <3> QED
      BY <2>1, <2>2, <3>1 DEF GroupHoldsUnsettled, TypeOK
  <2> QED
    BY <2>3, <2>4, <2>6, <2>7, <2>8
<1>3. CASE ~failed /\ ~MayStart /\ inFlight # {}
  <2>1. at = "committing"
    BY <1>3 DEF Fill, PoolHoldsRunning
  <2> QED
    BY <1>3, <2>1 DEF Fill, TypeOK, StartedInOrder, OnePrepares, PoolHoldsRunning,
                GroupHoldsUnsettled, Unsettled
<1>4. CASE ~failed /\ ~MayStart /\ inFlight = {}
  <2>1. Unsettled = {}
    BY <1>4 DEF Fill, OnePrepares, PoolHoldsRunning, Unsettled
  <2>2. /\ at' \in {"returned", "classify"}
        /\ UNCHANGED <<mode, signal, group, nextCall, body, inFlight, failed>>
    BY <1>4 DEF Fill
  <2>3. log' \in Seq(Event)
    BY <1>4, SkipRestTyped DEF Fill, TypeOK, Event
  <2>4. TypeOK'
    BY <2>2, <2>3 DEF TypeOK, Event
  <2>5. Unsettled' = {}
    BY <2>1, <2>2 DEF Unsettled
  <2>6. GroupHoldsUnsettled'
    BY <2>2, <2>5 DEF GroupHoldsUnsettled
  <2>7. OnePrepares'
    BY <2>2, <2>5 DEF OnePrepares, Unsettled
  <2>8. StartedInOrder' /\ PoolHoldsRunning'
    BY <1>4, <2>2 DEF StartedInOrder, PoolHoldsRunning
  <2> QED
    BY <2>4, <2>6, <2>7, <2>8
<1> QED
  BY <1>1, <1>2, <1>3, <1>4

\* Preparing a call ends with its body, its result or the failure of the step.
LEMMA PrepareKeepsPool == ASSUME PoolInv, Prepared \/ PrepareFails PROVE PoolInv'
<1> USE DEF PoolInv
<1> DEFINE c == nextCall - 1
<1>1. /\ at = "preparing" /\ c \in Calls /\ body[c] = "preparing"
      /\ Cardinality(inFlight) < MaxParallelToolCalls /\ c \notin inFlight
      /\ \A d \in Calls : body[d] = "preparing" => d = c
  <2>1. at = "preparing"
    BY DEF Prepared, PrepareFails
  <2>2. nextCall \in 1..(NumCalls + 1) /\ nextCall > 1 /\ NumCalls \in Nat
    BY <2>1, CallsAssumption DEF OnePrepares, TypeOK
  <2>3. c \in Calls
    BY <2>2 DEF Calls
  <2>4. body[c] = "preparing" /\ Cardinality(inFlight) < MaxParallelToolCalls
    BY <2>1 DEF OnePrepares
  <2>5. c \notin inFlight
    BY <2>4 DEF TypeOK
  <2>6. \A d \in Calls : body[d] = "preparing" => d = c
    BY DEF OnePrepares
  <2> QED
    BY <2>1, <2>3, <2>4, <2>5, <2>6
<1>2. CASE failed' /\ body' = body /\ at' = "draining" /\ inFlight' = inFlight
           /\ UNCHANGED <<mode, signal, group, nextCall, log>>
  BY <1>1, <1>2 DEF TypeOK, StartedInOrder, OnePrepares, PoolHoldsRunning,
                    GroupHoldsUnsettled, Unsettled
<1>3. ASSUME NEW s \in {"running", "settled"},
             body' = [body EXCEPT ![c] = s], at' = "committing",
             inFlight' = IF s = "running" THEN inFlight \cup {c} ELSE inFlight,
             UNCHANGED <<mode, signal, group, nextCall, failed, log>>
      PROVE  PoolInv'
  <2> HIDE DEF c
  <2>1. body'[c] = s /\ \A d \in Calls : d # c => body'[d] = body[d]
    BY <1>1, <1>3 DEF TypeOK
  <2>2. TypeOK'
    BY <1>1, <1>3, <2>1 DEF TypeOK
  <2>3. StartedInOrder'
    BY <1>1, <1>3, <2>1 DEF StartedInOrder
  <2>4. OnePrepares'
    BY <1>1, <1>3, <2>1 DEF OnePrepares
  <2>5. Cardinality(inFlight') <= MaxParallelToolCalls
    <3>1. Cardinality(inFlight \cup {c}) = Cardinality(inFlight) + 1
      BY <1>1, PoolIsFinite, FS_AddElement
    <3> QED
      BY <1>1, <1>3, <3>1, PoolIsFinite, CallsAssumption DEF PoolHoldsRunning
  <2>6. PoolHoldsRunning'
    BY <1>1, <1>3, <2>1, <2>5 DEF PoolHoldsRunning
  <2>7. Unsettled' \subseteq Unsettled
    BY <1>1, <2>1 DEF Unsettled
  <2>8. GroupHoldsUnsettled'
    BY <1>1, <1>3, <2>7 DEF GroupHoldsUnsettled
  <2> QED
    BY <2>2, <2>3, <2>4, <2>6, <2>8
<1>4. CASE PrepareFails
  BY <1>2, <1>4 DEF PrepareFails
<1>5. CASE Prepared /\ failed
  BY <1>2, <1>5 DEF Prepared
<1>6. CASE Prepared /\ ~failed
  BY <1>3, <1>6 DEF Prepared
<1> QED
  BY <1>4, <1>5, <1>6

\* The oldest call with a result to commit is one that was started.
LEMMA ReadyCall ==
  ASSUME PoolInv, Ready
  PROVE  Oldest \in Calls /\ body[Oldest] = "settled" /\ Oldest < nextCall
<1>1. Oldest \in Nat \ {0} /\ Oldest <= group.last /\ group.last \in 0..NumCalls
  BY OldestIsNat DEF PoolInv, Ready, TypeOK
<1>2. Oldest \in Calls
  BY <1>1, CallsAssumption DEF Calls
<1> QED
  BY <1>2 DEF Ready, PoolInv, StartedInOrder

\* So do classifying, committing, racing and throwing.
LEMMA RestKeepsPool ==
  ASSUME PoolInv, Classify \/ AllDone \/ Commit \/ CommitFails \/ Race \/ Throw
  PROVE  PoolInv'
<1> USE DEF PoolInv
<1>1. CASE Classify
  <2>1. nextCall \in Calls
    BY <1>1, CallsAssumption DEF Classify, TypeOK, Calls
  <2>2. mode[nextCall] \in Modes
    BY <2>1 DEF TypeOK
  <2>3. NumCalls \in Nat /\ nextCall \in Nat /\ nextCall >= 1 /\ nextCall <= NumCalls
    BY <2>1, CallsAssumption DEF Calls
  <2>4. /\ group'.mode = mode[nextCall] /\ group'.first = nextCall
        /\ group'.last = IF mode[nextCall] = "parallel" THEN NumCalls ELSE nextCall
    BY <1>1 DEF Classify
  <2>5. group' \in [mode : Modes, first : 1..(NumCalls + 1), last : 0..NumCalls]
    BY <1>1, <2>2, <2>3 DEF Classify
  <2>6. TypeOK'
    BY <1>1, <2>5 DEF Classify, TypeOK
  <2>7. Unsettled = {}
    BY <1>1 DEF Classify, OnePrepares, PoolHoldsRunning, Unsettled
  <2>8. GroupHoldsUnsettled'
    BY <1>1, <2>2, <2>3, <2>4, <2>7 DEF Classify, GroupHoldsUnsettled, Unsettled, Modes
  <2>9. OnePrepares'
    BY <1>1, <2>7 DEF Classify, OnePrepares, Unsettled
  <2> QED
    BY <1>1, <2>6, <2>8, <2>9 DEF Classify, StartedInOrder, PoolHoldsRunning
<1>2. CASE AllDone
  BY <1>2 DEF AllDone, TypeOK, StartedInOrder, OnePrepares, PoolHoldsRunning,
              GroupHoldsUnsettled, Unsettled
<1>3. CASE Commit
  <2>1. /\ Oldest \in Calls /\ body[Oldest] = "settled"
        /\ body' = [body EXCEPT ![Oldest] = "committed"] /\ at = "committing"
        /\ log' = Append(log, Result(Oldest))
        /\ UNCHANGED <<mode, signal, at, group, nextCall, inFlight, failed>>
    BY <1>3, ReadyCall DEF Commit
  <2>2. Result(Oldest) \in Event
    BY <2>1 DEF Result, Event
  <2> DEFINE c == Oldest
  <2> HIDE DEF c
  <2>3. /\ c \in Calls /\ body[c] = "settled" /\ body' = [body EXCEPT ![c] = "committed"]
    BY <2>1 DEF c
  <2>4. TypeOK'
    BY <2>1, <2>2, <2>3 DEF TypeOK, Event
  <2>5. Unsettled' = Unsettled
    BY <2>3 DEF Unsettled, TypeOK
  <2> QED
    BY <2>1, <2>3, <2>4, <2>5
       DEF StartedInOrder, OnePrepares, PoolHoldsRunning, GroupHoldsUnsettled, TypeOK
<1>4. CASE CommitFails
  BY <1>4 DEF CommitFails, TypeOK, StartedInOrder, OnePrepares, PoolHoldsRunning,
              GroupHoldsUnsettled, Unsettled
<1>5. CASE Race
  <2>1. PICK c \in inFlight : body[c] # "running" /\ inFlight' = inFlight \ {c}
    BY <1>5 DEF Race
  <2>2. Cardinality(inFlight') <= Cardinality(inFlight)
    BY <2>1, PoolIsFinite, FS_RemoveElement
  <2>3. Cardinality(inFlight') \in Nat
    BY <2>1, PoolIsFinite, FS_Subset, FS_CardinalityType
  <2>4. Cardinality(inFlight') <= MaxParallelToolCalls
    BY <2>2, <2>3, PoolIsFinite, CallsAssumption DEF PoolHoldsRunning
  <2>5. at = "racing" /\ at' \in {"draining", "committing"} /\ (failed \/ at' = "committing")
        /\ UNCHANGED <<mode, signal, group, nextCall, body, failed, log>>
    BY <1>5 DEF Race
  <2> QED
    BY <2>1, <2>4, <2>5 DEF TypeOK, StartedInOrder, OnePrepares, PoolHoldsRunning,
                            GroupHoldsUnsettled, Unsettled
<1>6. CASE Throw
  BY <1>6 DEF Throw, TypeOK, StartedInOrder, OnePrepares, PoolHoldsRunning,
              GroupHoldsUnsettled, Unsettled
<1> QED
  BY <1>1, <1>2, <1>3, <1>4, <1>5, <1>6

\* No step breaks PoolInv.
LEMMA PoolInductive == PoolInv /\ [Next]_vars => PoolInv'
<1> SUFFICES ASSUME PoolInv, [Next]_vars PROVE PoolInv'
  OBVIOUS
<1>1. CASE UNCHANGED vars
  BY <1>1 DEF vars, PoolInv, TypeOK, StartedInOrder, OnePrepares, PoolHoldsRunning,
              GroupHoldsUnsettled, Unsettled
<1>2. CASE Next
  BY <1>2, OthersKeepPool, FillKeepsPool, PrepareKeepsPool, RestKeepsPool DEF Next, Scheduler
<1> QED
  BY <1>1, <1>2

LEMMA PoolInvariant == Spec => []PoolInv
  BY PoolInit, PoolInductive, PTL DEF Spec

\* Every variable keeps its type.
THEOREM TypeCorrect == Spec => []TypeOK
<1>1. PoolInv => TypeOK
  BY DEF PoolInv
<1> QED
  BY <1>1, PoolInvariant, PTL

\* After a failed dispatch no body begins: not the one being prepared either,
\* whose preparation ends after the failure.
LEMMA FailureStopsBodies == Spec => NothingBeginsAfterFailure
<1>1. TypeOK /\ [Next]_vars => [failed => \A c \in Calls : body'[c] = "running" => body[c] = "running"]_vars
  <2> SUFFICES ASSUME TypeOK, Next, failed, NEW c \in Calls, body'[c] = "running"
               PROVE  body[c] = "running"
    BY DEF vars
  <2>1. CASE Scheduler
    <3>1. CASE Fill
      BY <3>1 DEF Fill
    <3>2. CASE Prepared
      BY <3>2 DEF Prepared
    <3>3. CASE Commit
      BY <3>3 DEF Commit, TypeOK
    <3>4. CASE Classify \/ AllDone \/ CommitFails \/ PrepareFails \/ Race \/ Throw
      BY <3>4 DEF Classify, AllDone, CommitFails, PrepareFails, Race, Throw
    <3> QED
      BY <2>1, <3>1, <3>2, <3>3, <3>4 DEF Scheduler
  <2>2. CASE Abort
    BY <2>2 DEF Abort
  <2>3. ASSUME NEW d \in Calls, RegistryChanges(d) PROVE body[c] = "running"
    BY <2>3 DEF RegistryChanges
  <2>4. ASSUME NEW d \in Calls, BodySettles(d) PROVE body[c] = "running"
    BY <2>4 DEF BodySettles, TypeOK
  <2> QED
    BY <2>1, <2>2, <2>3, <2>4 DEF Next
<1> QED
  BY <1>1, TypeCorrect, PTL DEF Spec, NothingBeginsAfterFailure

\* An exclusive call runs alone, no more bodies run than the configuration
\* allows, none is left behind by a step that returned or threw, and none begins
\* after a failed dispatch.
THEOREM PoolKept == Spec => PoolIsKept
<1>1. ASSUME PoolInv PROVE ExclusiveRunsAlone /\ PoolIsBounded /\ NoBodyOutlivesTheStep
  <2>1. ExclusiveRunsAlone
    <3> SUFFICES ASSUME NEW c \in Unsettled, NEW d \in Unsettled, mode[c] = "exclusive"
                 PROVE  c = d
      BY DEF ExclusiveRunsAlone
    <3>1. group.mode = "exclusive"
      BY <1>1 DEF PoolInv, GroupHoldsUnsettled, TypeOK, Modes
    <3>2. c \in Nat /\ d \in Nat
      BY DEF Unsettled, Calls
    <3> QED
      BY <1>1, <3>1, <3>2 DEF PoolInv, GroupHoldsUnsettled, TypeOK
  <2>2. PoolIsBounded
    <3> DEFINE running == {c \in Calls : body[c] = "running"}
    <3>1. running \subseteq inFlight
      BY <1>1 DEF PoolInv, PoolHoldsRunning
    <3>2. IsFiniteSet(inFlight) /\ Cardinality(inFlight) \in Nat
      BY <1>1, PoolIsFinite DEF PoolInv
    <3>3. IsFiniteSet(running) /\ Cardinality(running) <= Cardinality(inFlight)
      BY <3>1, <3>2, FS_Subset
    <3>4. Cardinality(running) \in Nat
      BY <3>3, FS_CardinalityType
    <3> QED
      BY <1>1, <3>2, <3>3, <3>4, CallsAssumption
         DEF PoolInv, PoolHoldsRunning, PoolIsBounded
  <2>3. NoBodyOutlivesTheStep
    BY <1>1 DEF PoolInv, PoolHoldsRunning, NoBodyOutlivesTheStep, Ended
  <2> QED
    BY <2>1, <2>2, <2>3
<1> QED
  BY <1>1, PoolInvariant, FailureStopsBodies, PTL DEF PoolIsKept

------------------------------------------------------------------------------
\* An entry that fits after the log is appended to it.
LEMMA AppendFits ==
  ASSUME log \in Seq(Event), LogInModelOrder,
         NEW event \in Event, FitsAfter(event, Logged), log' = Append(log, event)
  PROVE  LogInModelOrder' /\ Logged' = Logged \cup {event}
<1> SUFFICES ASSUME NEW N \in Nat, N = Len(log)
             PROVE  LogInModelOrder' /\ Logged' = Logged \cup {event}
  OBVIOUS
<1>1. /\ Len(log') = N + 1 /\ log'[N + 1] = event
      /\ \A n \in 1..N : log'[n] = log[n]
  OBVIOUS
<1>2. \A n \in 1..N : Before(n)' = Before(n)
  BY <1>1 DEF Before
<1>3. Before(N + 1)' = Logged
  BY <1>1 DEF Before, Logged
<1>4. ASSUME NEW n \in 1..Len(log') PROVE FitsAfter(log'[n], Before(n)')
  <2>1. CASE n \in 1..N
    BY <1>1, <1>2, <2>1 DEF LogInModelOrder
  <2>2. CASE n = N + 1
    BY <1>1, <1>3, <2>2
  <2> QED
    BY <1>1, <2>1, <2>2
<1>5. Logged' = Logged \cup {event}
  BY <1>1 DEF Logged
<1>6. LogInModelOrder'
  BY <1>4 DEF LogInModelOrder, FitsAfter, Before
<1> QED
  BY <1>5, <1>6

\* The same for the last entries of an aborted step, which are appended at once.
LEMMA RestFits ==
  ASSUME NEW m \in Nat, log \in Seq(Event), LogInModelOrder,
         NEW rest \in Seq(Event), Len(rest) = m, log' = log \o rest,
         \A i \in 1..m : FitsAfter(rest[i], Logged \cup {rest[j] : j \in 1..(i - 1)})
  PROVE  LogInModelOrder' /\ Logged' = Logged \cup {rest[j] : j \in 1..m}
<1> SUFFICES ASSUME NEW N \in Nat, N = Len(log)
             PROVE  LogInModelOrder' /\ Logged' = Logged \cup {rest[j] : j \in 1..m}
  OBVIOUS
<1>1. /\ Len(log') = N + m
      /\ \A n \in 1..N : log'[n] = log[n]
      /\ \A i \in 1..m : log'[N + i] = rest[i]
  <2>1. Len(log') = N + m
    BY ConcatProperties
  <2>2. ASSUME NEW n \in 1..N PROVE log'[n] = log[n]
    OBVIOUS
  <2>3. ASSUME NEW i \in 1..m PROVE log'[N + i] = rest[i]
    <3>1. N + i \in 1..(N + m) /\ ~(N + i <= N) /\ (N + i) - N = i
      OBVIOUS
    <3>2. \A k \in 1..(Len(log) + Len(rest)) :
            (log \o rest)[k] = IF k <= Len(log) THEN log[k] ELSE rest[k - Len(log)]
      BY ConcatProperties
    <3> QED
      BY <3>1, <3>2
  <2> QED
    BY <2>1, <2>2, <2>3
<1>2. \A n \in 1..N : Before(n)' = Before(n)
  BY <1>1 DEF Before
<1>3. ASSUME NEW k \in 0..m
      PROVE  {log'[n] : n \in 1..(N + k)} = Logged \cup {rest[j] : j \in 1..k}
  <2> DEFINE new == {rest[j] : j \in 1..k}
  <2>1. ASSUME NEW n \in 1..(N + k) PROVE log'[n] \in Logged \cup new
    <3>1. CASE n <= N
      <4>1. n \in 1..N
        BY <3>1
      <4> QED
        BY <1>1, <4>1 DEF Logged
    <3>2. CASE n > N
      <4>1. PICK j \in 1..k : n = N + j
        <5>1. n - N \in 1..k /\ n = N + (n - N)
          BY <3>2
        <5> QED
          BY <5>1
      <4>2. j \in 1..m /\ rest[j] \in new
        OBVIOUS
      <4> QED
        BY <1>1, <4>1, <4>2
    <3> QED
      BY <3>1, <3>2
  <2>2. \A n \in 1..N : n \in 1..(N + k) /\ log[n] = log'[n]
    BY <1>1
  <2>3. \A j \in 1..k : N + j \in 1..(N + k) /\ rest[j] = log'[N + j]
    BY <1>1
  <2> DEFINE whole == {log'[n] : n \in 1..(N + k)}
  <2>4. whole \subseteq Logged \cup new
    BY <2>1
  <2>5. Logged \subseteq whole
    BY <2>2 DEF Logged
  <2>6. new \subseteq whole
    <3>1. \A j \in 1..k : rest[j] \in whole
      BY <2>3
    <3> QED
      BY <3>1
  <2> HIDE DEF whole, new
  <2>7. whole = Logged \cup new
    BY <2>4, <2>5, <2>6
  <2> QED
    BY <2>7 DEF whole, new
<1>4. ASSUME NEW i \in 1..m
      PROVE  Before(N + i)' = Logged \cup {rest[j] : j \in 1..(i - 1)}
  <2>1. i - 1 \in 0..m /\ (N + i) - 1 = N + (i - 1)
    OBVIOUS
  <2> QED
    BY <1>3, <2>1 DEF Before
<1>5. ASSUME NEW n \in 1..Len(log') PROVE FitsAfter(log'[n], Before(n)')
  <2>1. CASE n \in 1..N
    BY <1>1, <1>2, <2>1 DEF LogInModelOrder
  <2>2. CASE n \notin 1..N
    <3>1. n - N \in 1..m /\ n = N + (n - N)
      BY <1>1, <2>2
    <3>2. log'[n] = rest[n - N] /\ Before(n)' = Logged \cup {rest[j] : j \in 1..((n - N) - 1)}
      BY <1>1, <1>4, <3>1
    <3> QED
      BY <3>1, <3>2
  <2> QED
    BY <2>1, <2>2
<1>6. Logged' = Logged \cup {rest[j] : j \in 1..m}
  <2>1. Logged' = {log'[n] : n \in 1..(N + m)}
    BY <1>1 DEF Logged
  <2>2. m \in 0..m
    OBVIOUS
  <2> QED
    BY <1>3, <2>1, <2>2
<1>7. LogInModelOrder'
  BY <1>5 DEF LogInModelOrder, FitsAfter, Before
<1> QED
  BY <1>6, <1>7

------------------------------------------------------------------------------
LEMMA LogInit == Init => LogInv
<1> SUFFICES ASSUME Init PROVE LogInv
  OBVIOUS
<1>1. PoolInv
  BY PoolInit
<1>2. Committed = {} /\ Oldest = 1
  <2>1. Committed = {}
    BY DEF Init, Committed
  <2> QED
    BY <2>1, FS_EmptySet DEF Oldest
<1>3. Logged = {} /\ Len(log) = 0
  BY DEF Init, Logged
<1>4. CommittedIsPrefix
  BY <1>2 DEF Init, CommittedIsPrefix, Calls
<1> QED
  BY <1>1, <1>2, <1>3, <1>4
     DEF Init, LogInv, LogTellsState, LogReplays, LogInModelOrder, ReplayStaysValid, Calls

\* A step that neither appends, starts nor commits anything keeps the log.
LEMMA LogKept ==
  ASSUME LogInv, PoolInv', UNCHANGED <<log, nextCall>>, signal => signal',
         \A c \in Calls : body'[c] = "committed" <=> body[c] = "committed",
         at' = at \/ (at # "returned" /\ at' # "returned"),
         at' \in {"classify", "starting"} => at \in {"classify", "starting"}
  PROVE  LogInv'
<1>1. Committed' = Committed /\ Oldest' = Oldest /\ Logged' = Logged
  BY DEF Committed, Oldest, Logged
<1>2. LogInModelOrder'
  <2>1. \A n \in 1..Len(log) : Before(n)' = Before(n)
    BY DEF Before
  <2>2. LogInModelOrder
    BY DEF LogInv, LogReplays
  <2> QED
    BY <2>1, <2>2 DEF LogInModelOrder
<1> QED
  BY <1>1, <1>2 DEF LogInv, CommittedIsPrefix, LogTellsState, LogReplays, ReplayStaysValid

\* When nothing is ready or in flight and no call may start, every call that was
\* started is committed.
LEMMA GroupIsCommitted ==
  ASSUME LogInv, Fill, ~failed, inFlight = {}
  PROVE  \A c \in Calls : c < nextCall => c \in Committed
<1>1. CASE at = "starting"
  BY <1>1 DEF LogInv, CommittedIsPrefix
<1>2. CASE at = "committing"
  <2> SUFFICES ASSUME NEW c \in Calls, c < nextCall, c \notin Committed PROVE FALSE
    OBVIOUS
  <2>1. Oldest \in Nat \ {0} /\ Oldest <= c /\ Oldest \notin Committed
    BY OldestIsNat DEF LogInv, PoolInv, CommittedIsPrefix, Calls
  <2>2. Oldest \in Calls /\ Oldest < nextCall /\ Oldest <= group.last
    BY <1>2, <2>1, CallsAssumption DEF LogInv, PoolInv, TypeOK, GroupHoldsUnsettled, Calls
  <2>3. body[Oldest] # "none"
    BY <2>2 DEF LogInv, PoolInv, StartedInOrder
  <2>4. body[Oldest] # "preparing"
    BY <1>2, <2>2 DEF LogInv, PoolInv, OnePrepares
  <2>5. body[Oldest] \notin {"running", "failed"}
    BY <2>2 DEF LogInv, PoolInv, PoolHoldsRunning
  <2>6. body[Oldest] # "committed"
    BY <2>1, <2>2 DEF Committed
  <2>7. body[Oldest] = "settled"
    BY <2>2, <2>3, <2>4, <2>5, <2>6 DEF LogInv, PoolInv, TypeOK
  <2> QED
    BY <2>2, <2>7 DEF Fill, Ready
<1> QED
  BY <1>1, <1>2 DEF Fill

\* A commit appends the result that comes next.
LEMMA CommitKeepsLog == ASSUME LogInv, Commit PROVE LogInv'
<1> SUFFICES ASSUME NEW c, c = Oldest PROVE LogInv'
  OBVIOUS
<1>1. PoolInv /\ PoolInv'
  BY PoolInductive DEF LogInv, Next, Scheduler
<1>2. /\ c \in Calls /\ body[c] = "settled" /\ c < nextCall /\ at = "committing"
      /\ body' = [body EXCEPT ![c] = "committed"] /\ log' = Append(log, Result(c))
      /\ UNCHANGED <<mode, signal, at, group, nextCall, inFlight, failed>>
  BY <1>1, ReadyCall DEF Commit
<1>3. c \in Nat \ {0} /\ Committed = 1..(c - 1) /\ c \notin Committed
  BY <1>1, OldestIsNat DEF LogInv, PoolInv, CommittedIsPrefix
<1>4. Committed' = Committed \cup {c}
  BY <1>1, <1>2 DEF Committed, PoolInv, TypeOK
<1>5. Oldest' = c + 1
  <2>1. IsFiniteSet(Committed)
    BY <1>3, FS_Interval
  <2>2. Cardinality(Committed \cup {c}) = Cardinality(Committed) + 1
    BY <1>3, <2>1, FS_AddElement
  <2>3. Cardinality(Committed) + 1 = c
    BY DEF Oldest
  <2> QED
    BY <1>4, <2>2, <2>3 DEF Oldest
<1>6. CommittedIsPrefix'
  BY <1>2, <1>3, <1>4, <1>5 DEF CommittedIsPrefix
<1>7. \A d \in Calls : /\ Calling(d) \in Logged <=> d < nextCall
                       /\ Result(d) \in Logged <=> d \in Committed
                       /\ Skipped(d) \notin Logged
  <2>1. LogTellsState /\ at # "returned"
    BY <1>2 DEF LogInv
  <2> QED
    BY <2>1 DEF LogTellsState
<1>8. FitsAfter(Result(c), Logged) /\ Result(c) \in Event
  <2>1. Result(c).call = c /\ Result(c) \in Event
    BY <1>2 DEF Result, Event
  <2>2. Calling(c) \in Logged /\ Answers(c) \cap Logged = {}
    BY <1>2, <1>3, <1>7 DEF Answers
  <2>3. c > 1 => Answers(c - 1) \cap Logged # {}
    <3> SUFFICES ASSUME c > 1 PROVE Result(c - 1) \in Logged
      BY DEF Answers
    <3>1. c - 1 \in Calls /\ c - 1 \in Committed
      BY <1>2, <1>3, CallsAssumption DEF Calls
    <3> QED
      BY <1>7, <3>1
  <2> QED
    BY <2>1, <2>2, <2>3 DEF FitsAfter, Answers
<1>9. LogInModelOrder' /\ Logged' = Logged \cup {Result(c)}
  BY <1>1, <1>2, <1>8, AppendFits DEF LogInv, LogReplays, PoolInv, TypeOK, Event
<1>10. LogTellsState'
  <2>1. \A d \in Calls : /\ Calling(d) # Result(c) /\ Skipped(d) # Result(c)
                         /\ Result(d) = Result(c) => d = c
    BY DEF Calling, Result, Skipped
  <2> QED
    BY <1>2, <1>4, <1>7, <1>9, <2>1 DEF LogTellsState
<1>11. ReplayStaysValid'
  <2>1. at' # "returned"
    BY <1>2
  <2> QED
    BY <1>10, <2>1 DEF LogTellsState, ReplayStaysValid
<1> QED
  BY <1>1, <1>6, <1>9, <1>10, <1>11 DEF LogInv, LogReplays

\* Starting a call appends it.
LEMMA StartKeepsLog == ASSUME LogInv, Fill, ~failed, MayStart PROVE LogInv'
<1> SUFFICES ASSUME NEW c, c = nextCall PROVE LogInv'
  OBVIOUS
<1>1. PoolInv /\ PoolInv'
  BY PoolInductive DEF LogInv, Next, Scheduler
<1>2. /\ c <= group.last /\ at \in {"starting", "committing"} /\ at' = "preparing"
      /\ nextCall' = c + 1 /\ body' = [body EXCEPT ![c] = "preparing"]
      /\ log' = Append(log, Calling(c)) /\ UNCHANGED <<signal, group>>
  BY DEF Fill, MayStart
<1>3. c \in Calls /\ body[c] = "none"
  BY <1>1, <1>2, CallsAssumption DEF PoolInv, TypeOK, StartedInOrder, Calls
<1>4. Committed' = Committed /\ Oldest' = Oldest
  <2>1. Committed' = Committed
    BY <1>1, <1>2, <1>3 DEF Committed, PoolInv, TypeOK
  <2> QED
    BY <2>1 DEF Oldest
<1>5. CommittedIsPrefix'
  BY <1>2, <1>4 DEF LogInv, CommittedIsPrefix
<1>6. \A d \in Calls : /\ Calling(d) \in Logged <=> d < c
                       /\ Result(d) \in Logged <=> d \in Committed
                       /\ Skipped(d) \notin Logged
  BY <1>2 DEF LogInv, LogTellsState
<1>7. FitsAfter(Calling(c), Logged) /\ Calling(c) \in Event
  <2>1. Calling(c).call = c /\ Calling(c) \in Event
    BY <1>3 DEF Calling, Event
  <2>2. Calling(c) \notin Logged
    BY <1>3, <1>6 DEF Calls
  <2>3. c > 1 => c - 1 \in Calls /\ c - 1 < c
    BY <1>3, CallsAssumption DEF Calls
  <2> QED
    BY <1>6, <2>1, <2>2, <2>3 DEF FitsAfter
<1>8. LogInModelOrder' /\ Logged' = Logged \cup {Calling(c)}
  BY <1>1, <1>2, <1>7, AppendFits DEF LogInv, LogReplays, PoolInv, TypeOK, Event
<1>9. LogTellsState'
  <2>1. \A d \in Calls : /\ Result(d) # Calling(c) /\ Skipped(d) # Calling(c)
                         /\ Calling(d) = Calling(c) <=> d = c
                         /\ d < c + 1 <=> (d < c \/ d = c)
    BY <1>3 DEF Calling, Result, Skipped, Calls
  <2> QED
    BY <1>2, <1>4, <1>6, <1>8, <2>1 DEF LogTellsState
<1>10. ReplayStaysValid'
  <2>1. at' # "returned"
    BY <1>2
  <2> QED
    BY <1>9, <2>1 DEF LogTellsState, ReplayStaysValid
<1> QED
  BY <1>1, <1>5, <1>8, <1>9, <1>10 DEF LogInv, LogReplays

\* An aborted step gives each call it never started a call and a result.
LEMMA SkipKeepsLog ==
  ASSUME LogInv, Fill, ~failed, ~MayStart, inFlight = {}, signal
  PROVE  LogInv'
<1> DEFINE M == NumCalls + 1 - nextCall
           rest == [i \in 1..(2 * M) |->
                      LET c == nextCall + (i - 1) \div 2
                      IN  IF i % 2 = 1 THEN Calling(c) ELSE Skipped(c)]
<1>1. PoolInv /\ PoolInv' /\ log \in Seq(Event)
  BY PoolInductive DEF LogInv, Next, Scheduler, PoolInv, TypeOK, Event
<1>2. /\ at' = "returned" /\ log' = log \o rest /\ at # "returned"
      /\ UNCHANGED <<signal, nextCall, body>>
  BY DEF Fill, SkipRest
<1>3. /\ nextCall \in Nat /\ nextCall >= 1 /\ M \in Nat /\ nextCall + M = NumCalls + 1
      /\ Calls = 1..NumCalls /\ NumCalls \in Nat
  BY <1>1, CallsAssumption DEF PoolInv, TypeOK, Calls
<1>4. \A i \in 1..(2 * M) : \E q \in 0..(M - 1) :
        \/ i = 2 * q + 1 /\ rest[i] = Calling(nextCall + q)
        \/ i = 2 * q + 2 /\ rest[i] = Skipped(nextCall + q)
  BY <1>3, HalfOf
<1>5. \A q \in 0..(M - 1) :
        /\ 2 * q + 1 \in 1..(2 * M) /\ rest[2 * q + 1] = Calling(nextCall + q)
        /\ 2 * q + 2 \in 1..(2 * M) /\ rest[2 * q + 2] = Skipped(nextCall + q)
  <2> SUFFICES ASSUME NEW q \in 0..(M - 1)
               PROVE  /\ 2 * q + 1 \in 1..(2 * M) /\ rest[2 * q + 1] = Calling(nextCall + q)
                      /\ 2 * q + 2 \in 1..(2 * M) /\ rest[2 * q + 2] = Skipped(nextCall + q)
    OBVIOUS
  <2>1. 2 * q + 1 \in 1..(2 * M) /\ 2 * q + 2 \in 1..(2 * M)
    BY <1>3
  <2>2. /\ ((2 * q + 1) - 1) \div 2 = q /\ (2 * q + 1) % 2 = 1
        /\ ((2 * q + 2) - 1) \div 2 = q /\ (2 * q + 2) % 2 = 0
    BY SMT
  <2> QED
    BY <2>1, <2>2
<1>6. rest \in Seq(Event) /\ Len(rest) = 2 * M /\ 2 * M \in Nat
  <2>1. \A i \in 1..(2 * M) : rest[i] \in Event
    <3> SUFFICES ASSUME NEW i \in 1..(2 * M) PROVE rest[i] \in Event
      OBVIOUS
    <3>1. PICK q \in 0..(M - 1) : rest[i] \in {Calling(nextCall + q), Skipped(nextCall + q)}
      BY <1>4
    <3>2. nextCall + q \in Calls
      BY <1>3
    <3> QED
      BY <3>1, <3>2 DEF Calling, Skipped, Event
  <2>2. rest \in [1..(2 * M) -> Event] /\ 2 * M \in Nat
    BY <1>3, <2>1
  <2> HIDE DEF rest, M
  <2> QED
    BY <2>2
<1> HIDE DEF rest, M
<1>7. \A c \in Calls : /\ Calling(c) \in Logged <=> c < nextCall
                       /\ c < nextCall => Result(c) \in Logged
                       /\ c >= nextCall => Result(c) \notin Logged
                       /\ Skipped(c) \notin Logged
  <2>1. \A c \in Calls : c < nextCall => c \in Committed
    BY GroupIsCommitted
  <2>2. \A c \in Calls : c \in Committed => c < nextCall
    BY <1>1 DEF PoolInv, StartedInOrder, Committed
  <2> QED
    BY <1>2, <1>3, <2>1, <2>2 DEF LogInv, LogTellsState
<1>8. ASSUME NEW i \in 1..(2 * M)
      PROVE  FitsAfter(rest[i], Logged \cup {rest[j] : j \in 1..(i - 1)})
  <2> DEFINE prior == {rest[j] : j \in 1..(i - 1)}
  <2>1. PICK q \in 0..(M - 1) : \/ i = 2 * q + 1 /\ rest[i] = Calling(nextCall + q)
                                \/ i = 2 * q + 2 /\ rest[i] = Skipped(nextCall + q)
    BY <1>4
  <2> SUFFICES ASSUME NEW c, c = nextCall + q PROVE FitsAfter(rest[i], Logged \cup prior)
    OBVIOUS
  <2>2. c \in Calls /\ c \in Nat /\ c >= nextCall /\ ~(c < nextCall)
    BY <1>3
  <2>3. \A j \in 1..(i - 1) : \E r \in 0..(M - 1) :
          \/ j = 2 * r + 1 /\ rest[j] = Calling(nextCall + r)
          \/ j = 2 * r + 2 /\ rest[j] = Skipped(nextCall + r)
    <3>1. \A j \in 1..(i - 1) : j \in 1..(2 * M)
      BY <1>3
    <3> QED
      BY <1>4, <3>1
  <2>4. \A r \in 0..(M - 1) : /\ Calling(nextCall + r) = Calling(c) => r = q
                              /\ Skipped(nextCall + r) = Skipped(c) => r = q
                              /\ Calling(nextCall + r) \notin Answers(c)
                              /\ Skipped(nextCall + r) # Calling(c)
                              /\ Skipped(nextCall + r) # Result(c)
    BY <1>3 DEF Calling, Skipped, Result, Answers
  <2>5. c > 1 /\ q = 0 => c - 1 \in Calls /\ c - 1 < nextCall
    BY <1>3
  <2>6. q > 0 => /\ q - 1 \in 0..(M - 1) /\ nextCall + (q - 1) = c - 1
                 /\ 2 * (q - 1) + 1 \in 1..(i - 1) /\ 2 * (q - 1) + 2 \in 1..(i - 1)
    BY <1>3, <2>1
  <2>7. q > 0 => rest[2 * (q - 1) + 1] = Calling(c - 1) /\ rest[2 * (q - 1) + 2] = Skipped(c - 1)
    BY <1>5, <2>6
  <2>8. q > 0 => Calling(c - 1) \in prior /\ Skipped(c - 1) \in prior
    BY <2>6, <2>7
  <2>9. q = 0 \/ q > 0
    OBVIOUS
  <2>10. CASE i = 2 * q + 1 /\ rest[i] = Calling(c)
    <3>1. Calling(c) \notin prior
      <4> SUFFICES ASSUME NEW j \in 1..(i - 1), rest[j] = Calling(c) PROVE FALSE
        OBVIOUS
      <4>1. PICK r \in 0..(M - 1) : \/ j = 2 * r + 1 /\ rest[j] = Calling(nextCall + r)
                                    \/ j = 2 * r + 2 /\ rest[j] = Skipped(nextCall + r)
        BY <2>3
      <4>2. j = 2 * q + 1
        BY <2>4, <4>1
      <4> QED
        BY <2>10, <4>2
    <3>2. Calling(c) \notin Logged
      BY <1>7, <2>2
    <3>3. c > 1 => Calling(c - 1) \in Logged \cup prior
      BY <1>7, <2>5, <2>8, <2>9
    <3>4. Calling(c).call = c
      BY DEF Calling
    <3> QED
      BY <2>10, <3>1, <3>2, <3>3, <3>4 DEF FitsAfter
  <2>11. CASE i = 2 * q + 2 /\ rest[i] = Skipped(c)
    <3>1. Answers(c) \cap prior = {}
      <4> SUFFICES ASSUME NEW j \in 1..(i - 1), rest[j] \in Answers(c) PROVE FALSE
        OBVIOUS
      <4>1. PICK r \in 0..(M - 1) : \/ j = 2 * r + 1 /\ rest[j] = Calling(nextCall + r)
                                    \/ j = 2 * r + 2 /\ rest[j] = Skipped(nextCall + r)
        BY <2>3
      <4>2. j = 2 * q + 2
        BY <2>4, <4>1 DEF Answers
      <4> QED
        BY <2>11, <4>2
    <3>2. Answers(c) \cap Logged = {}
      BY <1>7, <2>2 DEF Answers
    <3>3. Calling(c) \in prior
      <4>1. 2 * q + 1 \in 1..(i - 1) /\ rest[2 * q + 1] = Calling(c)
        BY <1>5, <2>11
      <4> QED
        BY <4>1
    <3>4. c > 1 => Answers(c - 1) \cap (Logged \cup prior) # {}
      BY <1>7, <2>5, <2>8, <2>9 DEF Answers
    <3>5. Skipped(c).call = c /\ Skipped(c) \in Answers(c)
      BY DEF Skipped, Answers
    <3> HIDE DEF prior
    <3> QED
      BY <2>11, <3>1, <3>2, <3>3, <3>4, <3>5 DEF FitsAfter
  <2> QED
    BY <2>1, <2>10, <2>11
<1>9. LogInModelOrder' /\ Logged' = Logged \cup {rest[j] : j \in 1..(2 * M)}
  <2>1. LogInModelOrder
    BY DEF LogInv, LogReplays
  <2> QED
    BY <1>1, <1>2, <1>6, <1>8, <2>1, RestFits
<1>10. ReplayStaysValid'
  <2>1. \A c \in Calls : Answers(c) \cap Logged' # {}
    <3> SUFFICES ASSUME NEW c \in Calls PROVE Answers(c) \cap Logged' # {}
      OBVIOUS
    <3>1. CASE c < nextCall
      BY <1>7, <1>9, <3>1 DEF Answers
    <3>2. CASE ~(c < nextCall)
      <4>1. c - nextCall \in 0..(M - 1) /\ nextCall + (c - nextCall) = c
        BY <1>3, <3>2
      <4>2. rest[2 * (c - nextCall) + 2] = Skipped(c) /\ 2 * (c - nextCall) + 2 \in 1..(2 * M)
        BY <1>5, <4>1
      <4>3. Skipped(c) \in Logged'
        BY <1>9, <4>2
      <4> QED
        BY <4>3 DEF Answers
    <3> QED
      BY <3>1, <3>2
  <2> QED
    BY <1>2, <2>1 DEF ReplayStaysValid, Answers
<1>11. CommittedIsPrefix' /\ LogTellsState'
  <2>1. Committed' = Committed
    BY <1>2 DEF Committed
  <2>2. Oldest' = Oldest
    BY <2>1 DEF Oldest
  <2> QED
    BY <1>2, <2>1, <2>2 DEF LogInv, CommittedIsPrefix, LogTellsState
<1> QED
  BY <1>1, <1>9, <1>10, <1>11 DEF LogInv, LogReplays

\* No step breaks LogInv.
LEMMA LogInductive == LogInv /\ [Next]_vars => LogInv'
<1> SUFFICES ASSUME LogInv, [Next]_vars PROVE LogInv'
  OBVIOUS
<1>1. PoolInv /\ PoolInv' /\ TypeOK
  BY PoolInductive DEF LogInv, PoolInv
<1>2. CASE UNCHANGED vars \/ Abort \/ Classify \/ CommitFails \/ PrepareFails \/ Race \/ Throw
  BY <1>1, <1>2, LogKept
     DEF vars, Abort, Classify, CommitFails, PrepareFails, Race, Throw
<1>3. ASSUME NEW c \in Calls, RegistryChanges(c) PROVE LogInv'
  BY <1>1, <1>3, LogKept DEF RegistryChanges
<1>4. ASSUME NEW c \in Calls, BodySettles(c) PROVE LogInv'
  <2>1. /\ UNCHANGED <<log, nextCall, signal, at>>
        /\ \A d \in Calls : body'[d] = "committed" <=> body[d] = "committed"
    BY <1>1, <1>4 DEF BodySettles, TypeOK
  <2> QED
    BY <1>1, <2>1, LogKept
<1>5. CASE Prepared
  <2>1. /\ UNCHANGED <<log, nextCall, signal>> /\ at # "returned"
        /\ at' \in {"draining", "committing"}
    BY <1>5 DEF Prepared
  <2>2. body[nextCall - 1] = "preparing"
    BY <1>1, <1>5 DEF Prepared, PoolInv, OnePrepares
  <2>3. \A d \in Calls : body'[d] = "committed" <=> body[d] = "committed"
    BY <1>1, <1>5, <2>2 DEF Prepared, TypeOK
  <2> QED
    BY <1>1, <2>1, <2>3, LogKept
<1>6. CASE Commit
  BY <1>6, CommitKeepsLog
<1>7. CASE Fill /\ (failed \/ (~MayStart /\ inFlight # {}))
  BY <1>1, <1>7, LogKept DEF Fill
<1>8. CASE Fill /\ ~failed /\ MayStart
  BY <1>8, StartKeepsLog
<1>9. CASE Fill /\ ~failed /\ ~MayStart /\ inFlight = {} /\ signal
  BY <1>9, SkipKeepsLog
<1>10. CASE Fill /\ ~failed /\ ~MayStart /\ inFlight = {} /\ ~signal
  <2>1. /\ at' = "classify" /\ at # "returned" /\ UNCHANGED <<log, nextCall, signal, body>>
    BY <1>10 DEF Fill
  <2>2. Committed' = Committed /\ Logged' = Logged
    BY <2>1 DEF Committed, Logged
  <2>3. Oldest' = Oldest
    BY <2>2 DEF Oldest
  <2>4. CommittedIsPrefix'
    BY <1>10, <2>1, <2>2, <2>3, GroupIsCommitted DEF LogInv, CommittedIsPrefix
  <2>5. LogInModelOrder'
    <3>1. \A n \in 1..Len(log) : Before(n)' = Before(n)
      BY <2>1 DEF Before
    <3> QED
      BY <2>1, <3>1 DEF LogInv, LogReplays, LogInModelOrder
  <2> QED
    BY <1>1, <2>1, <2>2, <2>4, <2>5
       DEF LogInv, LogReplays, LogTellsState, ReplayStaysValid
<1>11. CASE AllDone
  <2>1. /\ at = "classify" /\ at' = "returned" /\ nextCall > NumCalls
        /\ UNCHANGED <<log, nextCall, signal, body>>
    BY <1>11 DEF AllDone
  <2>2. Committed' = Committed /\ Logged' = Logged
    BY <2>1 DEF Committed, Logged
  <2>3. Oldest' = Oldest
    BY <2>2 DEF Oldest
  <2>4. \A c \in Calls : Result(c) \in Logged /\ Skipped(c) \notin Logged
    <3>1. \A c \in Calls : c < nextCall
      BY <1>1, <2>1, CallsAssumption DEF TypeOK, Calls
    <3> QED
      BY <2>1, <3>1 DEF LogInv, CommittedIsPrefix, LogTellsState
  <2>5. LogInModelOrder'
    <3>1. \A n \in 1..Len(log) : Before(n)' = Before(n)
      BY <2>1 DEF Before
    <3> QED
      BY <2>1, <3>1 DEF LogInv, LogReplays, LogInModelOrder
  <2>6. ReplayStaysValid'
    BY <2>2, <2>4 DEF ReplayStaysValid, Answers
  <2> QED
    BY <1>1, <2>1, <2>2, <2>3, <2>5, <2>6
       DEF LogInv, LogReplays, LogTellsState, CommittedIsPrefix
<1> QED
  BY <1>2, <1>3, <1>4, <1>5, <1>6, <1>7, <1>8, <1>9, <1>10, <1>11 DEF Next, Scheduler

\* What a step leaves in the log can be replayed: calls and results in the
\* model's order, one result to a call, and a call without a result only in a
\* step that is under way or threw.
THEOREM LogAlwaysReplays == Spec => []LogReplays
<1>1. LogInv => LogReplays
  BY DEF LogInv
<1> QED
  BY <1>1, LogInit, LogInductive, PTL DEF Spec
===============================================================================
