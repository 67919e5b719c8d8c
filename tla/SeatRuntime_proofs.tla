-------------------------- MODULE SeatRuntime_proofs --------------------------
(***************************************************************************)
(* Proofs about SeatRuntime, for any seats, requests and lists: the busy   *)
(* flag tells the work of a seat unless its runs have overlapped, a        *)
(* request resolves only when every seat it named has answered, and the    *)
(* memories hold finished runs, each once, as pairs of entries.            *)
(***************************************************************************)
EXTENDS SeatRuntime, SequenceTheorems, TLAPS

\* The types of the variables that a run goes through.
RunTypes ==
  /\ asked \in [Requests -> SeatLists \cup {<<>>}]
  /\ status \in [Runs -> {"none", "running", "done", "failed", "lost"}]
  /\ reply \in [Requests -> {"none", "awaiting", "resolved", "rejected", "lost"}]
  /\ busy \in [Seats -> BOOLEAN]

\* A request and its runs.  Its runs are the places of its list, those that are
\* running belong to known seats, and while it is awaited none of them has
\* failed or was lost.
Listed(r) ==
  /\ DOMAIN asked[r] \subseteq 1..MaxList
  /\ reply[r] = "none" => \A k \in 1..MaxList : status[<<r, k>>] = "none"
  /\ reply[r] # "none" =>
       \A k \in 1..MaxList : status[<<r, k>>] # "none" <=> k \in DOMAIN asked[r]
  /\ \A k \in 1..MaxList : status[<<r, k>>] = "running" => asked[r][k] \in Seats
  /\ reply[r] = "awaiting" =>
       /\ \A k \in DOMAIN asked[r] : status[<<r, k>>] \in {"running", "done"}
       /\ \E k \in DOMAIN asked[r] : status[<<r, k>>] = "running"
  /\ reply[r] = "resolved" => \A k \in DOMAIN asked[r] : status[<<r, k>>] = "done"

\* A seat and its flag.  That two runs at a time are recorded as an overlap is
\* what makes BusyTellsWork inductive: the end of one run clears the flag, and
\* only then may another still be going on.
Told(s) ==
  /\ busy[s] => Running(s) # {}
  /\ Running(s) # {} /\ s \notin overlap => busy[s]
  /\ \A a, b \in Running(s) : a # b => s \in overlap

WorkInv ==
  /\ RunTypes
  /\ \A r \in Requests : Listed(r)
  /\ \A s \in Seats : Told(s)

------------------------------------------------------------------------------
\* A run is a place of a request.
LEMMA RunIsPlace ==
  ASSUME NEW run \in Runs
  PROVE  /\ run[1] \in Requests /\ run[2] \in 1..MaxList
         /\ run = <<run[1], run[2]>>
  BY DEF Runs

\* At the start nothing runs.
LEMMA WorkInit == Init => WorkInv
<1> SUFFICES ASSUME Init PROVE WorkInv
  OBVIOUS
<1>1. RunTypes
  BY DEF Init, RunTypes
<1>2. \A r \in Requests, k \in 1..MaxList : status[<<r, k>>] = "none"
  BY DEF Init, Runs
<1>3. \A run \in Runs : status[run] = "none"
  BY DEF Init
<1>4. \A s \in Seats : Running(s) = {}
  BY <1>3 DEF Running
<1>5. ASSUME NEW r \in Requests PROVE Listed(r)
  <2>1. asked[r] = <<>> /\ reply[r] = "none" /\ DOMAIN <<>> = {}
    BY DEF Init
  <2> QED
    BY <1>2, <2>1 DEF Listed
<1>6. ASSUME NEW s \in Seats PROVE Told(s)
  BY <1>4 DEF Init, Told
<1> QED
  BY <1>1, <1>5, <1>6 DEF WorkInv

\* A step that touches neither a request, its list nor its runs keeps it sound.
LEMMA ListedDependsOn ==
  ASSUME NEW r \in Requests, Listed(r),
         asked'[r] = asked[r], reply'[r] = reply[r],
         \A k \in 1..MaxList : status'[<<r, k>>] = status[<<r, k>>]
  PROVE  Listed(r)'
  BY DEF Listed

\* The runs in progress after a request was made: those before it, and one for
\* every place of its list.
LEMMA AskRunning ==
  ASSUME WorkInv, NEW request \in Requests, NEW list \in SeatLists, Ask(request, list)
  PROVE  /\ DOMAIN list \subseteq 1..MaxList
         /\ 1 \in DOMAIN list
         /\ \A k \in 1..MaxList : status'[<<request, k>>] =
              IF k \notin DOMAIN list THEN "none"
              ELSE IF list[k] \in Seats THEN "running" ELSE "failed"
         /\ \A r \in Requests, k \in 1..MaxList :
              r # request => status'[<<r, k>>] = status[<<r, k>>]
         /\ \A s \in Seats : Running(s)' =
              Running(s) \cup {<<request, k>> : k \in {j \in DOMAIN list : list[j] = s}}
<1>1. PICK n \in 1..MaxList : DOMAIN list = 1..n
  BY ListsAssumption
<1>2. DOMAIN list \subseteq 1..MaxList /\ 1 \in DOMAIN list
  BY <1>1, ListsAssumption
<1>3. reply[request] = "none"
  BY DEF Ask
<1>4. \A k \in 1..MaxList : status[<<request, k>>] = "none"
  BY <1>3 DEF WorkInv, Listed
<1>5. \A run \in Runs : status'[run] =
        IF run[1] # request \/ run[2] \notin DOMAIN list THEN status[run]
        ELSE IF list[run[2]] \in Seats THEN "running" ELSE "failed"
  BY DEF Ask
<1>6. \A r \in Requests, k \in 1..MaxList :
        <<r, k>> \in Runs /\ <<r, k>>[1] = r /\ <<r, k>>[2] = k
  BY DEF Runs
<1>7. \A k \in 1..MaxList : status'[<<request, k>>] =
        IF k \notin DOMAIN list THEN "none"
        ELSE IF list[k] \in Seats THEN "running" ELSE "failed"
  BY <1>4, <1>5, <1>6
<1>8. \A r \in Requests, k \in 1..MaxList :
        r # request => status'[<<r, k>>] = status[<<r, k>>]
  BY <1>5, <1>6
<1>9. /\ asked'[request] = list
      /\ \A r \in Requests : r # request => asked'[r] = asked[r]
  BY DEF Ask, WorkInv, RunTypes
<1>10. ASSUME NEW s \in Seats
       PROVE  Running(s)' =
                Running(s) \cup {<<request, k>> : k \in {j \in DOMAIN list : list[j] = s}}
  <2>1. ASSUME NEW run \in Running(s)'
        PROVE  \/ run \in Running(s)
               \/ run \in {<<request, k>> : k \in {j \in DOMAIN list : list[j] = s}}
    <3>1. run \in Runs /\ status'[run] = "running" /\ asked'[run[1]][run[2]] = s
      BY <2>1 DEF Running, SeatOf
    <3>2. CASE run[1] = request
      <4>1. run = <<request, run[2]>> /\ run[2] \in 1..MaxList
        BY <3>1, <3>2, RunIsPlace
      <4>2. run[2] \in DOMAIN list
        BY <1>7, <3>1, <4>1
      <4>3. list[run[2]] = s
        BY <1>9, <3>1, <3>2
      <4> QED
        BY <4>1, <4>2, <4>3
    <3>3. CASE run[1] # request
      BY <1>5, <1>9, <3>1, <3>3, RunIsPlace DEF Running, SeatOf
    <3> QED
      BY <3>2, <3>3
  <2>2. ASSUME NEW run \in Running(s) PROVE run \in Running(s)'
    <3>1. run \in Runs /\ status[run] = "running" /\ asked[run[1]][run[2]] = s
      BY <2>2 DEF Running, SeatOf
    <3>2. run[1] # request
      BY <1>4, <3>1, RunIsPlace
    <3> QED
      BY <1>5, <1>9, <3>1, <3>2, RunIsPlace DEF Running, SeatOf
  <2>3. ASSUME NEW k \in DOMAIN list, list[k] = s PROVE <<request, k>> \in Running(s)'
    <3>1. <<request, k>> \in Runs /\ k \in 1..MaxList
      BY <1>2, <1>6
    <3>2. status'[<<request, k>>] = "running"
      BY <1>7, <2>3, <3>1
    <3> QED
      BY <1>9, <2>3, <3>1, <3>2 DEF Running, SeatOf
  <2> QED
    BY <2>1, <2>2, <2>3
<1> QED
  BY <1>2, <1>7, <1>8, <1>10

\* A request is made: its own runs start, and a seat that was at work, or is
\* named twice, has overlapped from then on.
LEMMA AskKeeps ==
  ASSUME WorkInv, NEW request \in Requests, NEW list \in SeatLists, Ask(request, list)
  PROVE  WorkInv'
<1>1. RunTypes'
  <2>1. \A run \in Runs : status'[run] \in {"none", "running", "done", "failed", "lost"}
    BY DEF Ask, WorkInv, RunTypes
  <2>2. status' \in [Runs -> {"none", "running", "done", "failed", "lost"}]
    BY <2>1 DEF Ask
  <2>3. busy' \in [Seats -> BOOLEAN]
    BY DEF Ask, WorkInv, RunTypes
  <2> QED
    BY <2>2, <2>3 DEF Ask, WorkInv, RunTypes
<1>2. Listed(request)'
  <2>1. /\ asked'[request] = list
        /\ reply'[request] =
             IF \A k \in DOMAIN list : list[k] \in Seats THEN "awaiting" ELSE "rejected"
    BY DEF Ask, WorkInv, RunTypes
  <2>2. /\ DOMAIN list \subseteq 1..MaxList
        /\ 1 \in DOMAIN list
        /\ \A k \in 1..MaxList : status'[<<request, k>>] =
             IF k \notin DOMAIN list THEN "none"
             ELSE IF list[k] \in Seats THEN "running" ELSE "failed"
    BY AskRunning
  <2>3. CASE \A k \in DOMAIN list : list[k] \in Seats
    BY <2>1, <2>2, <2>3 DEF Listed
  <2>4. CASE ~\A k \in DOMAIN list : list[k] \in Seats
    BY <2>1, <2>2, <2>4 DEF Listed
  <2> QED
    BY <2>3, <2>4
<1>3. ASSUME NEW r \in Requests, r # request PROVE Listed(r)'
  <2>1. asked'[r] = asked[r] /\ reply'[r] = reply[r]
    BY <1>3 DEF Ask, WorkInv, RunTypes
  <2>2. \A k \in 1..MaxList : status'[<<r, k>>] = status[<<r, k>>]
    BY <1>3, AskRunning
  <2> QED
    BY <2>1, <2>2, ListedDependsOn DEF WorkInv
<1>4. ASSUME NEW s \in Seats PROVE Told(s)'
  <2> DEFINE places == {j \in DOMAIN list : list[j] = s}
  <2>1. Running(s)' = Running(s) \cup {<<request, k>> : k \in places}
    BY AskRunning
  <2>2. busy'[s] = (busy[s] \/ places # {})
    BY DEF Ask
  <2>3. overlap \subseteq overlap'
    BY DEF Ask
  <2>4. Running(s) # {} /\ places # {} => s \in overlap'
    BY DEF Ask
  <2>5. \A j, k \in places : j # k => s \in overlap'
    BY DEF Ask
  <2> HIDE DEF places
  <2>6. Told(s)
    BY DEF WorkInv
  <2>7. busy'[s] => Running(s)' # {}
    BY <2>1, <2>2, <2>6 DEF Told
  <2>8. Running(s)' # {} /\ s \notin overlap' => busy'[s]
    BY <2>1, <2>2, <2>3, <2>6 DEF Told
  <2>9. \A a, b \in Running(s)' : a # b => s \in overlap'
    BY <2>1, <2>3, <2>4, <2>5, <2>6 DEF Told
  <2> QED
    BY <2>7, <2>8, <2>9 DEF Told
<1> QED
  BY <1>1, <1>2, <1>3, <1>4 DEF WorkInv

\* A promise that was decided stays so.
LEMMA SettledStays ==
  ASSUME NEW request, NEW old, NEW new, old # "awaiting"
  PROVE  Settled(request, old, new) = old
  BY DEF Settled

\* A run ends, well or badly: the flag of its seat is cleared, its request
\* settles if this decides it.
LEMMA EndKeeps ==
  ASSUME WorkInv, NEW run \in Runs, NEW result \in {"done", "failed"},
         status[run] = "running", End(run, result)
  PROVE  WorkInv'
<1>1. PICK r, seat :
        /\ r = run[1] /\ seat = SeatOf(run)
        /\ r \in Requests /\ run[2] \in 1..MaxList /\ run = <<r, run[2]>>
        /\ asked[r][run[2]] = seat
  BY RunIsPlace DEF SeatOf
<1>2. /\ seat \in Seats
      /\ reply[r] # "none"
      /\ run[2] \in DOMAIN asked[r]
  <2>1. status[<<r, run[2]>>] = "running"
    BY <1>1
  <2> QED
    BY <1>1, <2>1 DEF WorkInv, Listed
<1>3. /\ status' = [status EXCEPT ![run] = result]
      /\ reply' = [reply EXCEPT ![r] = Settled(r, reply[r], status')]
      /\ busy' = [busy EXCEPT ![seat] = FALSE]
      /\ overlap' = IF Running(seat) = {run} THEN overlap \ {seat} ELSE overlap
      /\ asked' = asked
  BY <1>1 DEF End
<1>4. /\ status'[run] = result
      /\ \A other \in Runs : other # run => status'[other] = status[other]
  BY <1>3 DEF WorkInv, RunTypes
<1>5. /\ reply'[r] = Settled(r, reply[r], status')
      /\ \A q \in Requests : q # r => reply'[q] = reply[q]
  BY <1>1, <1>3 DEF WorkInv, RunTypes
<1>6. RunsOf(r) = {<<r, k>> : k \in DOMAIN asked[r]}
  <2>1. DOMAIN asked[r] \subseteq 1..MaxList
    BY <1>1 DEF WorkInv, Listed
  <2>2. \A k \in 1..MaxList : status[<<r, k>>] # "none" <=> k \in DOMAIN asked[r]
    BY <1>1, <1>2 DEF WorkInv, Listed
  <2>3. \A k \in 1..MaxList : <<r, k>> \in Runs /\ <<r, k>>[1] = r
    BY <1>1 DEF Runs
  <2>4. ASSUME NEW other \in RunsOf(r) PROVE \E k \in DOMAIN asked[r] : other = <<r, k>>
    BY <2>2, <2>4, RunIsPlace DEF RunsOf
  <2>5. ASSUME NEW k \in DOMAIN asked[r] PROVE <<r, k>> \in RunsOf(r)
    BY <2>1, <2>2, <2>3 DEF RunsOf
  <2> QED
    BY <2>4, <2>5
<1>7. Listed(r)'
  <2>1. /\ DOMAIN asked[r] \subseteq 1..MaxList
        /\ \A k \in 1..MaxList : status[<<r, k>>] # "none" <=> k \in DOMAIN asked[r]
        /\ \A k \in 1..MaxList : status[<<r, k>>] = "running" => asked[r][k] \in Seats
    BY <1>1, <1>2 DEF WorkInv, Listed
  <2>2. \A k \in 1..MaxList :
          status'[<<r, k>>] = IF k = run[2] THEN result ELSE status[<<r, k>>]
    <3>1. \A k \in 1..MaxList : <<r, k>> \in Runs /\ (<<r, k>> = run <=> k = run[2])
      BY <1>1 DEF Runs
    <3> QED
      BY <1>4, <3>1
  <2>3. reply'[r] # "none"
    <3>1. CASE reply[r] # "awaiting"
      BY <1>2, <1>5, <3>1, SettledStays
    <3>2. CASE reply[r] = "awaiting"
      BY <1>5, <3>2 DEF Settled
    <3> QED
      BY <3>1, <3>2
  <2>4. reply'[r] = "awaiting" =>
          /\ \A k \in DOMAIN asked[r] : status'[<<r, k>>] \in {"running", "done"}
          /\ \E k \in DOMAIN asked[r] : status'[<<r, k>>] = "running"
    <3> SUFFICES ASSUME reply'[r] = "awaiting"
                 PROVE  /\ \A k \in DOMAIN asked[r] : status'[<<r, k>>] \in {"running", "done"}
                        /\ \E k \in DOMAIN asked[r] : status'[<<r, k>>] = "running"
      OBVIOUS
    <3>1. reply[r] = "awaiting"
      BY <1>5, SettledStays
    <3>2. ~(\E other \in RunsOf(r) : status'[other] = "failed")
      BY <1>5, <3>1 DEF Settled
    <3>3. ~(\A other \in RunsOf(r) : status'[other] = "done")
      BY <1>5, <3>1, <3>2 DEF Settled
    <3>4. \A k \in DOMAIN asked[r] : status[<<r, k>>] \in {"running", "done"}
      BY <1>1, <3>1 DEF WorkInv, Listed
    <3>5. \A k \in DOMAIN asked[r] : status'[<<r, k>>] \in {"running", "done"}
      BY <1>6, <2>1, <2>2, <3>2, <3>4
    <3> QED
      BY <1>6, <3>3, <3>5
  <2>5. reply'[r] = "resolved" => \A k \in DOMAIN asked[r] : status'[<<r, k>>] = "done"
    <3> SUFFICES ASSUME reply'[r] = "resolved"
                 PROVE  \A k \in DOMAIN asked[r] : status'[<<r, k>>] = "done"
      OBVIOUS
    <3>1. reply[r] # "resolved"
      BY <1>1, <1>2 DEF WorkInv, Listed
    <3>2. reply[r] = "awaiting"
      BY <1>5, <3>1, SettledStays
    <3>3. \A other \in RunsOf(r) : status'[other] = "done"
      BY <1>5, <3>2 DEF Settled
    <3> QED
      BY <1>6, <3>3
  <2> QED
    BY <1>3, <2>1, <2>2, <2>3, <2>4, <2>5 DEF Listed
<1>8. ASSUME NEW q \in Requests, q # r PROVE Listed(q)'
  <2>1. \A k \in 1..MaxList : <<q, k>> \in Runs /\ <<q, k>> # run
    BY <1>1, <1>8 DEF Runs
  <2> QED
    BY <1>3, <1>4, <1>5, <1>8, <2>1, ListedDependsOn DEF WorkInv
<1>9. RunTypes'
  <2>1. reply'[r] \in {"none", "awaiting", "resolved", "rejected", "lost"}
    BY <1>1, <1>5 DEF Settled, WorkInv, RunTypes
  <2> QED
    BY <1>1, <1>3, <1>4, <1>5, <2>1 DEF WorkInv, RunTypes
<1>10. \A s \in Seats : Running(s)' = Running(s) \ {run}
  BY <1>3, <1>4 DEF Running, SeatOf
<1>11. Told(seat)'
  <2>1. run \in Running(seat)
    BY <1>1 DEF Running
  <2>2. busy'[seat] = FALSE
    BY <1>2, <1>3 DEF WorkInv, RunTypes
  <2>3. CASE Running(seat) = {run}
    BY <1>2, <1>10, <2>2, <2>3 DEF Told
  <2>4. CASE Running(seat) # {run}
    <3>1. PICK other \in Running(seat) : other # run
      BY <2>1, <2>4
    <3>2. seat \in overlap'
      BY <1>2, <1>3, <2>1, <2>4, <3>1 DEF WorkInv, Told
    <3> QED
      BY <2>2, <3>2 DEF Told
  <2> QED
    BY <2>3, <2>4
<1>12. ASSUME NEW s \in Seats, s # seat PROVE Told(s)'
  <2>1. run \notin Running(s)
    BY <1>1, <1>12 DEF Running
  <2>2. Running(s)' = Running(s)
    BY <1>10, <2>1
  <2>3. busy'[s] = busy[s] /\ (s \in overlap' <=> s \in overlap)
    BY <1>3, <1>12 DEF WorkInv, RunTypes
  <2> QED
    BY <2>2, <2>3 DEF WorkInv, Told
<1> QED
  BY <1>7, <1>8, <1>9, <1>11, <1>12 DEF WorkInv

\* What these variables say is kept where they stay as they are.
LEMMA WorkDependsOn ==
  ASSUME WorkInv, UNCHANGED <<asked, status, reply, busy, overlap>>
  PROVE  WorkInv'
<1>1. RunTypes'
  BY DEF WorkInv, RunTypes
<1>2. ASSUME NEW r \in Requests PROVE Listed(r)'
  BY ListedDependsOn DEF WorkInv
<1>3. \A s \in Seats : Running(s)' = Running(s)
  BY DEF Running, SeatOf
<1>4. ASSUME NEW s \in Seats PROVE Told(s)'
  BY <1>3 DEF WorkInv, Told
<1> QED
  BY <1>1, <1>2, <1>4 DEF WorkInv

\* The platform is built anew: nothing runs and no flag is set.
LEMMA RestartKeeps ==
  ASSUME WorkInv, Restart
  PROVE  WorkInv'
<1>1. \A run \in Runs :
        status'[run] = IF status[run] = "running" THEN "lost" ELSE status[run]
  BY DEF Restart
<1>2. \A r \in Requests :
        reply'[r] = IF reply[r] = "awaiting" THEN "lost" ELSE reply[r]
  BY DEF Restart
<1>3. asked' = asked
  BY DEF Restart
<1>4. RunTypes'
  <2>1. \A run \in Runs : status'[run] \in {"none", "running", "done", "failed", "lost"}
    BY <1>1 DEF WorkInv, RunTypes
  <2>2. status' \in [Runs -> {"none", "running", "done", "failed", "lost"}]
    BY <2>1 DEF Restart
  <2>3. \A r \in Requests :
          reply'[r] \in {"none", "awaiting", "resolved", "rejected", "lost"}
    BY <1>2 DEF WorkInv, RunTypes
  <2>4. reply' \in [Requests -> {"none", "awaiting", "resolved", "rejected", "lost"}]
    BY <2>3 DEF Restart
  <2> QED
    BY <1>3, <2>2, <2>4 DEF Restart, WorkInv, RunTypes
<1>5. ASSUME NEW r \in Requests PROVE Listed(r)'
  <2>1. \A k \in 1..MaxList : status'[<<r, k>>] =
          IF status[<<r, k>>] = "running" THEN "lost" ELSE status[<<r, k>>]
    BY <1>1 DEF Runs
  <2> QED
    BY <1>2, <1>3, <2>1 DEF WorkInv, Listed
<1>6. \A s \in Seats : Running(s)' = {}
  BY <1>1 DEF Running
<1>7. \A s \in Seats : busy'[s] = FALSE
  BY DEF Restart
<1>8. ASSUME NEW s \in Seats PROVE Told(s)'
  BY <1>6, <1>7 DEF Told
<1> QED
  BY <1>4, <1>5, <1>8 DEF WorkInv

\* Every step keeps what is known of the work.
LEMMA WorkStep ==
  ASSUME WorkInv, [Next]_vars
  PROVE  WorkInv'
<1>1. CASE \E request \in Requests, list \in SeatLists : Ask(request, list)
  BY <1>1, AskKeeps
<1>2. CASE \E run \in Runs : Answered(run) \/ Failed(run)
  <2>1. PICK run \in Runs : Answered(run) \/ Failed(run)
    BY <1>2
  <2>2. status[run] = "running" /\ (End(run, "done") \/ End(run, "failed"))
    BY <2>1 DEF Answered, Failed
  <2> QED
    BY <2>2, EndKeeps
<1>3. CASE IdleTickAll
  BY <1>3, WorkDependsOn DEF IdleTickAll
<1>4. CASE \E seat \in Seats : Persist(seat) \/ Restore(seat)
  BY <1>4, WorkDependsOn DEF Persist, Restore
<1>5. CASE Restart
  BY <1>5, RestartKeeps
<1>6. CASE UNCHANGED vars
  BY <1>6, WorkDependsOn DEF vars
<1> QED
  BY <1>1, <1>2, <1>3, <1>4, <1>5, <1>6 DEF Next

\* WorkInv is an invariant.
THEOREM WorkInvariant == Spec => []WorkInv
  BY WorkInit, WorkStep, PTL DEF Spec

------------------------------------------------------------------------------
\* AgentRuntime.busy: the flag never claims work where there is none, and tells
\* all there is unless runs of the seat have overlapped.
THEOREM BusyIsTold == Spec => []BusyTellsWork
<1>1. WorkInv => BusyTellsWork
  BY DEF WorkInv, Told, BusyTellsWork
<1> QED
  BY <1>1, WorkInvariant, PTL

\* Platform.generatePlans: a request resolves only when every seat it named has
\* answered, and is awaited only while one of them has not.
THEOREM ResolvedIsComplete == Spec => []ResolvedMeansAllDone
<1>1. WorkInv => ResolvedMeansAllDone
  BY DEF WorkInv, Listed, ResolvedMeansAllDone
<1> QED
  BY <1>1, WorkInvariant, PTL

\* Platform.idleTickAll: only a seat whose runs have overlapped is taken for
\* idle while it works.
THEOREM PushesNeedOverlap == Spec => PushAtWorkNeedsOverlap
<1> DEFINE Pushed == \A s \in Seats :
       [from |-> s, working |-> TRUE] \in pushes' \ pushes => s \in overlap
<1>1. ASSUME WorkInv, [Next]_vars PROVE [Pushed]_vars
  <2>1. CASE IdleTickAll
    <3> SUFFICES ASSUME NEW s \in Seats,
                        [from |-> s, working |-> TRUE] \in pushes' \ pushes
                 PROVE  s \in overlap
      OBVIOUS
    <3>1. PICK t \in Seats : /\ ~busy[t]
                             /\ [from |-> s, working |-> TRUE]
                                  = [from |-> t, working |-> Running(t) # {}]
      BY <2>1 DEF IdleTickAll
    <3>2. ~busy[s] /\ Running(s) # {}
      BY <3>1
    <3> QED
      BY <1>1, <3>2 DEF WorkInv, Told
  <2>2. CASE pushes' \subseteq pushes
    BY <2>2
  <2>3. CASE UNCHANGED vars
    BY <2>3 DEF vars
  <2> QED
    BY <1>1, <2>1, <2>2, <2>3
       DEF Next, Ask, Answered, Failed, End, Persist, Restore, Restart
<1> QED
  BY <1>1, WorkInvariant, PTL DEF Spec, PushAtWorkNeedsOverlap

------------------------------------------------------------------------------
\* What the memory m of seat s holds: finished runs of it, as pairs, each once.
HoldsRuns(m, s) ==
  LET firsts == {i \in DOMAIN m : i % 2 = 1}
  IN  /\ \A i \in firsts :
           /\ i + 1 \in DOMAIN m
           /\ <<m[i], m[i + 1]>> = Remembered(m[i].run)
           /\ status[m[i].run] = "done" /\ SeatOf(m[i].run) = s
      /\ \A i, j \in firsts : m[i].run = m[j].run => i = j

\* The memories and the files that were saved.
MemoryInv ==
  /\ memory \in [Seats -> Seq(Entry)]
  /\ saved \in [Seats -> SUBSET Seq(Entry)]
  /\ \A s \in Seats : \A m, n \in saved[s] : m = n
  /\ \A s \in Seats : \A m \in {memory[s]} \cup saved[s] : HoldsRuns(m, s)
  /\ pushes \subseteq [from : Seats, working : BOOLEAN]
  /\ overlap \subseteq Seats

\* An empty memory holds no run.
LEMMA EmptyHolds == \A s : HoldsRuns(<<>>, s)
<1>1. DOMAIN <<>> = {}
  OBVIOUS
<1> QED
  BY <1>1 DEF HoldsRuns

\* The step keeps the finished runs finished, and theirs the seats they were of.
Finished ==
  \A run \in Runs : status[run] = "done" => /\ status'[run] = "done"
                                            /\ SeatOf(run)' = SeatOf(run)

\* A memory still holds what it held when finished runs stay so.
LEMMA HoldsStays ==
  ASSUME NEW s, NEW m \in Seq(Entry), HoldsRuns(m, s), Finished
  PROVE  HoldsRuns(m, s)'
<1>1. ASSUME NEW i \in DOMAIN m PROVE m[i].run \in Runs
  <2>1. m[i] \in Entry
    OBVIOUS
  <2> QED
    BY <2>1 DEF Entry
<1>2. \A i \in {i \in DOMAIN m : i % 2 = 1} :
        status'[m[i].run] = "done" /\ SeatOf(m[i].run)' = s
  BY <1>1 DEF HoldsRuns, Finished
<1> QED
  BY <1>2 DEF HoldsRuns, Remembered

\* What a sequence is when two elements are added.
LEMMA TwoMore ==
  ASSUME NEW S, NEW m \in Seq(S), NEW r \in Seq(S), Len(r) = 2
  PROVE  /\ m \o r \in Seq(S)
         /\ DOMAIN (m \o r) = 1..(Len(m) + 2)
         /\ \A i \in 1..Len(m) : (m \o r)[i] = m[i]
         /\ (m \o r)[Len(m) + 1] = r[1]
         /\ (m \o r)[Len(m) + 2] = r[2]
<1>a. /\ m \o r \in Seq(S) /\ Len(m \o r) = Len(m) + Len(r)
      /\ \A i \in 1 .. Len(m) + Len(r) : (m \o r)[i] =
                  IF i <= Len(m) THEN m[i] ELSE r[i - Len(m)]
  BY ConcatProperties
<1>1. Len(m) \in Nat /\ m \o r \in Seq(S) /\ Len(m \o r) = Len(m) + 2
  BY <1>a
<1>2. DOMAIN (m \o r) = 1..(Len(m) + 2)
  BY <1>1
<1>3. \A i \in 1..(Len(m) + 2) :
        (m \o r)[i] = IF i <= Len(m) THEN m[i] ELSE r[i - Len(m)]
  BY <1>1, <1>a
<1>4. (m \o r)[Len(m) + 1] = r[1] /\ (m \o r)[Len(m) + 2] = r[2]
  <2>1. (Len(m) + 1) - Len(m) = 1 /\ (Len(m) + 2) - Len(m) = 2
    BY <1>1
  <2>2. Len(m) + 1 \in 1..(Len(m) + 2) /\ Len(m) + 2 \in 1..(Len(m) + 2)
    BY <1>1
  <2>3. ~(Len(m) + 1 <= Len(m)) /\ ~(Len(m) + 2 <= Len(m))
    BY <1>1
  <2> QED
    BY <1>3, <2>1, <2>2, <2>3
<1>5. \A i \in 1..Len(m) : i \in 1..(Len(m) + 2) /\ i <= Len(m)
  BY <1>1
<1> QED
  BY <1>1, <1>2, <1>3, <1>4, <1>5

\* A run that has just finished adds a pair of its own.
LEMMA HoldsMore ==
  ASSUME NEW s, NEW m \in Seq(Entry), HoldsRuns(m, s), Finished,
         NEW run \in Runs, status[run] # "done", status'[run] = "done",
         SeatOf(run)' = s
  PROVE  /\ m \o Remembered(run) \in Seq(Entry)
         /\ HoldsRuns(m \o Remembered(run), s)'
<1> DEFINE n == Len(m)
           all == m \o Remembered(run)
<1>1. HoldsRuns(m, s)'
  BY HoldsStays
<1>2. /\ Remembered(run) \in Seq(Entry) /\ Len(Remembered(run)) = 2
      /\ Remembered(run)[1].run = run
      /\ Remembered(run) = <<Remembered(run)[1], Remembered(run)[2]>>
  BY DEF Remembered, Entry
<1>3. n \in Nat /\ DOMAIN m = 1..n
  OBVIOUS
<1>4. n % 2 = 0
  <2>1. \A i \in 1..n : i % 2 = 1 => i + 1 \in 1..n
    BY <1>3 DEF HoldsRuns
  <2>2. n % 2 # 1
    BY <1>3, <2>1
  <2> QED
    BY <1>3, <2>2
<1>5. /\ all \in Seq(Entry)
      /\ DOMAIN all = 1..(n + 2)
      /\ \A i \in 1..n : all[i] = m[i]
      /\ all[n + 1] = Remembered(run)[1]
      /\ all[n + 2] = Remembered(run)[2]
  BY <1>2, TwoMore
<1>6. (n + 1) % 2 = 1 /\ (n + 2) % 2 = 0
  BY <1>3, <1>4
<1> DEFINE old   == {i \in DOMAIN m : i % 2 = 1}
           firsts == {i \in DOMAIN all : i % 2 = 1}
<1>7. firsts = old \cup {n + 1}
  <2>1. 1..(n + 2) = 1..n \cup {n + 1, n + 2} /\ n + 1 # n + 2
    BY <1>3
  <2> HIDE DEF all
  <2>2. \A i : i \in firsts <=> i \in 1..(n + 2) /\ i % 2 = 1
    BY <1>5
  <2>3. \A i : i \in old <=> i \in 1..n /\ i % 2 = 1
    BY <1>3
  <2>4. (n + 1) % 2 = 1 /\ (n + 2) % 2 # 1
    BY <1>3, <1>6
  <2> QED
    BY <2>1, <2>2, <2>3, <2>4, Zenon
<1>8. ASSUME NEW i \in old
      PROVE  /\ i + 1 \in DOMAIN m
             /\ all[i] = m[i] /\ all[i + 1] = m[i + 1]
             /\ <<m[i], m[i + 1]>> = Remembered(m[i].run)
             /\ status'[m[i].run] = "done" /\ SeatOf(m[i].run)' = s
             /\ m[i].run # run
  <2>1. /\ i + 1 \in DOMAIN m
        /\ <<m[i], m[i + 1]>> = Remembered(m[i].run)
        /\ status[m[i].run] = "done"
    BY DEF HoldsRuns
  <2>2. status'[m[i].run] = "done" /\ SeatOf(m[i].run)' = s
    BY <1>1 DEF HoldsRuns
  <2> QED
    BY <1>3, <1>5, <2>1, <2>2
<1>9. ASSUME NEW i \in firsts
      PROVE  /\ i + 1 \in DOMAIN all
             /\ <<all[i], all[i + 1]>> = Remembered(all[i].run)
             /\ status'[all[i].run] = "done" /\ SeatOf(all[i].run)' = s
  <2>1. CASE i \in old
    BY <1>3, <1>5, <1>8, <2>1
  <2>2. CASE i = n + 1
    <3>1. i + 1 = n + 2
      BY <1>3, <2>2
    <3> QED
      BY <1>2, <1>3, <1>5, <2>2, <3>1
  <2> QED
    BY <1>7, <2>1, <2>2
<1>10. ASSUME NEW i \in firsts, NEW j \in firsts, all[i].run = all[j].run
       PROVE  i = j
  <2>1. all[n + 1].run = run
    BY <1>2, <1>5
  <2>2. \A k \in old : all[k].run = m[k].run /\ m[k].run # run
    BY <1>8
  <2>3. \A k, l \in old : m[k].run = m[l].run => k = l
    BY DEF HoldsRuns
  <2> QED
    BY <1>7, <1>10, <2>1, <2>2, <2>3
<1>11. \A i : Remembered(i)' = Remembered(i)
  BY DEF Remembered
<1> QED
  BY <1>5, <1>9, <1>10 DEF HoldsRuns, Remembered

\* At the start there is nothing to remember.
LEMMA MemoryInit == Init => MemoryInv
<1> SUFFICES ASSUME Init PROVE MemoryInv
  OBVIOUS
<1>1. \A s \in Seats : memory[s] = <<>> /\ saved[s] = {}
  BY DEF Init
<1>2. <<>> \in Seq(Entry)
  OBVIOUS
<1> QED
  BY <1>1, <1>2, EmptyHolds DEF Init, MemoryInv

\* A step that leaves the memories and the files alone.
LEMMA MemoryDependsOn ==
  ASSUME MemoryInv, Finished, memory' = memory, saved' = saved,
         pushes' \subseteq [from : Seats, working : BOOLEAN], overlap' \subseteq Seats
  PROVE  MemoryInv'
<1>1. ASSUME NEW s \in Seats, NEW m \in {memory[s]} \cup saved[s]
      PROVE  HoldsRuns(m, s)'
  <2>1. m \in Seq(Entry) /\ HoldsRuns(m, s)
    BY DEF MemoryInv
  <2> QED
    BY <2>1, HoldsStays
<1> QED
  BY <1>1 DEF MemoryInv

\* Every step keeps the memories and files.
LEMMA MemoryStep ==
  ASSUME WorkInv, MemoryInv, [Next]_vars
  PROVE  MemoryInv'
<1>1. ASSUME NEW request \in Requests, NEW list \in SeatLists, Ask(request, list)
      PROVE  MemoryInv'
  <2>1. Finished
    <3> SUFFICES ASSUME NEW run \in Runs, status[run] = "done"
                 PROVE  status'[run] = "done" /\ SeatOf(run)' = SeatOf(run)
      BY DEF Finished
    <3>1. run[1] \in Requests /\ run[2] \in 1..MaxList /\ run = <<run[1], run[2]>>
      BY RunIsPlace
    <3>2. \A k \in 1..MaxList : status[<<request, k>>] = "none"
      BY <1>1 DEF Ask, WorkInv, Listed
    <3>3. run[1] # request
      BY <3>1, <3>2
    <3>4. status'[run] = status[run]
      BY <1>1, <3>3 DEF Ask
    <3>5. asked'[run[1]] = asked[run[1]]
      BY <1>1, <3>1, <3>3 DEF Ask, WorkInv, RunTypes
    <3> QED
      BY <3>4, <3>5 DEF SeatOf
  <2>2. overlap' \subseteq Seats
    BY <1>1 DEF Ask, MemoryInv
  <2> QED
    BY <1>1, <2>1, <2>2, MemoryDependsOn DEF Ask, MemoryInv
<1>2. ASSUME NEW run \in Runs, NEW result \in {"done", "failed"},
             status[run] = "running", End(run, result)
      PROVE  /\ Finished /\ overlap' \subseteq Seats /\ SeatOf(run)' = SeatOf(run)
             /\ status'[run] = result /\ SeatOf(run) \in Seats
             /\ saved' = saved /\ pushes' = pushes
  <2>1. run[1] \in Requests /\ run[2] \in 1..MaxList /\ run = <<run[1], run[2]>>
    BY RunIsPlace
  <2>2. SeatOf(run) \in Seats
    <3>1. status[<<run[1], run[2]>>] = "running"
      BY <1>2, <2>1
    <3> QED
      BY <2>1, <3>1 DEF WorkInv, Listed, SeatOf
  <2>3. /\ status' = [status EXCEPT ![run] = result] /\ asked' = asked
        /\ saved' = saved /\ pushes' = pushes
        /\ overlap' = IF Running(SeatOf(run)) = {run} THEN overlap \ {SeatOf(run)}
                      ELSE overlap
    BY <1>2 DEF End
  <2>4. status'[run] = result
    BY <2>3 DEF WorkInv, RunTypes
  <2>5. Finished
    BY <1>2, <2>3 DEF Finished, SeatOf, WorkInv, RunTypes
  <2> QED
    BY <2>2, <2>3, <2>4, <2>5 DEF MemoryInv, SeatOf
<1>3. ASSUME NEW run \in Runs, Answered(run) PROVE MemoryInv'
  <2>1. status[run] = "running" /\ End(run, "done")
    BY <1>3 DEF Answered
  <2>2. /\ Finished /\ overlap' \subseteq Seats /\ SeatOf(run)' = SeatOf(run)
        /\ status'[run] = "done" /\ SeatOf(run) \in Seats
        /\ saved' = saved /\ pushes' = pushes
    BY <1>2, <2>1
  <2>a. PICK seat, old, more :
          seat = SeatOf(run) /\ old = memory[seat] /\ more = old \o Remembered(run)
    OBVIOUS
  <2>3. memory' = [memory EXCEPT ![seat] = more]
    BY <1>3, <2>a DEF Answered
  <2>4. old \in Seq(Entry) /\ HoldsRuns(old, seat)
    BY <2>2, <2>a DEF MemoryInv
  <2>b. SeatOf(run)' = seat /\ status[run] # "done"
    BY <2>1, <2>2, <2>a
  <2>5. more \in Seq(Entry) /\ HoldsRuns(more, seat)'
    BY <2>2, <2>4, <2>a, <2>b, HoldsMore
  <2>6. ASSUME NEW s \in Seats, NEW m \in {memory'[s]} \cup saved[s]
        PROVE  HoldsRuns(m, s)'
    <3>1. CASE m \in {memory[s]} \cup saved[s]
      <4>1. m \in Seq(Entry) /\ HoldsRuns(m, s)
        BY <3>1 DEF MemoryInv
      <4> QED
        BY <2>2, <4>1, HoldsStays
    <3>2. CASE s = seat /\ m = more
      BY <2>5, <3>2
    <3>3. memory'[s] = IF s = seat THEN more ELSE memory[s]
      BY <2>3 DEF MemoryInv
    <3> QED
      BY <3>1, <3>2, <3>3
  <2>7. memory' \in [Seats -> Seq(Entry)]
    BY <2>3, <2>5 DEF MemoryInv
  <2> QED
    BY <2>2, <2>6, <2>7 DEF MemoryInv
<1>4. ASSUME NEW run \in Runs, Failed(run) PROVE MemoryInv'
  <2>1. status[run] = "running" /\ End(run, "failed") /\ memory' = memory
    BY <1>4 DEF Failed
  <2>2. Finished /\ overlap' \subseteq Seats /\ saved' = saved /\ pushes' = pushes
    BY <1>2, <2>1
  <2> QED
    BY <2>1, <2>2, MemoryDependsOn DEF MemoryInv
<1>5. CASE IdleTickAll
  <2>1. pushes' \subseteq [from : Seats, working : BOOLEAN]
    <3>1. \A s \in Seats :
            [from |-> s, working |-> Running(s) # {}] \in [from : Seats, working : BOOLEAN]
      OBVIOUS
    <3>2. pushes \subseteq [from : Seats, working : BOOLEAN]
      BY DEF MemoryInv
    <3>3. \A p \in pushes' : p \in pushes
            \/ \E s \in Seats : p = [from |-> s, working |-> Running(s) # {}]
      BY <1>5 DEF IdleTickAll
    <3> QED
      BY <3>1, <3>2, <3>3, Zenon
  <2>2. Finished
    BY <1>5 DEF IdleTickAll, Finished, SeatOf
  <2> QED
    BY <1>5, <2>1, <2>2, MemoryDependsOn DEF IdleTickAll, MemoryInv
<1>6. ASSUME NEW seat \in Seats, Persist(seat) PROVE MemoryInv'
  <2>1. Finished
    BY <1>6 DEF Persist, Finished, SeatOf
  <2>2. /\ saved' = [saved EXCEPT ![seat] = {memory[seat]}]
        /\ memory' = memory /\ pushes' = pushes /\ overlap' = overlap
    BY <1>6 DEF Persist
  <2>3. \A s \in Seats : saved'[s] = IF s = seat THEN {memory[s]} ELSE saved[s]
    BY <2>2 DEF MemoryInv
  <2>4. ASSUME NEW s \in Seats, NEW m \in {memory[s]} \cup saved'[s]
        PROVE  HoldsRuns(m, s)'
    <3>1. m \in {memory[s]} \cup saved[s]
      BY <2>3
    <3>2. m \in Seq(Entry) /\ HoldsRuns(m, s)
      BY <3>1 DEF MemoryInv
    <3> QED
      BY <2>1, <3>2, HoldsStays
  <2>5. saved' \in [Seats -> SUBSET Seq(Entry)]
    BY <2>2 DEF MemoryInv
  <2>6. \A s \in Seats : \A m, n \in saved'[s] : m = n
    BY <2>3 DEF MemoryInv
  <2> QED
    BY <2>2, <2>4, <2>5, <2>6 DEF MemoryInv
<1>7. ASSUME NEW seat \in Seats, Restore(seat) PROVE MemoryInv'
  <2>1. Finished
    BY <1>7 DEF Restore, Finished, SeatOf
  <2>2. PICK file \in saved[seat] : memory' = [memory EXCEPT ![seat] = file]
    BY <1>7 DEF Restore
  <2>3. saved' = saved /\ pushes' = pushes /\ overlap' = overlap
    BY <1>7 DEF Restore
  <2>4. ASSUME NEW s \in Seats, NEW m \in {memory'[s]} \cup saved[s]
        PROVE  HoldsRuns(m, s)'
    <3>1. m \in {memory[s]} \cup saved[s]
      BY <2>2 DEF MemoryInv
    <3>2. m \in Seq(Entry) /\ HoldsRuns(m, s)
      BY <3>1 DEF MemoryInv
    <3> QED
      BY <2>1, <3>2, HoldsStays
  <2>5. memory' \in [Seats -> Seq(Entry)]
    BY <2>2 DEF MemoryInv
  <2> QED
    BY <2>3, <2>4, <2>5 DEF MemoryInv
<1>8. CASE Restart
  <2>1. Finished
    BY <1>8 DEF Restart, Finished, SeatOf
  <2>2. /\ memory' = [s \in Seats |-> <<>>] /\ saved' = saved
        /\ pushes' = {} /\ overlap' = {}
    BY <1>8 DEF Restart
  <2>3. ASSUME NEW s \in Seats, NEW m \in {memory'[s]} \cup saved[s]
        PROVE  HoldsRuns(m, s)'
    <3>1. CASE m = <<>>
      <4>1. DOMAIN <<>> = {}
        OBVIOUS
      <4> QED
        BY <3>1, <4>1 DEF HoldsRuns
    <3>2. CASE m \in saved[s]
      <4>1. m \in Seq(Entry) /\ HoldsRuns(m, s)
        BY <3>2 DEF MemoryInv
      <4> QED
        BY <2>1, <4>1, HoldsStays
    <3> QED
      BY <2>2, <3>1, <3>2
  <2>4. memory' \in [Seats -> Seq(Entry)]
    <3>1. <<>> \in Seq(Entry)
      OBVIOUS
    <3> QED
      BY <2>2, <3>1
  <2> QED
    BY <2>2, <2>3, <2>4 DEF MemoryInv
<1>9. CASE UNCHANGED vars
  <2>1. Finished
    BY <1>9 DEF vars, Finished, SeatOf
  <2> QED
    BY <1>9, <2>1, MemoryDependsOn DEF vars, MemoryInv
<1> QED
  BY <1>1, <1>3, <1>4, <1>5, <1>6, <1>7, <1>8, <1>9 DEF Next

\* The memories, files and messages are as they should be in every state.
THEOREM MemoryInvariant == Spec => []MemoryInv
  BY MemoryInit, MemoryStep, WorkInvariant, PTL DEF Spec

\* Every state of the runtimes is well typed.
THEOREM TypeCorrect == Spec => []TypeOK
<1>1. WorkInv /\ MemoryInv => TypeOK
  BY DEF WorkInv, RunTypes, MemoryInv, TypeOK
<1> QED
  BY <1>1, WorkInvariant, MemoryInvariant, PTL

\* Memory.persist and restore: a memory and what was saved of it hold finished
\* runs of their own seat, each once and as a pair, through any number of saves,
\* restores, failures and restarts.
THEOREM MemoryKept == Spec => []MemoryHoldsFinishedRuns
<1>1. MemoryInv => MemoryHoldsFinishedRuns
  BY DEF MemoryInv, HoldsRuns, MemoryHoldsFinishedRuns
<1> QED
  BY <1>1, MemoryInvariant, PTL
==============================================================================
