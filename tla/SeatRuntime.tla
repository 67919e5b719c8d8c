------------------------------ MODULE SeatRuntime ------------------------------
(***************************************************************************)
(* The runtimes of the seats: AgentRuntime with its Memory, driven by      *)
(* Platform.generatePlans and Platform.idleTickAll.                        *)
(*                                                                         *)
(* A request asks a list of seats for a plan each; asking one seat alone   *)
(* is AgentRuntime.run.  Between the call of the language model and its    *)
(* answer other requests, ticks, saves and restores happen.                *)
(***************************************************************************)
EXTENDS Naturals, Sequences, FiniteSets

CONSTANTS
  Seats,
  Requests,
  SeatLists,   \* the lists of seat ids a request may name, unknown ids included
  MaxList      \* the length of the longest of them

ASSUME ListsAssumption ==
  /\ MaxList \in Nat
  /\ \A list \in SeatLists : \E n \in 1..MaxList : DOMAIN list = 1..n

\* The run at one place of a request's list.
Runs == Requests \X (1..MaxList)

VARIABLES
  asked,      \* [Requests -> list of seat ids], <<>> before the request is made
  status,     \* [Runs -> ...]: the runs, element by element
  reply,      \* [Requests -> ...]: the promise of generatePlans
  busy,       \* [Seats -> BOOLEAN]: AgentRuntime.busy
  memory,     \* [Seats -> Seq(Entry)]: Memory.entries
  saved,      \* [Seats -> set of at most one Seq(Entry)]: <dir>/memory.json
  pushes,     \* the proactive messages and what their seat was doing; history
  overlap     \* the seats whose runs in progress have overlapped; history

vars == <<asked, status, reply, busy, memory, saved, pushes, overlap>>

Entry == [kind : {"working", "episodic"}, run : Runs]

TypeOK ==
  /\ asked \in [Requests -> SeatLists \cup {<<>>}]
  /\ status \in [Runs -> {"none", "running", "done", "failed", "lost"}]
  /\ reply \in [Requests -> {"none", "awaiting", "resolved", "rejected", "lost"}]
  /\ busy \in [Seats -> BOOLEAN]
  /\ memory \in [Seats -> Seq(Entry)]
  /\ \A s \in Seats :
       saved[s] \subseteq Seq(Entry) /\ \A m, n \in saved[s] : m = n
  /\ pushes \subseteq [from : Seats, working : BOOLEAN]
  /\ overlap \subseteq Seats

------------------------------------------------------------------------------
SeatOf(run) == asked[run[1]][run[2]]

\* The runs of a seat that the language model has not answered.
Running(seat) == {run \in Runs : status[run] = "running" /\ SeatOf(run) = seat}

RunsOf(request) == {run \in Runs : run[1] = request /\ status[run] # "none"}

\* (slip) The first success decides.
Settled_First(request, old, new) ==
  IF old # "awaiting" THEN old
  ELSE IF \E run \in RunsOf(request) : new[run] = "failed" THEN "rejected"
  ELSE IF \E run \in RunsOf(request) : new[run] = "done" THEN "resolved"
  ELSE "awaiting"

\* Promise.all: rejected by the first failure, resolved by the last success.
\* What it was decided to be stays.
Settled(request, old, new) ==
  IF old # "awaiting" THEN old
  ELSE IF \E run \in RunsOf(request) : new[run] = "failed" THEN "rejected"
  ELSE IF \A run \in RunsOf(request) : new[run] = "done" THEN "resolved"
  ELSE "awaiting"

------------------------------------------------------------------------------
Init ==
  /\ asked = [r \in Requests |-> <<>>]
  /\ status = [run \in Runs |-> "none"]
  /\ reply = [r \in Requests |-> "none"]
  /\ busy = [s \in Seats |-> FALSE]
  /\ memory = [s \in Seats |-> <<>>]
  /\ saved = [s \in Seats |-> {}]
  /\ pushes = {}
  /\ overlap = {}

\* generatePlans up to its first await: every known seat named is at work, an
\* unknown one fails its own part at once and with it the whole.
Ask(request, list) ==
  /\ reply[request] = "none"
  /\ asked' = [asked EXCEPT ![request] = list]
  /\ status' = [run \in Runs |->
       IF run[1] # request \/ run[2] \notin DOMAIN list THEN status[run]
       ELSE IF list[run[2]] \in Seats THEN "running" ELSE "failed"]
  /\ reply' = [reply EXCEPT ![request] =
       IF \A k \in DOMAIN list : list[k] \in Seats THEN "awaiting" ELSE "rejected"]
  /\ busy' = [s \in Seats |-> busy[s] \/ \E k \in DOMAIN list : list[k] = s]
  /\ overlap' = overlap \cup
       {s \in Seats : \/ Running(s) # {} /\ \E k \in DOMAIN list : list[k] = s
                      \/ \E j, k \in DOMAIN list : j # k /\ list[j] = s /\ list[k] = s}
  /\ UNCHANGED <<memory, saved, pushes>>

Remembered(run) == <<[kind |-> "working", run |-> run], [kind |-> "episodic", run |-> run]>>

\* What every end of a run does: the `finally` of AgentRuntime.run and the
\* promise of the request.
End(run, result) ==
  LET seat == SeatOf(run)
  IN  /\ status' = [status EXCEPT ![run] = result]
      /\ reply' = [reply EXCEPT ![run[1]] = Settled(run[1], @, status')]
      /\ busy' = [busy EXCEPT ![seat] = FALSE]
      /\ overlap' = IF Running(seat) = {run} THEN overlap \ {seat} ELSE overlap
      /\ UNCHANGED <<asked, saved, pushes>>

\* The language model answers: two entries are remembered at once, whether the
\* request still waits or has been rejected.
Answered(run) ==
  /\ status[run] = "running"
  /\ End(run, "done")
  /\ memory' = [memory EXCEPT ![SeatOf(run)] = @ \o Remembered(run)]

\* (slip) Only a success clears the flag.
Failed_StaysBusy(run) ==
  /\ status[run] = "running"
  /\ status' = [status EXCEPT ![run] = "failed"]
  /\ reply' = [reply EXCEPT ![run[1]] = Settled(run[1], @, status')]
  /\ overlap' = IF Running(SeatOf(run)) = {run} THEN overlap \ {SeatOf(run)} ELSE overlap
  /\ UNCHANGED <<asked, saved, pushes, busy, memory>>

\* The language model fails.
Failed(run) ==
  /\ status[run] = "running"
  /\ End(run, "failed")
  /\ UNCHANGED memory

\* idleTickAll: every runtime that is not busy pushes.
IdleTickAll ==
  /\ pushes' = pushes \cup
       {[from |-> s, working |-> Running(s) # {}] : s \in {t \in Seats : ~busy[t]}}
  /\ UNCHANGED <<asked, status, reply, busy, memory, saved, overlap>>

\* (slip) The file is added to.
Persist_Appends(seat) ==
  /\ saved' = [saved EXCEPT ![seat] = @ \cup {memory[seat]}]
  /\ UNCHANGED <<asked, status, reply, busy, memory, pushes, overlap>>

\* Memory.persist replaces the file, Memory.restore the entries.
Persist(seat) ==
  /\ saved' = [saved EXCEPT ![seat] = {memory[seat]}]
  /\ UNCHANGED <<asked, status, reply, busy, memory, pushes, overlap>>

\* (slip) The restored entries are added to those at hand.
Restore_Appends(seat) ==
  /\ \E m \in saved[seat] : memory' = [memory EXCEPT ![seat] = @ \o m]
  /\ UNCHANGED <<asked, status, reply, busy, saved, pushes, overlap>>

Restore(seat) ==
  /\ \E m \in saved[seat] : memory' = [memory EXCEPT ![seat] = m]
  /\ UNCHANGED <<asked, status, reply, busy, saved, pushes, overlap>>

\* The platform stops and is built anew: the runs it had, and what was only in
\* memory, are gone.
Restart ==
  /\ status' = [run \in Runs |-> IF status[run] = "running" THEN "lost" ELSE status[run]]
  /\ reply' = [r \in Requests |-> IF reply[r] = "awaiting" THEN "lost" ELSE reply[r]]
  /\ busy' = [s \in Seats |-> FALSE]
  /\ memory' = [s \in Seats |-> <<>>]
  /\ pushes' = {}
  /\ overlap' = {}
  /\ UNCHANGED <<asked, saved>>

Next ==
  \/ \E request \in Requests, list \in SeatLists : Ask(request, list)
  \/ \E run \in Runs : Answered(run) \/ Failed(run)
  \/ IdleTickAll
  \/ \E seat \in Seats : Persist(seat) \/ Restore(seat)
  \/ Restart

Spec == Init /\ [][Next]_vars

------------------------------------------------------------------------------
\* busy is one flag for all the runs of a seat.  As long as they do not overlap
\* it says whether there is one; when they do, it never claims work where there
\* is none.
BusyTellsWork ==
  \A s \in Seats :
    /\ busy[s] => Running(s) # {}
    /\ Running(s) # {} /\ s \notin overlap => busy[s]

\* A proactive message from a seat at work can only come from a seat whose runs
\* have overlapped, at the moment it is pushed.
PushAtWorkNeedsOverlap ==
  [][\A s \in Seats :
       [from |-> s, working |-> TRUE] \in pushes' \ pushes => s \in overlap]_vars

\* A memory holds a finished run of its own seat as a pair of adjacent entries,
\* and no run twice, through saving, restoring and restarting.
MemoryHoldsFinishedRuns ==
  \A s \in Seats : \A m \in {memory[s]} \cup saved[s] :
    LET firsts == {i \in DOMAIN m : i % 2 = 1}
    IN  /\ \A i \in firsts :
             /\ i + 1 \in DOMAIN m
             /\ <<m[i], m[i + 1]>> = Remembered(m[i].run)
             /\ status[m[i].run] = "done" /\ SeatOf(m[i].run) = s
        /\ \A i, j \in firsts : m[i].run = m[j].run => i = j

\* A request resolves only with a plan of every seat it named; one that failed
\* is never forgotten because the others succeed after it.
ResolvedMeansAllDone ==
  \A r \in Requests :
    /\ reply[r] = "resolved" => \A k \in DOMAIN asked[r] : status[<<r, k>>] = "done"
    /\ reply[r] = "awaiting" => \E k \in DOMAIN asked[r] : status[<<r, k>>] = "running"
==============================================================================
