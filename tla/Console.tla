------------------------------- MODULE Console -------------------------------
(***************************************************************************)
(* The store behind the web console.  It keeps seats, tasks, outputs and   *)
(* plans of its own: what the operator does changes the store only, and    *)
(* what the host knows comes in when a page loads, in four calls.  The     *)
(* store survives a refresh of the page.                                   *)
(***************************************************************************)
EXTENDS Naturals, Sequences

CONSTANTS
  Seats,        \* the seats the host lists, and the one instructions go to
  FirstSeat,
  Services,     \* the simulators the host lists
  Clearance,    \* the console's table of roles
  Dispatchers,
  Approvers,
  Document,     \* the documents of the host's knowledge base, by name
  MaxTasks      \* bound on the instructions sent

Roles == DOMAIN Clearance
Documents == DOMAIN Document
NoPlans == [over |-> {}, dispatched |-> FALSE]

ASSUME ConsoleAssumption ==
  /\ MaxTasks \in Nat /\ "staff" \in Roles /\ Clearance \in [Roles -> Nat]
  /\ Dispatchers \subseteq Roles /\ Approvers \subseteq Roles
  /\ Document \in [Documents -> [clearance : Nat, allow : SUBSET Roles, deny : SUBSET Roles]]

VARIABLES
  inActivity, \* an activity is selected
  role,       \* the operator's current role
  status,     \* [Seats -> ...] as the console shows it
  work,       \* the tasks and their outputs, pairwise: seat, task and output status
  plans,      \* the simulators the plans were scored by, whether one is dispatched
  connected,  \* the simulators the console shows as connected
  listed,     \* it has a list of simulators at all
  knowledge,  \* the documents it has
  loading,    \* the calls of loadRemoteData still to come
  told        \* [Seats -> ...] as the host said last, or "outdated" once the
              \* operator's own doing changed what is shown since; history

consoleVars == <<inActivity, role, status, work, plans, connected, listed, knowledge, loading, told>>

\* What is shown of a seat; it is unknown until the host was heard.
SeatStatus == {"unknown", "idle", "executing", "waiting_approval"}

\* Every variable holds a value of its kind; plans are scored by someone.
ConsoleTypeOK ==
  /\ inActivity \in BOOLEAN /\ role \in Roles
  /\ status \in [Seats -> SeatStatus]
  /\ work \in Seq([seat : Seats, task : {"executing", "done"},
                   output : {"waiting_approval", "executing", "completed"}])
  /\ Len(work) <= MaxTasks
  /\ plans = NoPlans \/ plans \in [over : (SUBSET Services) \ {{}}, dispatched : BOOLEAN]
  /\ connected \subseteq Services /\ listed \in BOOLEAN /\ knowledge \subseteq Documents
  /\ loading \in 0..4 /\ told \in [Seats -> SeatStatus \cup {"outdated"}]

ConsoleInit ==
  /\ inActivity = FALSE /\ role = "staff" /\ status = [s \in Seats |-> "unknown"]
  /\ work = <<>> /\ plans = NoPlans /\ connected = {} /\ listed = FALSE /\ knowledge = {}
  /\ loading = 4 /\ told = status

------------------------------------------------------------------------------
\* canView, the same in the knowledge base and in the console: clearance first,
\* then the roles denied, then the roles allowed if any are named.
CanView(r, doc) ==
  /\ Clearance[r] >= doc.clearance
  /\ r \notin doc.deny
  /\ doc.allow # {} => r \in doc.allow

\* visibleDocuments of the host.
Visible(r) == {d \in Documents : CanView(r, Document[d])}

\* (slip) The list is shown as it was fetched.
Displayed_Fetched == knowledge

\* The console's documents come without their lists of roles, so that its own
\* canView has only their clearance to go by.
Displayed ==
  {d \in knowledge : CanView(role, [Document[d] EXCEPT !.allow = {}, !.deny = {}])}

\* A page loads: the store is back as it was, and the host is asked again.
Refresh ==
  /\ loading' = 4
  /\ UNCHANGED <<inActivity, role, status, work, plans, connected, listed, knowledge, told>>

\* The host's own tasks, and only they, decide what it says of a seat.
LoadSeats ==
  /\ loading = 4 /\ loading' = 3
  /\ status' \in [Seats -> SeatStatus \ {"unknown"}]
  /\ told' = status'
  /\ UNCHANGED <<inActivity, role, work, plans, connected, listed, knowledge>>

LoadActivities ==
  /\ loading = 3 /\ loading' = 2
  /\ UNCHANGED <<inActivity, role, status, work, plans, connected, listed, knowledge, told>>

\* The documents are asked for in the name of the staff role.
LoadKnowledge ==
  /\ loading = 2 /\ loading' = 1
  /\ knowledge' = Visible("staff")
  /\ UNCHANGED <<inActivity, role, status, work, plans, connected, listed, told>>

\* Every simulator is taken to be connected.
LoadSimulators ==
  /\ loading = 1 /\ loading' = 0
  /\ connected' = Services /\ listed' = TRUE
  /\ UNCHANGED <<inActivity, role, status, work, plans, knowledge, told>>

\* A call is answered, but not ok: it is skipped, and the next one is made.
LoadRefused ==
  /\ loading > 0 /\ loading' = loading - 1
  /\ UNCHANGED <<inActivity, role, status, work, plans, connected, listed, knowledge, told>>

\* A call throws, and the ones after it are not made.
LoadFails ==
  /\ loading > 0 /\ loading' = 0
  /\ UNCHANGED <<inActivity, role, status, work, plans, connected, listed, knowledge, told>>

SelectActivity ==
  /\ inActivity' \in BOOLEAN
  /\ UNCHANGED <<role, status, work, plans, connected, listed, knowledge, loading, told>>

SetRole ==
  /\ role' \in Roles
  /\ UNCHANGED <<inActivity, status, work, plans, connected, listed, knowledge, loading, told>>

Shown(seat) == status[seat] # "unknown"

\* A seat is shown in a status that the operator's doing gives it.
Shows(seat, new) ==
  /\ status' = [status EXCEPT ![seat] = new]
  /\ told' = [told EXCEPT ![seat] = "outdated"]

\* A seat is looked up to show the effect of a review; one not listed is skipped.
ShowsIfListed(seat, new) ==
  IF Shown(seat) THEN Shows(seat, new) ELSE UNCHANGED <<status, told>>

\* Who gets an instruction: the first staff seat whatever it is doing, and only
\* if there is none a seat that is idle.
Targets == LET seats == {s \in Seats : Shown(s)}
           IN  IF FirstSeat \in seats THEN {FirstSeat}
               ELSE {s \in seats : status[s] = "idle"}

SendInstruction ==
  /\ inActivity /\ role \in Dispatchers /\ Len(work) < MaxTasks
  /\ \E s \in Targets :
       /\ Shows(s, "executing")
       /\ work' = Append(work, [seat |-> s, task |-> "executing",
                                output |-> "waiting_approval"])
  /\ UNCHANGED <<inActivity, role, plans, connected, listed, knowledge, loading>>

ApproveOutput(i) ==
  /\ role \in Approvers /\ work[i].output = "waiting_approval"
  /\ work' = [work EXCEPT ![i].output = "completed", ![i].task = "done"]
  /\ ShowsIfListed(work[i].seat, "idle")
  /\ UNCHANGED <<inActivity, role, plans, connected, listed, knowledge, loading>>

RejectOutput(i) ==
  /\ role \in Approvers /\ work[i].output = "waiting_approval"
  /\ work' = [work EXCEPT ![i].output = "executing"]
  /\ ShowsIfListed(work[i].seat, "executing")
  /\ UNCHANGED <<inActivity, role, plans, connected, listed, knowledge, loading>>

\* (slip) Plans are made also when no simulator could score them.
StoreGeneratePlans_Unscored ==
  /\ plans' = [over |-> connected, dispatched |-> plans.dispatched]
  /\ UNCHANGED <<inActivity, role, status, work, connected, listed, knowledge, loading, told>>

\* New plans replace the old ones; with no simulator connected nothing changes.
StoreGeneratePlans ==
  /\ connected # {}
  /\ plans' = [over |-> connected, dispatched |-> FALSE]
  /\ UNCHANGED <<inActivity, role, status, work, connected, listed, knowledge, loading, told>>

ConfirmSelectedPlan ==
  /\ plans.over # {} /\ ~plans.dispatched
  /\ plans' = [plans EXCEPT !.dispatched = TRUE]
  /\ UNCHANGED <<inActivity, role, status, work, connected, listed, knowledge, loading, told>>

SetMcpConnected ==
  /\ listed
  /\ \E m \in Services : connected' \in {connected \cup {m}, connected \ {m}}
  /\ UNCHANGED <<inActivity, role, status, work, plans, listed, knowledge, loading, told>>

ConsoleNext ==
  \/ Refresh \/ LoadSeats \/ LoadActivities \/ LoadKnowledge \/ LoadSimulators
  \/ LoadRefused \/ LoadFails \/ SelectActivity \/ SetRole \/ SendInstruction
  \/ \E i \in 1..Len(work) : ApproveOutput(i) \/ RejectOutput(i)
  \/ StoreGeneratePlans \/ ConfirmSelectedPlan \/ SetMcpConnected

ConsoleSpec == ConsoleInit /\ [][ConsoleNext]_consoleVars

------------------------------------------------------------------------------
Open(s) == {i \in 1..Len(work) : work[i].seat = s /\ work[i].task = "executing"}
Approved(s) == {i \in 1..Len(work) : work[i].seat = s /\ work[i].output = "completed"}

\* A task is done exactly when its output was approved, in whatever order an
\* approval and a rejection of the same output are clicked.
DoneIffApproved ==
  \A i \in 1..Len(work) : work[i].task = "done" <=> work[i].output = "completed"

\* A seat is shown as the host said last, or its status has a reason here: it
\* executes if work of its is open, and is idle if an output of its was approved.
\* Two cases are allowed that a reader may not expect, a seat that is shown idle
\* while outputs of its are open: approving one of several outputs frees the seat
\* (engine.ts), and so does a refresh, because the host knows nothing of the
\* instructions given here (index.ts).
BusyForAReason ==
  \A s \in Seats :
    \/ status[s] = told[s]
    \/ /\ told[s] = "outdated"
       /\ \/ status[s] = "executing" /\ Open(s) # {}
          \/ status[s] = "idle" /\ Approved(s) # {}

\* The specification of the console asks that a role be shown the documents it
\* may see and no others.  The page asks for them in the name of the staff role
\* and drops their lists of roles (index.ts), so this is what remains true,
\* whatever role the operator switches to.  A document shown to a role that may
\* not see it is within the role's clearance, and the staff are shown none; a
\* document withheld from a role that may see it is one the staff may not see.
KnowledgeIsCleared ==
  /\ \A d \in Displayed \ Visible(role) :
       role # "staff" /\ Clearance[role] >= Document[d].clearance
  /\ knowledge # {} => \A d \in Visible(role) \ Displayed : d \notin Visible("staff")

\* The store agrees with itself, with what the host said last where the operator
\* has not changed it, and with what the host lets the role see, but for the cases
\* named.
StoreAgrees == DoneIffApproved /\ BusyForAReason /\ KnowledgeIsCleared
==============================================================================
