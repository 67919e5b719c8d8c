# Verification of the wargaming platform

TLA+ models of the multi-agent wargaming platform in `src/src/` of this
repository, of the host adapter and the console that put it before users, and of
the agent loop of the harness it is plugged into: the specifications, the TLC
configurations that check them on small instances, and TLAPS proofs that carry
the most important results to every instance. Every definition is translated
from the source; `PROJECT.json` maps each to its lines. Platform paths below are
relative to `src/src/`, so `task/taskManager.ts` is the file behind
`TaskManager.tla`; harness paths start with `packages/`.

    tlc -config task_dispatch.cfg TaskManagerMC.tla     # a run
    tlapm TaskManager_proofs.tla                        # a proof module

## The system

The platform simulates a staff. *Seats* hold *roles*, form a chain of command,
talk in conversations, are given tasks and hand in outputs that a human approves.
Two seats draft plans, simulators score them, and a commander confirms the best
one. The harness runs agents: each has an inbox, a driver that turns pending
messages into turns and steps, and tools its steps call. Everything runs in one
Node.js process: synchronous calls are atomic, and concurrency comes from `await`
(language model, simulators, tools, listeners), from child processes and from
restarts.

| component | state | operations | hard behaviour | what makes it correct |
|---|---|---|---|---|
| task manager (`task/`) | tasks, outputs, load, feedback log | autoDispatch, dispatch, submitOutput, approve, reject, recordFeedback | the same call twice, in any order; roles and registry change in between | load agrees with work, what is stored twice agrees, the least busy capable seat gets the task |
| organization (`org/`) | roles (mutable, shared), seats, parents | children, descendants, ancestors | shared roles; walks over configured data | walks up and down agree |
| message bus (`collab/`) | conversations, messages | createGroup, createDirect, send, broadcast, branch | ids used again, several messages per millisecond, branches of branches | messages stay in the circle they were sent to, branches keep context |
| simulation service (`sim/simulation.ts`) | ranked results, selected plan id, confirmed | evaluatePlans, confirmSelection, dispatchSelected | evaluations overlap; simulators fail | only the plan on offer is issued, only while confirmed; rankings never mix |
| simulator client (`sim/mcpClient.ts`) | pending requests, child process | connect, callTool, timers, dispose | late, repeated, missing answers; a child that dies at any time | the right answer, one settlement, a clean end |
| agent runtime, memory (`runtime/`) | busy, memory entries, memory.json | run, answer, idleTick, persist, restore | runs of one seat overlap; restarts | busy tells work, memory holds finished runs |
| evolution (`evolution/`) | candidates, hits, backups, SKILL.md files | extract, validate, solidify, rollback | order of the calls; restarts between them | refused skills stay off the disk, rollbacks restore |
| skill registry (`skills/skillRegistry.ts`) | skills, packs | build, reloadFromDir, availableSkills | reload while tasks are dispatched | access = reference, authorisation, enabling and clearance |
| parser, zip installer (`skills/`) | the skills directory | install | a package that fails half way, a process that dies in it | what is on disk loads and is registered |
| knowledge base (`knowledge/`) | documents (constant) | search, visibleDocuments, hasBlockedMatch | none (pure) | nothing above a role's clearance shows |
| config loader (`config/`) | none | four loaders | malformed or circular data | what it lets through is usable |
| platform facade (`platform.ts`) | the runtimes, proactive messages | generatePlans, idleTickAll, installSkillZip | one seat of many fails | a reply has every plan it was asked for |
| host adapter (`packages/platform/wargame-platform`) | none of its own | remote calls | state read after an await | an answer is about one evaluation, consent about the plan shown |
| console store (`packages/client/ui-wargame`) | a copy of seats, tasks, plans, documents | UI actions, page loads | reloads and role switches over local changes | agreement with itself and with what the host said |
| agent loop (`packages/core/agent-loop`, `agent.ts`, `inbox.ts`) | inbox, phase, turn, log | send, remove, cancel, runMaintenance, the driver | input, cancels, disposal at every await of the driver | no message lost, doubled or revived; brackets close; cancels converge; latched wakes run |
| tool scheduler (same package, `tool-calls.ts`) | groups, pool, log | one step's tool calls | bodies that settle in any order, modes that change, aborts | model order, bounded pool, one result per call |

They interact by direct calls: the host adapter calls the platform; the platform
owns one of each; the task manager asks the organization and the registry who is
capable; the message bus asks the organization who is below a sender; the
simulation service opens one client per plan and simulator; runtimes push through
a callback; the driver of an agent hands the tool calls of a step to the
scheduler and leaves their context in its inbox. Only the runtimes of one seat,
the evaluations of one service and the inbox and phase of one agent share mutable
state across an `await`.

`PROJECT.json` lists the hazards of this code, each at its line, with the
properties that watch it.

## Modules

**TaskManager** (with **SkillAccess**; instance **TaskManagerMC**). One action per
method: `AutoDispatch`, `Dispatch`, `SubmitOutput`, `Approve`, `Reject`,
`RecordFeedback`; `ChangeRole` and `RebuildRegistry` are what an administrator
does meanwhile. `tasks`, `outputs`, `load` and `feedbackLog` are the four private
fields of the class. A call that throws changes nothing and is a stutter. Random
ids are positions in the insertion-ordered maps; the status `pending`, declared in
`types.ts`, is assigned nowhere. `SkillAccess` holds the pure rules of the
registry: who may use which skill, after `build` and `availableSkills`.

**PlanEvaluation** (with the abstract **ConfirmedDispatch**). `StartEvaluation` is
`evaluatePlans` up to its await, `Settle` the end of one `runOne`; the last to
settle runs `Install`, which is the code after the await. Plan ids restart at
`plan-1` with every generation, so a plan carries the evaluation it came from.
Weights and scores are integers, negative ones included, since the loader asks
only that they be numbers; a weighted score is an exact fraction. Values that are
no integers, and simulators configured under one id, are left out.
`ConfirmedDispatch` states the promise: a plan is issued only while it is
on offer and a human confirmed that offer. `KeepsPromise` maps `offer` to the head
of the ranking.

**WargameHost** (instance **WargameHostMC**) composes PlanEvaluation with the host
adapter's `generatePlans` and `confirmPlan`. `GeneratePlans`, `DraftFails` and
`DraftsReady` stand for the request to the seats, whose inside is SeatRuntime;
`SessionEnds` for a `Settle`; `Answer` for the continuation that reads the
confirmation and the report after the await. That continuation runs in the same
drain of the microtask queue as the one that installed the ranking: `Quiet` keeps
other events out until then. `consents` is history: what a human saw and what was
confirmed.

**McpSession** (instance **McpSessionMC**). The inside of one `Settle`: `runOne` and
its client. An event and the continuation it resumes are one step, because promise
continuations run before the next event. The simulator is the environment: it
answers requests it received, repeats itself, writes lines that answer nothing,
keeps silent or dies. Requests carry the ids the client gives out; each arms a
timer of its own, which nothing disarms. Of the lines that answer nothing, `noise`
is skipped, and `null` makes `handleLine` throw outside its `try`, which ends the
process. Sessions share nothing but that process, so one session suffices for all
properties but `FailureIsContained`, which uses two.

**MessageBus** (with **CommandChain**; instance **MessageBusMC**). A message is a pair
of a conversation and a post; copies made by `branch` show the same post.
`audience` and `broadcast` on a post are history that no action reads. The clock
moves forward only; several messages may share a millisecond.

**SeatRuntime** (instance **SeatRuntimeMC**). `Ask` is `generatePlans` up to its await
(asking one seat alone is `run`), `Answered` and `Failed` are the ends of one model
call with the `finally` of `run` and the `Promise.all` of the request. `Restart`
loses all but the files. `pushes` and `overlap` are history.

**Evolution** (instance **EvolutionMC**). Files and backups are identified with the
candidate they are copies of. `Restart` loses candidates and backups and keeps
files. `change`, `validated` and `unchecked` are history.

**SkillInstall** (over **SkillAccess**; instance **SkillInstallMC**). An upload writes
the skills of a package one after the other and reloads the registry; it may fail
at any of them, and the process may die at any of them, within a write too. What
survives is the directory and `skills.yaml`, which others edit. The directory may
start with skills placed by hand in any of its folders, two of one name included;
they are scanned in the order of `Dirs`. `last` and `torn` are history.

**Console** (instance **ConsoleMC**). What a page load brings in arrives in four
calls: one that is refused is skipped (`LoadRefused`), one that throws drops those
after it (`LoadFails`). The operator acts in between, and the store survives a
refresh. Documents carry any lists of allowed and denied roles. `told` is history:
what the host said last of each seat, or that the operator has changed it since.

**AgentLoop** (instance **AgentLoopMC**). `ReactLoopAgent` with its inbox. The driver
(`kick`, `turn`, `preStep`) is one asynchronous function; its stages `at` are the
points where others may act: its awaits, and the events it appends or emits, whose
listeners run inside the call. One action per stage, and one per public operation
(`Followup`, `Steer`, `Inject`, `Remove`, `Cancel`, `Dispose`, `RunMaintenance`).
A step (request, stream, tool calls) is one await with its outcomes. `phase` with
its controller and latch, `inbox`, the turn's local variables and the open bracket
of the log are the state of the code; `queued` and `gone` are history.

**ToolCalls** (instance **ToolCallsMC**). `executeToolCalls`: classification into
groups, the two loops that refill the pool, the race for the next settled call, the
commit in model order, the drain after an abort or a failure. Bodies, the abort
signal and the modes in the registry run beside the scheduler.

In each module the definitions marked `(slip)` are plausible mistakes in the code
next to them. They are used nowhere; putting one in place of the definition it
precedes breaks the property `PROJECT.json` pairs it with, which shows that the
property depends on the code.

## Runs

| run | instance and bounds | result |
|---|---|---|
| `task_dispatch` | 3 seats, 2 roles, 2 registries, 2 inputs; 3 tasks, 2 outputs, 2 feedbacks | load and everything stored twice agree; automatic dispatch is fair unless a task was handed in twice |
| `plan_evaluation` | 2 requests of up to 2 plans on 2 simulators weighted 7:3, 3 outcomes | rankings never mix and score what was reached, answers are whole, consent misses only by overlap, only confirmed offers are issued, requests are answered |
| `mcp_session` | 1 session, up to 4 lines, 2 scores | the first answer counts, the request awaited or its own timer settles the session, once, and it ends |
| `mcp_contained` | 2 sessions, 1 line each | violated: a write to a dead child ends the process for both |
| `message_bus` | chain of 3 seats and an outsider, 3 conversations, 3 posts, 2 instants | circles hold, broadcasts cover the subtree, branches inherit their context |
| `evolution` | 2 names, 3 candidates, 2 lives | a danger on disk came unchecked, a rollback restores within one life and removes after a restart |
| `seat_runtime` | 2 seats, 3 requests, one list with an unknown seat | busy, memory and replies hold through overlaps and restarts |
| `skill_install` | 3 names, 3 directories, 2 skills placed by hand, 5 packages, 4 configurations; 4 uploads, 3 lives | the registry mirrors the disk after an upload that succeeds, and the upload takes effect unless overruled; the disk loads unless the process died in a write |
| `agent_loop` | 3 messages, turns of up to 3 steps | no message lost or doubled, follow-ups own their turns, brackets close, cancels converge, latched wakes run |
| `agent_owed` | the same | violated: a turn closes while the model is owed a request |
| `tool_calls` | 5 calls, a pool of 3 | the log replays, the pool is kept, no body begins after a failure, an abort drains |
| `console` | 2 seats, 2 simulators, 3 roles, 7 documents, 2 instructions | tasks and outputs agree, every status has a reason, what a role is shown errs only on the sides named |

Why the bounds suffice: each hazard needs few actors and steps. A load that drifts
needs one task handed in twice and a second seat to compare with; a lost
confirmation needs two evaluations; a mixed-up answer needs two requests, a
repetition and a foreign line (4 lines); a branch of a branch needs three
conversations; a backup overwritten needs three candidates of one name, a lost one
a second life; an overlap that ends before another begins needs three requests; a
skill left behind by a failed upload that a later one registers, then replaces,
needs three uploads; an upload that changes nothing needs a skill of its name in a
folder scanned later, one that wins a skill in a folder scanned earlier; a document
wrongly shown needs one denied to a cleared role, one wrongly missing needs one the
staff may not see; a message lost around a cancel needs the one the turn runs on,
one pending and one that arrives late; a refill of the pool while an earlier call
is finalised needs a call more than fills it, and a change of mode one more. The
bounds are the constants with `Max` in their names and `NumCalls`, all in the
guards of the actions that add to a history. The runs with `CHECK_DEADLOCK FALSE`
may stop: when the bounds are used up, when every session has ended, when the
process is gone, or when the step has returned.

Symmetry is used where identities do not matter (conversation ids, skill names,
requests), and never in a run with a liveness property.

## Fairness

`McpSession` assumes that the timer of a pending request fires (`WF` of
`up /\ Timeout`), as Node's event loop guarantees while the process lives. The
timers are `unref`'d: they do not keep the process alive by themselves, while the
pipes of a living child do, and so does the server the platform runs in.

`WargameHost` assumes that a session that has begun settles, which is what
`SessionEnds` of McpSession shows of each, and that a continuation that is due runs.
Nothing is assumed of humans, of the simulators or of the language model: a model
call has no timeout in the code, so `GenerationIsAnswered` starts where the drafts
are ready.

`AgentLoop` assumes that the driver's own code runs (`Sync`), and that what it awaits
ends once its signal is aborted (`aborted /\ Awaited`): the request, the tools and
the listeners are handed that signal. Nothing is assumed of an await that was not
aborted, nor of anyone who sends, removes, cancels or disposes. `ToolCalls` assumes
the same of the scheduler and of the bodies under an aborted signal.

## Proofs

All results are for every value of the constants that meets the named assumptions:
finite seats and simulators, weights and scores that are integers, bounds that are
naturals, null values that are no values, lists that are not empty
(`SeatsAssumption`, `NoneAssumption`, `SimsAssumption`, `OutcomesAssumption`,
`PlansAssumption`, `NoPlanAssumption`, `NoAnswerAssumption`, `EvolutionAssumption`,
`ScoresAssumption`, `ForeignAssumption`, `LinesAssumption`, `ChainAssumption`,
`BusAssumption`, `ListsAssumption`, `BoundsAssumption`, `CallsAssumption`,
`SkillsAssumption`, `ConsoleAssumption`). All but one of them say of what kind a
constant is, and the code or the data format ensures it. The exception is
`ChainAssumption`, which gives every seat a depth above its parent's: no circle,
which nothing in the code ensures. TLC evaluates them all on the instances of the
runs.

Every safety invariant a passing run checks is the property of a theorem. Where a
definition is recursive (the walks of CommandChain, the sums behind a weighted
score) or picks the last of several (`Written` and the rebuilt registry of
SkillInstall), the proofs
need induction, and the library's induction rules take an operator as a parameter,
which the installed provers cannot instantiate. `UpwardInduction` and
`SubsetInduction` get by without: the set of counterexamples is given as a set, not
as a predicate, and has a smallest member because the strict subset ordering on
finite sets is well founded (`FS_StrictSubsetOrderingWellFounded`, `WFMin`). What a
recursive function means is settled the same way, by showing that one which
satisfies its equation exists (`SumExists`: one for the subsets of at most m
elements gives one for those of at most m + 1).

* **TaskManager_proofs.** `TypeCorrect`, `LoadTells`, `RecordsKept`, `AutoDispatchFair`.
  The load properties are not inductive alone: when a task that is done is handed in
  again the counter is lowered while the work stays the same, and that this makes
  the seat one that *handed in twice* follows only from `TaskPointsAtLastOutput` (a
  task that is done has an output). Where the counters are exact, the order by load
  is the order by work, which gives the fairness of automatic dispatch.
* **HostConsole_proofs.** `PromiseKept` and `HostKeepsPromise`: the service, and the
  adapter over it, implement ConfirmedDispatch. `SelectionInv` says the selected id
  is that of the head of the ranking and a confirmation implies a ranking; with it
  `Install` maps to `MakeOffer`, `ConfirmSelection` to `Confirm`, `DispatchSelected` to
  `Issue`, and everything else to a stutter. `AnswersAreWhole` and `ConsentAccounted`
  need `HostInv`: between the installation of a ranking and its answer nothing else
  happens, so what is due is what is installed (`Due`), what is on offer was shown to
  its caller or is about to be (`OfferWasShown`), and answers never change.
  `RankingSound`: the order of a ranking is strict, so each plan occurs once
  (`InstallIsSound`); numerator and denominator of a score are sums over the same
  set, taken in the same order, so that where no weight is negative induction over
  that set bounds one by the other (`SumsAreBounded`) and the score by its extremes
  (`ScoreLiesBetween`). For any weights the score is that of what was said and of
  nothing else: two lists of outcomes that differ only where a simulator was not
  reached, or in `success`, have the same sums (`OnlyWhatWasSaidCounts`, by induction
  again).
  `HostTypeCorrect` needs `HostShape`: only an evaluation of one plan or more is waited
  for, so an answer on the screen has a best plan to consent to.
  `ConsoleTypeCorrect` and `StoreAgreement` from `ConsoleInv`: the documents the store
  has are those the staff role sees or none, a status that is not the host's has its
  reason in the work, and an output that waits belongs to a task in hand, so that a
  rejection finds it open and an approval closes it. What is shown and not allowed
  then differs in the lists of roles only (`OnlyClearance`).
* **Skills_proofs.** Of Evolution, `TypeCorrect`; `RollbackRestored` from `BackupInv` (a backup
  implies a file, what was solidified in this life has what it replaced as its
  backup, and what was solidified in an earlier one and not since has none: without
  the first part, a solidify that finds no file would leave an older backup in
  place); `DangerOnlyUnchecked` from `DangerInv` (a validated danger has hits, and
  backups obey the same rule as files). Of SkillInstall, `InstallTypeCorrect`,
  `RegistryFollowsDisk` and `DiskStaysLoadable` from `InstallInv`, for any initial
  disk. That a rebuilt registry mirrors the disk (`RebuiltFromDisk`) needs that among
  the files of one name there is one scanned last (`LastOfName`, by induction), which
  is the one `build` keeps. That an upload takes effect unless overruled
  (`InstalledTakesEffect`) needs in addition what a package leaves on the disk,
  whichever of several skills with one directory came last (`WrittenDisk`).
* **McpSession_proofs.** `TypeCorrect`, `FirstAnswerScores` and `SettledByItsOwn` from
  `SessionInv`, which says which ids are given out, pending and timed at each place
  of `runOne`. That a ranked score is the first answer to `tools/call` needs that no
  line read before the call carries its id, which in turn needs that a simulator
  answers only what it was asked, and that the second request goes out only when the
  first was answered. That a session is settled by the request it awaits, or by that
  request's own timer, needs that nothing but the last request is ever pending
  (`AwaitsTheLast`).
* **MessageBus_proofs.** `TypeCorrect`, `MessagesKept`, `ContextInherited` and
  `ConversationsSeparate` from `BusInv`. `branch` selects by timestamp, while the
  property speaks of the order in which posts were sent; that the two agree, ties
  included, is `Chronological`. `BroadcastsCover` adds that a broadcast still has the
  audience `Descendants` gave it, and `DownIsUp` turns that into the seats that have
  the sender above them: the generation a seat is met in going down is the number of
  steps after which its way up meets the sender (`LevelsAreWalks`, by induction).
* **SeatRuntime_proofs.** `BusyIsTold`, `ResolvedIsComplete` and `PushesNeedOverlap` from
  `WorkInv`. The flag alone is not inductive: at the end of a run it is cleared, and
  that a run still going on then belongs to a seat recorded as overlapping follows
  from `Told` (two runs in progress are an overlap). A request that is awaited has no
  failed run (`Listed`), so that the last success resolves it rightly. `TypeCorrect`
  and `MemoryKept` from `MemoryInv`: an entry in memory or in a file is of a run that
  is over, so a run that ends now is in none, which keeps each run single.
* **AgentLoop_proofs.** `LoopInv` ties the open bracket of the log, the latch and the
  batch to the driver's stage; it gives `TypeCorrect`, `LogClosed` and `LatchIsHonoured`.
  `AccountInv` adds that a claimed batch repeats nothing, is not in the log and, while
  nobody aborted the turn, was not taken back: without the last part the recheck
  after the await would not keep a cancelled batch out. It gives `MessagesAccounted`.
  `OrderInv` adds that the queue ascends, that only the batch of a first step holds a
  follow-up, as its last message and older than the queue, and that a turn whose
  first step is to come has nothing in the log; it gives `FollowupsInOrder`.
* **ToolCalls_proofs.** `PoolInv` says which calls are unsettled, in flight and in
  the running group at each place of the scheduler; it gives `TypeCorrect` and
  `PoolKept`, the half about failures by `FailureStopsBodies`. `LogInv` adds that
  the committed calls are a prefix of the started ones and that the log says exactly
  which they are; it gives `LogAlwaysReplays`.

Only model-checked: the liveness properties (`SessionEnds`, `GenerationIsAnswered`,
`CancelConverges`, `LatchedWakeRuns`, `AbortDrains`), which depend on `ENABLED`, and
the two disagreements below, which are counterexamples. There is no `RECURSIVE`
operator in the project.

## Where code and documents disagree

Two disagreements are runs, with their quotations under `findings`:

* `mcp_contained`: a simulator that died takes the process with it, by an EPIPE on
  `child.stdin`, where the specification asks that the others go on.
* `agent_owed`: `max-tokens` sticks in `turnEnds`, so a turn that was cut off, went on
  with steering and then called tools closes without asking the model about their
  results; the architecture page says a turn closes once nothing is owed.

Each of the following is stated by a passing property, which names the case it
excuses or says what is true in place of what is promised:

* An outcome with `success: false` counts in the weighted score, against the comment
  at `sim/simulation.ts:18`, which has only the successful systems aggregated.
  `ScoreIsOfAllReached`, a part of `RankingIsSound`, states what the score is: that of
  all simulators that were reached, whatever they say of their success. The loader
  admits a negative weight (`config/load.ts:154`), with which a score may lie outside
  the scores it is the mean of; `ScoreBetweenExtremes` speaks of the other weights.
* The specification of agent-evolution (`openspec/specs/agent-evolution/spec.md:28`,
  also the comment at `evolution/evolution.ts:6`) has every product that hits a
  dangerous instruction refused. `solidify` looks at the hits of a validation and
  makes none itself (`evolution/evolution.ts:90`), so a dangerous candidate that was
  never validated is written. `DangerCameUnchecked` states what remains.
* The same specification (line 42) has a rollback restore the state before the
  solidify. Backups are in memory only, so after a restart a rollback removes the
  skill (`evolution/evolution.ts:111`). `RollbackRestoresOrRemoves` states both cases.
* The specification of the console (`openspec/specs/web-console/spec.md:69`) asks for
  the documents the current role may see and no others. The page asks once, in the
  name of the staff, and drops the lists of roles (`index.ts:84`), so a cleared role
  is shown documents denied to it, and misses those the staff may not see.
  `KnowledgeIsCleared`, a part of `StoreAgrees`, names both sides.
* The console shows a seat idle while outputs of its wait: after one of several was
  approved (`engine.ts:184`), and after a refresh, since the host knows nothing of
  the instructions given in the page (`index.ts:74`). `BusyForAReason`, a part of
  `StoreAgrees`, allows a seat both.
* Of skills of one name placed in several folders the one scanned last wins
  (`skills/skillRegistry.ts:39`), so an upload that is reported as installed may
  change nothing. `UploadTakesEffect`, a part of `RegistryMatchesDisk`, excuses it.
* `submitOutput` lowers the load each time a task is handed in, so a seat that hands
  one in twice looks idle to `autoDispatch` (`task/taskManager.ts:109`).
  `AutoDispatchPicksLeastBusy` states what remains true.
* `confirmPlan` names no plan and confirms what is installed by then;
  `ConsentMissesOnlyByOverlap` states when that is another than the one seen. Nothing
  calls `dispatchSelected` after it.
* `mentionsFor` shows a message to seats outside its conversation, if it mentions
  them (`collab/messageBus.ts:77`); `ReadersAreAddressed` allows it.

The models also show these, which no property speaks of:

* A line of a simulator that is the JSON value `null` makes `handleLine` read a field
  of `null` outside its `try` (`sim/mcpClient.ts:47`); the exception is not caught and
  ends the process, as the broken pipe of `mcp_contained` does.
* `approve` and `reject` do not look at the status of an output, so a completed one
  returns to executing (`task/taskManager.ts:126`).
* Two skills of one package whose names are sanitised alike share a directory, and
  the second replaces the first (`skills/zipInstaller.ts:77`).
* `skills.yaml` is read at start and after an upload only (`platform.ts:106`).
* A disposal that comes after a user's cancel keeps the cancel's reason, so a late
  wake latches and is replayed as a turn the teardown awaits, against the comment at
  `packages/core/agent-loop/src/agent.ts:187`.
* The console never shows a seat as waiting for approval (`engine.ts:147`), and marks
  the first plan as the best one whatever the scores are (`engine.ts:229`).
* The loader lets parents form a circle, on which `ancestors` and `descendants` do not
  return (`config/load.ts:94`).

## Not modelled

* Persona and model providers keep no state; a model call is something that answers,
  fails or stays silent. The loader runs at start; what it guarantees appears as
  assumptions. `search` and `hasBlockedMatch` of the knowledge base are pure filters.
  The web demo and the mock simulators are not the platform's logic.
* `memory.json` and the engine's `SKILL.md` are written in place; a crash inside those
  writes (it is modelled for the installer), a clock that steps back, and the loss of
  a file between calls are left out.
* The agent harness is some two thousand files with 99% of the repository's
  implementation lines: session storage, providers, sandboxes, extensions, editors,
  user interfaces. The project models the part of it that decides what an agent
  does next and in which order, the loop and the tool scheduler, and leaves the
  rest: it is another product, most of it is rendering, catalogues, adapters and test
  support without state that several actors share, and models of its other stateful
  parts (session log, jobs, compaction) would each be a project of this size. The
  share of mapped lines in the whole repository therefore stays small; of the
  platform itself every stateful file is modelled.

## Plan

Done, in this order: TaskManager, PlanEvaluation over ConfirmedDispatch, McpSession,
CommandChain and MessageBus, Evolution, SeatRuntime, WargameHost over PlanEvaluation,
SkillInstall, AgentLoop, ToolCalls, Console; proofs of every safety invariant of
each. What would come next:

1. The composition of AgentLoop with ToolCalls: a step of the loop is one await, and
   the scheduler should be shown to implement that await's outcomes.
2. The session log behind the agent loop: resume after a crash from a log that ends
   inside a turn.
3. The refinement of a session's outcome from McpSession to PlanEvaluation's `Settle`.
4. A crash inside the writes of `memory.json` and of the engine's `SKILL.md`.
