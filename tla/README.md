# TLA+ specification of PEAR Agent

PEAR Agent is a runtime for plans that people carry out with a voice assistant:
sources are compiled to a plan, an *Execution Session* runs the plan step by
step, and when reality departs from the plan it is replanned. This directory
holds TLA+ models of the parts whose correctness rests on state and order, TLC
configurations that check them on small instances, and TLAPS proofs of their
main properties for every size.

`PROJECT.json` names, for every definition, the source lines it models; for
every property, a plausible bug of the code that the property catches (the
operators called `Mutant...`); and the hazards the properties are for.

## 1. Inventory

| Component | State | Operations | Interacts with |
|---|---|---|---|
| Event reducer (`packages/core/src/execution-state.ts`, `step-state.ts`, `goal.ts`) | session status, plan, step statuses, timers, criterion evaluations, world state, applied event identities: one JSON document | `applyRuntimeEvent`, one case per event type | called by every writer of a session |
| Execution session agent (`packages/cloudflare/src/agent`) with the D1 state repository (`d1/repository.ts`) | a promise chain `writeChain`; the pulse (`revision`, `lastEventId`, `continuation`) in the Durable Object's SQLite; `runtime_events`, `materialized_states` in D1 | create, append, snapshot, connect, plus the operations of continuations, leases and replans | HTTP routes call it by RPC, the scheduler by alarms; it broadcasts the pulse to WebSockets |
| Continuations (`continuation/store.ts`, agent 248-385) | `execution_continuations`, scheduled callbacks | suspend, wake (time, event), claim, complete, fail, recover, expire | writes events through the reducer; Agents Scheduler |
| Session channel (`packages/react/src/session-channel.ts`) | displayed snapshot and continuation, last revision, fetch generation, connection status | hydrate, apply pulse, open/close, refetch, dispose | HTTP snapshot, agent WebSocket |
| Replanning (`replan/*`, `core/replan-apply.ts`) | `plan_patches`, `plan_versions`, event cursor | propose, activate, confirm, record failure | reads a snapshot, calls a language model outside the chain, then writes through the agent |
| Plan compilation (`plans/compile-runner.ts`, `plans/routes/compile.ts`, `d1/compile/*`) | `compile_jobs`, sources with their R2 objects, clarifications, interpretations | start, run (in the request or as a workflow), clarify, answer, cancel, dispatch, expire; add and delete a source | Workflows, language model, plan artifacts |
| Plan artifacts (`d1/plan-repository.ts`, `plan-edit-repository.ts`, `plans/routes/*`) | `plan_artifacts`, `plan_artifact_versions`, edit proposals | save a version, propose and confirm an edit, update metadata | compile runs, edits, session creation |
| Voice lease (`voice/lease-store.ts`, `voice/routes.ts`, `core/voice.ts`) | `voice_leases`: one row per session | acquire, release, expire, compare-and-set of the resume handle | agent chain, clients |
| Voice session (`react/use-voice-session.ts`, `voice/resume-handle-sync.ts`) | epoch, bound session, connection, sync of handles with a timer and a chain of writes | connect, disconnect, suspend, refetch, turn to another session, page hidden | lease routes, voice provider |
| Voice tools (`voice/tool-bridge.ts`, tools route, `voice/tools.ts`) | queue of batches, answers | tool call asked, posted, recorded, answered | voice provider, lease, event log |
| Voice media (`voice/browser-media.ts`, `pcm.ts`) | microphone stream, two audio contexts, buffers and their schedule | attach, capture, play, mute, interrupt, stop | the browser, the connection |
| Plan algorithms (`plan-graph.ts`, `plan-schedule.ts`) | none | validation, order, depths, critical path, schedule | plan schema, presentation |
| AI ports (`ai/src/generate.ts`, `identity.ts`, `planner.ts`, `editor.ts`, `replanner.ts`) | none kept | ask a model, check, ask again, give ids of the runtime | language model, plan schema |
| Plan compiler hook (`use-plan-compiler.ts`, compile calls of `client.ts`) | status, result, error, inspector, the abort controller | compile, wait, answer, cancel, refresh | compile routes |
| HTTP layer, client, template, examples | none of their own | plumbing | — |

Hard behaviours, and where they are met:

- **Interleaving.** Every method of the agent awaits D1 several times; only the
  promise chain keeps read-modify-write sequences apart. (`SessionAgent`)
- **Eviction.** The isolate may die at any await: after a batch and before the
  pulse, the wake, or the call of the scheduler. (`SessionAgent`, `Continuation`)
- **Retries and identities.** Events have an id, unique over all sessions, and an
  idempotency key, unique in one. (`SessionAgent`)
- **Late answers.** A client completes a resume that was recovered and granted to
  somebody else. (`Continuation`)
- **Out-of-order delivery.** Fetches overlap, pulses overtake, sockets lose
  messages. (`SessionChannel`)
- **Replanning under way.** Dependencies and goals change while steps have
  statuses and criteria have evaluations, and a patch is written by a model, and
  confirmed by a human, while events go on. (`ExecutionState`, `Replan`)
- **Races on jobs, versions and sources.** A cancel overtakes a run, a workflow runs
  again after a crash, two writers have read one version, a source is deleted under
  a compile. (`PlanLibrary`)
- **Races on leases and handles.** A user connects, leaves and turns to another
  session at every await of a connect, handles are written by two transports that
  overtake each other, another actor waits for the lease. (`VoiceSession`)
- **Calls asked twice.** The provider asks again for a tool call whose answer was
  lost with its connection. (`VoiceTools`)
- **Late answers in hooks.** (`CompileHook`, `VoiceMedia`)
- **Clocks that differ, rounding.** (`Timers`)
- **A model that writes ids.** (`PlanIdentity`)

What makes each component correct is what its module states as properties.

## 2. Modules

| Module | Models | Extends / instantiates |
|---|---|---|
| `ExecutionState` | the reducer on session, plan, steps and goal | |
| `EventLog` | what a session promises about events (abstract) | |
| `SessionAgent` | the Durable Object's chain over D1, call by call, await by await | `L == INSTANCE EventLog` |
| `Continuation` | suspend and resume, across batch, scheduler and pulse | |
| `SessionChannel` | a client's view of a session | |
| `Replan` | requests to replan and their confirmation, against the events in between | `E == INSTANCE ExecutionState` |
| `PlanLibrary` | one plan artifact: versions, compile jobs, clarifications, sources, edits | |
| `VoiceLease` | the lease row of each session and the agent's methods on it | |
| `ResumeHandles` | `createResumeHandleSync` as functions of a record | |
| `VoiceSession` | `useVoiceSession` over the lease and its syncs | `VoiceLease`, `ResumeHandles` |
| `VoiceTools` | tool calls from the provider to the event log and back | |
| `VoiceMedia` | capture and playback of one attach | |
| `CompileHook` | `usePlanCompiler` and the client calls it makes | |
| `PlanGraph` | `validatePlanGraph`, `topologicalOrder` loop by loop; depths and critical path | |
| `PlanSchedule` | `schedulePlan` | `PlanGraph` |
| `Timers` | the timer events of the reducer over clocks that differ | |
| `PlanIdentity` | one request to a model: attempts, checks, ids, approved subgraph | |
| `...Proofs` | theorems and proofs of the module they name; `CoreProofs`: of `PlanGraph`, `PlanSchedule`, `Timers` and `PlanIdentity`; `ReactClientProofs`: of `SessionChannel`, `VoiceTools`, `VoiceMedia` and `CompileHook` | the modules, TLAPS |
| `MC...` | the constants and bounds of a run | the module or modules |

`MCCore` extends `ExecutionState`, `PlanSchedule` (with `PlanGraph`), `Timers` and
`PlanIdentity`; `MCReactClient` extends `SessionChannel`, `VoiceTools`, `VoiceMedia`
and `CompileHook`; `MCAgent` extends `MCSessionAgent` and `Continuation`, and
`MCReplanLibrary` extends `MCReplan` and `PlanLibrary`. The parts of each share no
state: the variable `part` says which one a behaviour runs, so that a run's states are
the sum of theirs, not the product.

### ExecutionState

One action per accepted event type; an event for which `applyRuntimeEvent`
throws is no step. `plan` is the document, `stepStates` and
`criterionEvaluations` are the maps of the same name. A plan document is a
record of what the reducer looks at: id, version, goal id, steps, `after` lists,
a `body` standing for the rest of a step's document, criteria and completion
policy. `IsPlan` is what the plan schema accepts; the acyclicity test of
`validatePlanGraph` is stated as "every non-empty set of steps has one whose
dependencies lie outside it". `stepsStructurallyEqual` compares serialised
documents, `after` order included; a reordered list is a different `body` here.
`StepEvent` and `PlanUpdated` include the derivation of readiness that ends
those cases. The reducer does not ask whether the session is active, nor whether
a criterion belongs to the goal, and neither does the model.

### SessionAgent and EventLog

`EventLog` is the promise: events are recorded one by one if their identity is
new and the reducer accepts them; the pulse announces a prefix that only grows;
an acknowledged event is in the announced log. `SessionAgent` has RPC calls with
a program counter. The steps of a call are what lies between two awaits that
matter: the read of the state (`AppendRead`), the batch (`AppendCommit`, with the
race path that tells a duplicate from a foreign id), the wake (`Deliver`), the
pulse (`Bump`); a snapshot is two queries. `Commit` writes back the state *the
call read* plus its event, so that without the chain updates would be lost:
`HasTurn` is the only thing that prevents it, and its mutant shows that.
`BatchFails` is a batch that fails for another reason than a unique index: the call
throws and nothing is written. An error of D1 during the wake is left out; it ends the
call after its commit, as the wake that throws does.
`Crash` ends every call under way and keeps D1 and the pulse. The reducer is
reduced to two sets, `Closing` and `Needs`. A session has at most one
continuation here, its first leg.

Assumptions: a D1 batch is atomic; a batch that an evicted isolate had sent has
committed before the new isolate reads, or never does; a Durable Object has one
live isolate. Snapshots return all events; the code returns the newest 100 (or as
many as asked for).

### Continuation

The chain lets one method run at a time, so `at` is the place of the one method
running. What remains hard is between its steps: the batch, the scheduler, the
pulse. `Transition` is `transitionWithEvent`; `status`, `wake`, `holder` and
`attempt` are columns. Timers are a set; a callback runs at any time after it was
scheduled (time is not modelled, so every delay is covered), and is deleted only
when it has ended. `Evict` ends the method under way and keeps rows and timers.
`ScheduleWakeFails` and `ScheduleRecoveryFails` are the catch
paths. The resume window of a claim is over when its recovery timer fires.

### SessionChannel

One client. `fetches` are HTTP requests under way, each with the generation it
was sent for and, once served, its answer; `inbox` is what the socket carries.
The agent is reduced to what `SessionAgent` shows about it: changes are committed
one at a time, each followed by a pulse unless an eviction comes in between, and
snapshots are served between methods. A version number stands for the state.
`Hydrate` is `hydrateHttp` up to its await, `Answer` and `Fail` the rest. `Close` is
a close or an error of the socket, of one that was open or of an attempt to open one, and
may repeat.

### Replan

Methods of the agent are atomic here, as `SessionAgent` shows they may be; requests
are not. A request reads a snapshot (`TakeSnapshot`), then the revision of the
normalized input (`ReadInput`), has the language model assess and write a patch,
and only then calls the agent (`Propose`, or `AppendFailure` when the model or the
domain's checks refuse). `Propose` is `proposeReplan`: rows of an earlier attempt
answer, a patch that no longer applies is recorded as failed, an automatic one that
touches nobody's work is activated, any other waits for `Confirm`, which first asks
for the work the patch changes to be interrupted. The session is `ExecutionState`,
whose actions are reused as they are, so that its derivations run after every
replan.

Abstractions. Types of events are merged by what a replan makes of them (`news`,
`pause`, `step_paused`, `audit`, `plan_updated`). A patch is the plan it leads to
(`Candidates`): operations are what differs (`Touched`). A set of cause events is
one. The language model, the host's capability policies and their downgrades are a
choice: any candidate, any mode that is not weaker (`AtLeast`). `ReadPatch` stands
for the three reads of the confirm route; `SessionCancelled` for every end of a
session. `seen`, `at` and `confirmed` of a row are history variables that only
properties read. The conditions in the statements of `activatePlanPatch` (plan
version, input, rows updated) always hold when it is reached, because the agent is
the only writer and one of its methods runs at a time.

### PlanLibrary

One artifact. `artifact` is its row, `history` the rows of its versions, `jobs`,
`clarification`, `assumed`, `questioned` and `instance` what D1 and the workflow service
know of each job, `sources` and `objects` the rows and the R2 objects of its sources.
Edits (requests that change the artifact) and runs have a program counter; a statement or
a batch of D1 is one step, and so is a row of reads that the following statement checks
again. The version an artifact is created with, which its plan brings along, is `First`.
Runs are inside their request or durable: a durable run that throws or crashes begins its
step again. A step that a workflow runs again although it had made its transition, its
result having been lost, would be a second run of one job beside the first or after it;
that is left out.
Which statement checks what is the point of the module: `SaveBatch` compares the
version, `RunCommit` claims the job and the version together, `UpdateJob` is
unconditional where the code's is. `base` in a row of `history` and the third value
`due` of a clarification (its time has come) are the model's own. Left out: titles,
texts, normalized input and generation records, `updateMeta`. A confirmed edit asks for
active jobs before its batch and not in it, in the model as in the code; a job that
has read the old version by then fails to claim it.

### VoiceLease, ResumeHandles, VoiceSession

A lease is `id`, `holder` and `handle`; holder *None* stands for released, expired
and absent, which every operation treats alike. `ResumeHandles` writes each method of
a sync as a function of its record: the debounce or retry `timer`, the `queue` (chain
of normal writes, with who waits for each), the `put` under way with its second
attempt, and the `writes` of hidden pages, which may overtake. `VoiceSession` has one
record per `connect` (`at` its await, `live` whether its epoch is current), one per
flushing call, and one for `refetchLease`. Handles are numbers in the order the
provider gives them; it may announce the last one again (`AnnounceAgain`), of which
`Schedule` makes nothing once it is stored. `lost`, a history variable, has the sessions
with a call to acquire or release that failed. A lease the client holds should be bound,
in the hands of a call under way, or of such a session (`LeaseIsAccountedFor`). The code
does not keep that: the run `lease_left_behind` is the counterexample. What it does keep is
`OnlyRebindingLosesLease`: no call under way forgets a lease, superseded or not; only the
binding does, when it is overwritten or reset.
`NewestHandleKept` and `HandlesMoveForward` are stated while one sync writes a lease
(`Alone`); a second connect on a bound session makes two.
Left out: what is displayed, the handle a continuation stores, a second timer that a
failing write leaves behind, and `MAX_EXPECTED_HANDLES`: a write expects all its
predecessors here and the newest 32 of them in the code. `resume-handle-sync.test.ts`
reaches that limit (318-344); it makes a write stale that would have succeeded, as a lease
that another transport has written does.

### VoiceTools

A call is asked over connection `n`; batches queue; each call is posted, checked
against the lease (read before the append, as in the route), recorded by the agent
under the identity made of its call id, and told. Three kinds stand for the tools:
`read`, `start` and `complete` of one step. A request to replan is asked and answered like
a read, either way; what it does meanwhile is `Replan`. That the provider asks again, under the
same id, for what it got no answer to is an assumption about it. Connect is one step.

### VoiceMedia

One attach, with the awaits of its two audio contexts, of the permission and of the
worklet; a sample and a chunk are places in a sequence. Samples count as spoken when the
callback delivers them. The line is a status and a `muted`, which the connection keeps
apart: an error replaces the status *muted*, `flushCapture` looks at the status and
`sendAudio` at `muted`. So what is captured while muted after an error is gathered, and
what has not filled a message when the user unmutes is sent with the next one.
`HeardInTurn` says so: nothing captured while the line is closed is ever sent; nothing
captured while muted is, before the first error; after one, less than a message of each
mute. Whether a block is `unheard` depends on what the user asked for (`muted`), not on
what the code looks at. `LeaveMedia` stops the sound and begins to store the resume
handle, `LeaveLine` closes the connection when that is done; turning to another session in
between (`TurnAwayMeanwhile`) is overlooked, as in the code. Awaits a browser may answer
at once are steps all the same, which only adds behaviours.

### CompileHook

A run is a call of the hook: compile, answer, or wait. `Advances` is the next step of
one; the server's answers are arbitrary, since `PlanLibrary` is about them.

### PlanGraph, PlanSchedule

The depth-first search and Kahn's algorithm are actions, an iteration each, over the
code's own stack, queue and maps; depths and critical path, which the code computes by
one pass along the order, are functions on prefixes of it. `ExecutionState` uses the
predicate `IsDag`; `GraphIsRight` shows that the search computes it. `PlanSchedule`
places a step per action at the start `findEarliestStart` finds. The plan schema allows
fractions: durations, times, quantities and capacities are counted in parts, `Parts` of
them to a second or to a unit, so that a step may last half a second and use half a
stove. What adding floating point numbers rounds off is left out.

The limit of 10,000 attempts is the constant `Attempts`. A retry moves on to the end of
a use, or by the duration of the step if that is sooner, so a step of one second behind a
use of three hours runs out of attempts, against the test of that limit
(`plan-schedule.test.ts:154-163`); the run `attempts_run_out` shows it with three.
`RefusalIsDue` says how far a refusal is due nevertheless: some step needs more than there
is, or the step at hand fits at no moment of the time `Patience`, as many times its
duration after its dependencies as there are attempts more than steps placed before it.

### Timers

`now` is true time, and an event's `occurredAt` is `now` plus the offset of its
sender. `ran` and `error` are history: the time a timer really ran, and how far its
rest may be off. `endsAt` is kept while a timer is paused, as in the code; nothing
reads it then.

### PlanIdentity

`question` is what a generator is asked (create, edit, replan), `written` what the
model wrote in the attempt at hand, `result` what the runtime makes of it, `verdict`
how the request ends. The model's answers are any from a set that has, among valid
ones, dangling and repeated ids, cycles, timers of foreign names and steps that
claim the id of an old one. A step's id that is minted is a number and a timer's the
place of the timer, so neither is one of `Names`, the ids that models write and plans
have; which number or place it is does not matter.

## 3. Runs

| Run | Shows | Bounds |
|---|---|---|
| `core` | no sequence of events and replans breaks the step machine, readiness, goal completion or history; graphs are accepted, ordered and measured as their paths say; schedules are feasible, no step could start sooner and none is refused without reason; timers keep time; ids take nothing from a model's answer | reducer: all DAGs of 3 steps, one replan to any DAG of 2 or 3 steps with a step rewritten or not; all goals of 2 criteria, three replans. Graphs: all relations over 3 steps, dangling and repeated ids. Schedules: 4 attempts per step; halves of seconds and units; 3 steps on a resource of three halves, exclusive, shared or only reported, or on two listed by id. Timers: 1 timer of 0 or 2 s, two clocks 100 ms apart, 2.6 s. Identities: 2 attempts, plans of 2 and 3 steps, patches of 1 and 2 operations |
| `attempts_run_out` | (violation) two steps are enough for the limit of attempts | 3 attempts, two steps of 1 to 5 s, one resource |
| `agent` | the log: no lost update, torn snapshot, missed wake or unpublished acknowledgement; refinement of `EventLog`; every call ends. Continuations: one is active; completed only by the latest claim; claims recovered; timed wakes made | log: 3 calls of any kind, 4 events (fresh, same key under another id, ending, foreign id), 1 eviction. Continuations: 2 clients, 2 continuations, 2 attempts, 1 eviction, 1 scheduler fault |
| `commit_without_pulse` | (violation) a committed event can go unannounced without any crash | the log of `agent`, no eviction |
| `timed_suspend_unscheduled` | (violation) the documented "one transaction" of a suspend is two | the continuations of `agent`, no fault |
| `react_client` | the view never regresses, covers every pulse, settles at the durable state; tool calls are recorded once and told truly; the compile hook shows no compile aborted in time; sound stays in turn and ends with its session; all but the sound settles | channel: 1 change, 2 openings or refetches, 1 failed fetch or eviction. Tools: 2 calls, 2 connections, 1 mishap. Sound: chunks of length 1 or 2, messages of 2 blocks, 3 blocks, 2 chunks, 3 times muted, unmuted or broken, lookahead 1. Hook: 2 calls, 2 plans, 1 turn, 2 polls |
| `connected_but_stale` | (violation) the channel reports `connected` over a stale view | channel as above |
| `replan` | a patch is applied only as it was assessed, and never silently to work somebody has begun | 1 request, 1 confirmation, a plan of 1 step that is rewritten, 6 events, a window of 1 event; 1 timer, 1 change of the configured domain in the place of an event |
| `replan_cursor` | (violation) audit events do move the replan cursor a request sees | as `replan`, 3 events |
| `requests` | two requests never record one replanning attempt or one success twice; the reducer takes every patch the agent accepts. Versions of a plan form one line without lost updates; sources of a running compile stay; a waiting job can go on; what has ended is over | replans: 2 requests (interchangeable), 1 confirmation, a plan of 2 steps with one rewritten or removed, 3 events, no timer, 1 change of the input. Library: 2 jobs, 2 edits, 1 source, 1 proposal, first version 2; any 3 of these calls with 1 crash or failure; 2 attempts of a workflow |
| `voice_session` | the newest handle is kept; a lease's handle never goes back; no call under way forgets a lease | 2 sessions, 3 connects, 1 competitor, 2 handles, 5 events from outside |
| `lease_left_behind` | (violation) a lease can be held that nothing knows of, though no call for it failed | as `voice_session`, no handles |

Why the bounds are enough: lost updates and torn snapshots need two calls, a
wake three (suspend, append, retry); an eviction loses all calls under way, so a
second one repeats the first with fewer calls. A late answer needs two claims by
two clients. Three steps are the smallest DAG with a diamond half and a chain,
and a replan may remove, rewrite or rewire any of them; goal completion needs two
criteria (one satisfied, one not) and the return of a criterion after its removal
needs two replans. In the channel, a stale answer needs two fetches around one
change, a lost or repeated pulse two openings. The safety properties that matter
most do not rest on this: they are proved (section 5). In `Replan` the
longest story takes six events: the session starts, its step starts, a patch waits
for the human, the session and the step are paused, the patch is applied. Keys
collide only between two requests. A window of one event stands for that of 100: what
matters is whether events older than the window exist, and of what type those in it
are.

In the library of `requests` each known race is between two calls, or one call and a
crash; a third call (a cancel, an answer, a delete) is what makes a stale writer resume.
In `voice_session` the third connect is the one that finds the session bound or left by
the two before; with two handles one is older. Two tool calls are the smallest batch in
which an answer can be told for the wrong call, and two connections the smallest number
over which one is asked again. To hear a block of a mute takes three switches: an error,
muting and unmuting; a message of two blocks is the smallest that can be left unfinished.
With fewer than four attempts `RefusalIsDue` would promise a third step no wait at all. A
timer paused and resumed twice shows whether rounding adds up, and the invariant is proved
for every number of pauses.

Runs switch off deadlock checking because the systems stop: a session that is
over takes no event, calls are bounded, a disposed channel is silent.

## 4. Liveness and fairness

- `EveryCallEnds` (`SessionAgent`): weak fairness of the step of whichever call has its
  turn. Every await ends because D1 answers or errors, and the event loop runs what is ready.
  Clients are under no obligation to send anything.
- `TimedWakeHappens`, `StaleResumeEnds` (`Continuation`): weak fairness of a running
  method; strong fairness of the timers' callbacks, because they are enabled only while no
  method runs, and the chain, first come first served, gives them their turn. That some
  due callback is made is less than that each is, which the platform owes, and enough here
  because attempts are bounded. Evictions are bounded and have no fairness. The scheduler
  makes a callback again that an eviction cut off.
- `ClientSettles` (`MCReactClient`), one formula for three parts that never run
  together. Channel: weak fairness of pulse delivery while the socket is open, and of
  serving and answering fetches; a fetch may fail instead, and the property says what
  then does not follow. Tools: a promise that has its answer goes on, and a request is
  answered or fails. Hook: timers of the polls fire and requests end one way or the
  other. None of them obliges a user or the provider to do anything. Sound has no
  such property: it goes on as long as somebody speaks.

## 5. What is proved

All theorems hold for every value of the constants that satisfies the named
`ASSUME`s (which TLC evaluates in the runs).

- **ExecutionStateProofs.** The inductive invariant `Inv` is `TypeOK` with the two
  halves of *ready means every dependency is done*, `DependenciesRespected` and
  `BlockedWaitsForSomeone`; neither half survives a step without the other parts,
  since a derivation keeps what the statuses before it say of started steps. The
  lemma `Rederive` says what one derivation establishes, and session creation, step
  events and replans all cite it. `PlanNeverDeadlocks` follows from `Inv` and
  acyclicity: among the unfinished steps one has all its dependencies outside.
  `CompletionAlwaysJustified` and `AutomaticGoalsEnd` come from `GoalInv`;
  `HistoryAlwaysKept` is an action property proved under `Inv`.
- **SessionAgentProofs.** A call past its first await has the turn (`MidHasTurn`), so
  at most one is; so what it read is still what D1 holds (`ReadIsCurrent`), and what
  it is about to commit the reducer accepts (`CommitIsAllowed`). `StateMatchesLog` is
  not inductive without these: they carry it over the await between read and batch.
  From `Inv` follow `SnapshotNotTorn` and, action by action, the refinement
  `ImplementsEventLog` (each step maps to `Record`, `Publish` or a stutter);
  `AcknowledgedIsPublished` follows from the refinement.
  Waking has an invariant of its own, `WakeInv`: the row of a suspension lies just
  after the checkpoint and is the only one, so nothing is news twice (`OnlyNewsWakes`);
  and while a continuation sleeps no call has acknowledged an event it waits for
  (`NoneMissed`). The second speaks of what a call under way will acknowledge too, not
  only of the outcomes, or it would not survive the step from batch to pulse
  (`NoWakeIsMissed`).
- **ContinuationProofs.** A row that is `resuming` holds the claim granted last
  (`HoldsLatest`); the two methods that commit and then schedule find the row as
  they left it (`Scheduling`); a callback under way has already moved its
  continuation on (`FiringIsPast`); and a resume without a recovery timer is that of
  the method about to set it (`RecoveryUnderWay`). From these: `AtMostOneActive`,
  `CompletedByLatestClaim`, `ResumeIsRecoverable`. `AllChangesAnnounced`: a method that
  has committed is on its way to the pulse, on each of its paths.
- **ReactClientProofs.** The channel: generations are unique among fetches, the answer of
  the fetch that counts is no older than the view and covers the last pulse, and pulses of
  one revision are one pulse. From these: `ViewNeverRegresses`, `ViewCoversPulse`.
  `SettledChannelIsCurrent` adds `QuietInv`: the last pulse is the last in an open socket
  or has been applied, pulses of the last revision are that pulse, and the continuation
  shown is that of the view or of the last pulse. The sound (`SoundStaysRight`):
  `MediaInv` says what an attach holds in each phase, that of any chunks playing one ends
  last and the schedule ends with it, and that what was sent and gathered are blocks
  captured, in order. What of a mute is gathered while the line reports an error is fewer
  blocks than a message has, and is lost or sent with the first message after the mute,
  the only one that can have any of that mute. The property is about what remains when an
  attach is over, what plays, and what was sent. The hook (`HookShowsTheLastCompile`): a
  compile that was not aborted is the one that `abortRef` holds, and that is of the plan
  shown; an aborted one that still fetches its plan was aborted late. The tools
  (`ToolCallsStayKept`): the batch that runs waits for one request, the one for its next
  call; so of two calls asked once each the earlier has its turn first (`TurnsInOrder`),
  and, if it succeeded, its row (`RecordedInOrder`). `SuccessIsRecorded` follows good news
  from the log through responses to the provider.
- **ReplanProofs.** The plan a request has read was current when its snapshot was
  taken, and if a `plan_updated` came since, a later version is the plan now
  (`WasCurrent`); its base is no later than what its snapshot knew (`RequestOK`); a
  row inherits both (`RowOK`). So a patch made for the version and the cursor of this
  moment was assessed after the last operational event and the last replan, and what
  came since is audit events, or the interruptions the patch has asked for
  (`AlwaysAppliedAsAssessed`). `KeysAlwaysUnique` is part of the same invariant, and
  `NeverSilent` is an action property under it.
  `SessionIsReduced` shows that replanning only takes steps of `ExecutionState`, so
  all of its theorems hold of a session that is replanned.

- **ReplanProofs**, continued. A patch the agent accepts, the reducer accepts
  (`PatchesAreValid`): the agent applies it to the state it is reduced from, so what
  `applyPlanPatch` checks are the guards of `plan_updated`, given that the session is
  as `ExecutionState` keeps it, which `SessionIsReduced` brings over from there.
- **PlanLibraryProofs.** `IInv` says what each call under way may rely on. Versions are
  one line because the row that takes the next number, the artifact's version and the
  job's claim change in one batch (`LineInv`); a job waits only with a pending
  clarification (`JobInv`); at most one job is active (`OneActive`), so a run that has
  begun owns its job; a source that a run reads was ready when it began, and nothing
  marks it while a job is active (`SourceInv`, `RunningReads`). `Unwritten`: a job that is not
  over has written no version. From these `PlansAreALine`,
  `WaitingJobsGoOn`, `SourcesStay` and the action property `SettledJobsAreOver`.
- **VoiceSessionProofs.** `OnlyRebindingLoses`: a lease of the client that is bound, or
  in the hand of a call, stays so until a call to acquire or release it fails or its
  binding is overwritten or reset. The invariant has, per await of a
  connect, which lease is in hand; an await that finds its epoch gone passes the lease
  on or releases it.
- **VoiceSessionProofs**, continued. `NewestHandlesAreKept` and
  `StoredHandlesMoveForward`. A sync *wants* the handles of its queue and its writes,
  *knows* what it has read or been answered, and *expects* what its compare-and-set
  names. `HandlesInv` has: no handle is newer than what the provider has given out; a
  sync has nothing until its connect binds a lease; as long as one connect alone writes
  a lease, each of its writes expects nothing newer than what it carries
  (`WritesInOrder`: a write that succeeds moves the lease forward); and the newest
  handle of the current connect is stored in its lease, or the sync will still write it
  and nothing it does meanwhile defeats that write (`NewestIsKept`). The last needs that
  no other sync wants this handle and no other lease has it (`OnlyHere`). First, what each
  method of a sync keeps is proved whatever the lease has stored (`Tells`, `Keeps`); then
  every step of the hook is either quiet, running such methods and writing no lease
  (`QuietKeeps`), or one of the few that bind, write or read a lease, which have a lemma
  each. The action property needs besides that who holds a lease has one
  (`HeldHasNumber`).
- **CoreProofs**, timers. `TimeIsKept`: rounding up to whole
  seconds adds less than a second at each pause and the clocks' difference at each run,
  by induction over steps (`TimersIInv`: types, timers that never ran are fresh, and the
  property).
- **CoreProofs**, graphs. `GraphAlwaysRight`: in every call of `schedulePlan`, whatever
  the list of steps, a graph is refused exactly if ids repeat, a dependency dangles or
  there is a cycle; what `topologicalOrder` returns has every step once, after its
  dependencies; depths and critical path are those of the paths. `GraphInv` follows the
  loops:
  - *Search.* The stack is a path from the step the search began at (`PathIsSimple`,
    `PushedFromPath`); what is done is closed under dependencies and has no cycle
    (`DoneIsClosed`, `DoneIsAcyclic`); so a dependency found on the path is a cycle, and a
    search that ends has found none.
  - *Sort.* The count of a step is how many of its dependencies are not in the order;
    the queue and the order have exactly the steps whose count is zero. A sort that runs
    out of queue with steps left would leave a set where each waits for another, which an
    acyclic graph does not have.
  - *Depths and critical path.* Both are recursions along the order. What such a function
    returns is stated by its equation and extended to all of a prefix, and to paths of any
    length, by taking a least counterexample (`LeastNumber`, `AllNumbers`,
    `GreatestNumber`): induction as first-order logic, which does without the theorems
    that have an operator as a parameter.

- **CoreProofs**, schedules. `ScheduleAlwaysRight`: every step starts when its
  dependencies have ended; with resources resolved, at the first moment where it fits
  beside the steps placed before it; without, a conflict is reported of exactly those
  that do not fit; nothing is overbooked at any moment in a schedule without conflicts; a
  refusal means a step that needs more than there is, or one that fits at no moment of
  (attempts − 1 − steps placed) times its own duration after its dependencies; the
  schedule is no shorter than the critical path, and as long where resources are not
  resolved.
  - *Sums.* The code sorts begins and ends of uses and takes the maximum of the running
    sum; the property sums what is in use per moment. `PeakIs` relates them: the peak
    within an interval reaches an amount exactly if the load of some moment does. One
    way, at a moment of load the sum after the last begin up to it is as large
    (`LoadIsReached`); the other way, a change after which something is in use is a
    moment of as much load (`UsageIsLoad`).
  - *Search.* Until the first use of an overloaded resource ends, the step does not fit
    (`NextSkips`), so a retry skips no moment where it would (`RetrySkips`,
    `EarliestIs`). A retry moves on to an end of a use, of which there are no more than
    steps placed, or by the whole duration of the step; so a search that gives up has
    covered the time `RefusalIsDue` names.
  - *Loop.* `ScheduleInv` is `GraphInv`, `StartsAreRight`, `RefusalIsDue` and that the
    steps placed are the first of the order, for as long as their durations. Placing a
    step changes nothing about the ones before it (`FitsStay`, `ReadyStays`).
    Feasibility (`NotOverbooked`) and length (`EndsAreFinishes`) follow from
    `StartsAreRight` by induction over the order.

- **CoreProofs**, identities. `IdentityAlwaysRight`: whatever a model answers and however
  long its answer is, an accepted plan is the one that was meant, with new ids for just
  the new steps, and an answer is accepted just if it may be had.
  - *Renaming.* Names of new steps are numbers, names of a model are not, and no two new
    steps get the same (`MintedAreNew`, `AddedAreNew`), so renaming is injective
    (`RenamedIsInjective`) and keeps which steps depend on which (`Alike`), hence
    acyclicity and the rest of the schema (`ShapeIsKept`). With the timers renamed a plan
    fits as before (`FitsWithTimersRenamed`); with the timers left alone, just if they
    are linked to steps of the base (`FitsWithTimersKept`).
  - *Patches.* Applying the rewritten operations and applying them as the model meant
    them filter, replace and append at the same places (`PatchedAlike`), so one plan is
    the other renamed (`PatchIsRead`); and the check of the approved subgraph refuses
    exactly the patches that change a step twice or one they may not (`PatchApplies`).
  - `IdentityInv` says only which checks an answer went through; the rest is about
    operators.

`PlanIdentityAssumption` says that plans and patches are lists of what their schemas
allow, that no number is a name a model writes or a plan has (ids are minted at random),
and that the plan an edit or a replan starts from was accepted before.
`PlanScheduleAssumption` says that steps, dependencies and requirements are lists,
durations, quantities and capacities natural numbers of parts, and that there is an
attempt. The theorem is for every number of parts to the unit, so for all fractions.
`FirstAssumption` of `PlanLibrary` says that versions begin at 1 or later.

Types are proved of `ExecutionState`, `SessionAgent`, `Continuation`, `SessionChannel`,
`VoiceTools`, `VoiceMedia`, `CompileHook`, `Replan`, `PlanLibrary`, `Timers` and
`VoiceSession`, and are a run's invariant nowhere: a proof covers more. So does
`BlockedWaitsForSomeone` (`ReadinessNeverLost`).

Every safety property of the passing runs is thus a theorem. Only model-checked are the
liveness properties, since the prover has no ENABLED, and the six disagreements below,
which are counterexamples.

## 6. Disagreements between code and documents

1. *An event can be committed without its pulse* (`commit_without_pulse`): if the
   event ends the session and a continuation waits for its type, the wake throws
   after the commit, the caller gets an error for a recorded event, and no pulse
   goes out.
2. *Suspending until a time is not one transaction* (`timed_suspend_unscheduled`):
   `docs/resume-protocol.md` says it is; an eviction after the batch leaves a
   continuation whose time nobody watches.
3. *A channel can report `connected` over a stale view* (`connected_but_stale`): a
   failed fetch is not retried, and a repeated pulse clears its error.
4. *Audit events can move the replan cursor* (`replan_cursor`): `replan-apply.ts` says
   they do not advance it, but a request computes it from the events of its snapshot,
   the newest 100; when these are all audit events it is null, and a patch made then
   is recorded as failed although nothing happened to the session.
5. *Two steps run out of attempts* (`attempts_run_out`): the test of the limit holds that
   only 10,001 steps that compete for one resource can.
6. *A lease can be left behind* (`lease_left_behind`): the comments on
   `boundSessionIdRef` say that cleanup releases what is bound. The answer to a release
   resets the binding by the session's id alone, although the session has been acquired
   again meanwhile; and an effect that cleans up while a disconnect is under way returns
   at once, so that the next connect overwrites the binding. The lease then lasts until
   it expires.

Known without a run of their own, met while modelling and left out of what the
properties claim:

- *Agent, channel.* After an eviction between a claim's batch and its recovery timer
  nothing recovers the claim (`ResumeIsRecoverable` is stated up to the first
  eviction); a retry that repeats only the idempotency key does not deliver its event
  again; a pulse's continuation can replace a newer fetched one.
- *Voice session.* `refetchLease` may show a lease read before a newer one was
  acquired; the catch path of a superseded connect
  releases whatever is bound; a second connect on the bound session makes two syncs
  write one lease; a flush may drop the newest handle; no client renews a lease.
- *Voice tools.* The lease is read before the event is appended; an answer that is
  lost although recorded is told as a failure; disconnecting does not advance the
  epoch, so batches left over still run; a second connect leaves the first connection
  open without listeners.
- *Voice media.* Samples captured while muted and delivered after unmuting are sent;
  after an error of the line so are the last blocks of a mute, fewer than a message has;
  a disconnect during an attach leaves the microphone on, and so does turning away while
  that disconnect is under way (`use-voice-session.ts:290`): only turning away without
  one is covered.
- *Compile hook.* The rejection of an aborted run may set error and status after a
  newer compile, or another plan, has begun; a quiet refresh of the old plan shows its
  inspector under the new one; a late `getPlan` overwrites a newer result.
- *useExecutionSession* (not modelled): a create under way when the hook is given a
  session binds it to the created one.
- *Identities.* Edits and patches do not rename timers, so an added step whose timer is
  linked to a new step is refused (`LinkedToNew`); a patch that adds a step under an
  old step's id redirects dependencies on that step and is accepted (`Shadows`).

## 7. Plan

The modules planned are written, and every safety property of the passing runs is a
theorem. What may follow is breadth: the parts of section 8 that keep state, each with
its hazards, and the late clauses of `use-voice-session.ts` listed above.

## 8. Not modelled

Request parsing, authorization (host-supplied), formatting and logging; the import
of public URLs; the content of prompts and answers of language models (any answer is
possible where one is called) and their metadata; capability policies beyond the mode
they lead to, and a list of capabilities that is stale when a patch is confirmed; the
conversion of audio samples; bodies of R2 objects; `updateMeta` of an artifact;
`useExecutionSession`; the project template, the examples and the web site, which make
up much of the lines of the repository and have no state of their own. Raw inputs are
written once and referred to by nobody; world state and observations are
replaced or appended whole, and no guard reads them.
