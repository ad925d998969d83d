# DeepSeek Harness: verification of the agent core

TLA+ specifications of the parts of DeepSeek Harness whose correctness depends
on interleaving, failure and restart, with the TLC runs that check them on
small instances and the TLAPS proofs that hold for every instance. Source paths
below are relative to `src/packages/`.

- [The system](#the-system)
- [What is hard](#what-is-hard)
- [Modules](#modules)
- [Runs](#runs)
- [Fairness](#fairness)
- [Proofs](#proofs)
- [Where the code and its documentation disagree](#where-the-code-and-its-documentation-disagree)
- [Not modelled](#not-modelled)
- [Plan](#plan)

## The system

The harness is a plugin host. A *session* is an append-only log of events; an
*agent* drives a model over it, turn by turn; everything else is a service that
feeds the agent, observes the log, or stores it. One JavaScript event loop runs
all of it, so concurrency is what happens at an `await` and inside a
synchronous notification.

| Component | State | Operations | Talks to |
| --- | --- | --- | --- |
| Agent driver, `core/agent-loop/src/agent.ts` | phase (idle, maintenance, running), abort controller, latched wake, turn and step numbers | `followup`, `steer`, `inject`, `cancel`, `runMaintenance`, `whenIdle`; the loops `kick` and `turn` | inbox, session log, hooks (`agent/pre-step`, `agent/status`, ...), tool scheduler |
| Inbox, `core/agent/src/inbox.ts` | two message lists | `enqueue`, `claim`, `remove`, `clear`, ... | publishes each change to the session log |
| Agent registry and lifecycle, `core/agent/src/index.ts`, `core/agent-loop/src/index.ts` | agents, initiator state, ownership | create, resume, publish, dispose | sessions, persistence |
| Tool scheduler, `core/agent-loop/src/tool-calls.ts` | group, started and committed cursors, slots, active set | one call per assistant message | tool runtime, session log |
| Tool runtime, `core/tools/src/index.ts` | registered tools | prepare, dispatch, finalize | policy hooks, tool bodies |
| Session, `core/session/src` | event log, next seq | append, fork, repair | every observer of `session/event` |
| Write-behind, `session/session-persistence/src/write-behind.ts` | pending events, active batch, timer, barrier | `enqueue`, `flush` | the coordinator's write |
| Persistence coordinator, `session/session-persistence/src/coordinator.ts` | cursor and promise chain per id, live sessions, prepared sessions | create, append, load, prepare, flush, trim, fork, retire, teardown | sessions, back ends |
| Storage back ends, `session/session-persistence-{jsonl,sqlite}` | files | append batch, load, trim | the file system |
| Background jobs, `jobs/jobs-local`, `jobs/tool-jobs` | job records, waiters, owner cleanups | start, read, wait, kill, dispose owner, dispose all | producers, agents |
| Goal, `goal/goal/src` | a fold of the log, armed or not | create, edit, pause, resume, complete, block, clear | session log, round driver |
| Goal rounds, `goal/goal-round-driver/src/index.ts` | one reserved attempt, one run, three flags | listens to the goal, the inbox, turns and status; sends follow-ups, rejects steps | goal, agent driver, persistence |
| Schedule, `schedule` | a fold of the log, timers | observes idle, dispatches reminders | agent driver |
| Retry, approval, questions, `llm/llm-retry`, `interaction` | attempts, open requests | wait, answer, abort | a step's signal |
| Rewind, `rewind` | snapshots | restore, fork | coordinator, lifecycle |
| Subagents, `subagent` | child agents | start, continue, report | lifecycle, jobs |
| Hosts, clients, tools, model adapters | view state, sockets, processes | I/O | all of the above over remote calls |

How they interact. A sender puts a message in the inbox and may *wake* the
driver; the driver claims messages, opens a turn and its steps, calls the
model, hands the assistant's tool calls to the scheduler, and decides whether
the turn goes on. All of it is appended to the session; each append is
published synchronously, and the persistence coordinator enqueues the event on
the session's write-behind, which writes batches through the coordinator's
per-id promise chain to the back end. After a crash the stored log is loaded,
closed where it was interrupted, and a new agent resumes on it.

What makes each part correct:

- *driver*: one owner of the phase; no message lost, doubled or in two places;
  a cancel stops work and converges; a latched wake is delivered; turn and step
  boundaries are legal across failures and crashes;
- *tool scheduler*: a transcript in model order with one honest result per
  call, a bounded pool, barriers, a clean drain on failure;
- *write-behind*: ordered, lossless, bounded delay, truthful flush;
- *coordinator*: the stored log is a legal prefix of the session's log, the
  cursor is true, drains end, and trims do not corrupt;
- *jobs*: the first end stands, reaches the owner once, and teardown joins the
  work; *goal*: each admitted round is the next one of the live revision, an
  abort halts the goal, a free goal goes on; *schedule*: no reminder twice or
  lost; *lifecycle*: an agent is published whole or not at all.

## What is hard

`PROJECT.json` lists each hazard at its line. They are of five kinds.

1. **Reentrancy.** `session.append`, `agent/status` and inbox splices notify
   listeners synchronously. A listener may send, cancel or start maintenance
   while the notifier is in the middle of its own change: a message already
   classified as waking, an inbox half cleared, a driver that is idle but has
   not settled its promise.
2. **Stale reads over an await.** The claimed batch, the abort signal, the mode
   of a queued tool call, the cursor of a stored log are read before a
   suspension and used after it.
3. **Failure in the middle.** A refused append, a failed batch, a hook that
   throws, a drain whose write fails.
4. **Crash and restart.** What the log holds at the crash decides what the next
   driver believes.
5. **Waiting.** `whenIdle`, `flush`, retirement, trim and teardown each await
   something another of them may be holding.

## Modules

| Module | Models | Extends / instantiates |
| --- | --- | --- |
| `TurnLog` | the turn and step grammar of `core/session/src/invariant.ts`, abstractly | |
| `AgentDriver` | the agent driver and its inbox | `TurnLog` (refinement) |
| `AgentDriverProofs` | theorems about `AgentDriver`: phases, wakes, the log, aborts | `AgentDriver`, `TLAPS` |
| `AgentDriverInboxProofs` | theorems about its inbox and the endings of turns | `AgentDriverProofs` |
| `ToolScheduler` | `executeToolCalls` and `runGroup`, the tool runtime as they see it | |
| `ToolSchedulerProofs` | theorems about `ToolScheduler` | `ToolScheduler`, `TLAPS` |
| `OrderedSink` | what a write controller promises | |
| `WriteBehind` | `SessionWriteBehind` | `OrderedSink` (refinement) |
| `WriteBehindProofs` | theorems about `WriteBehind` | `WriteBehind`, `TLAPS` |
| `SessionWrites` | the coordinator's write path of one session id | `WriteBehind` (composition) |
| `SessionWritesLemmas` | facts about its logs, queued positions and chain | `SessionWrites`, `TLAPS` |
| `SessionWritesProofs` | theorems about `SessionWrites` | `SessionWritesLemmas` |
| `BackgroundJobs` | `LocalJobRegistry` and the completion notices of `tool-jobs` | |
| `BackgroundJobsProofs` | theorems about `BackgroundJobs` | `BackgroundJobs`, `TLAPS` |
| `GoalRounds` | the driver of goal rounds, the goal service, and the agent as both see it | |
| `GoalRoundsProofs` | theorems about `GoalRounds` | `GoalRounds`, `TLAPS` |
| `MC...` | the modules with small constants, for TLC | |

### AgentDriver

An action is what runs between two points at which other code can run: an
await, or a synchronous notification. The call stack is explicit. `stack` holds
the work still to resume, so a listener's `Send` inside a `Cancel` inside the
driver's publication of `turn/end` is three frames; the innermost resumes
first. While the session publishes an event it refuses appends, so during those
notifications (`Publishing`) only the calls that append nothing are enabled.

| Code | Model |
| --- | --- |
| `Phase.kind`, `wakeRequested`, the signal's reason, `turn`, `step` | `phase`, `latch`, `abort`, `turn`, `step` |
| position of `kick`/`turn`/`preStep` | `pc`; `AwaitPcs` are the awaits, `SyncPcs` the notifications |
| `Inbox.nextTurn`, `nextStep` | `nextTurn` (a sequence, claimed one at a time), `nextStep` (a set, claimed whole) |
| `send`, `followup`, `steer`, `inject` | `Send(m, target, wakeup)`, then `SendWakes` after the inbox publication |
| `cancel` | `CancelKeepingInbox`; `Cancel`, `CancelClearsTurns`, `CancelAborts`: one publication per cleared list |
| `runMaintenance` | `RunMaintenance`, `MaintenanceSettles`, and `LatchReplays` after the idle notification |
| `turn` | `TurnOpens`, `FirstClaim`, `PreStepDecides`, `StepOpens`, `StepReturns`, `StepThrows`, ..., `TurnContinues` |
| `kick`'s `finally` | `DriverExits`, `LatchReplays` |
| `initiatorState` | `accepting`, `RegistryCloses`, `DriverStranded` |
| `interruptedTurnClosers` and the constructor on resume | `CrashAndResume` |

`log` keeps the boundaries the properties need: the open turn and step, how many
there were, the last reason. `fate` is history. The step
itself is its outcome (`StepReturns`, `StepThrows`); its inside is `ToolScheduler`.

### ToolScheduler

One step's calls. `started` and `committed` are the two cursors of `runGroup`,
`slots` its array of settled results, `inFlight` the set it races. Each call's
dispatch has a `stage` of its own; a wrapper may abort a call's signal without
the step's being aborted. `mode` may change under the scheduler (`Reclassify`),
which is why `fillPool` asks again before each start. Appends may be refused
(`CallRefused`, `ResultRefused`, `SkipRefused`).

### WriteBehind

`pending`, `batch` and `writing` are the queue and the active write, `timer`,
`deadlineExpired`, `automaticPaused` the controller's flags, `barrier` the stage
of `drainBarrier` and `call` where each `flush` stands. A continuation that runs
in a later microtask is an action of its own (`ContinueAutomatic`,
`BarrierContinues`, `BarrierFails`), so an `Enqueue` can land before it; a task
(`Deadline`, the outcome of a write) cannot. `accepted` and `durable` are
history and are the variables of `OrderedSink`.

### SessionWrites

It instantiates `WriteBehind` with positions of the session log as events and
four flush callers: a user, retirement, teardown and a trim. It adds the
coordinator's record of the live session (`init`, `seed`), the cursor
(`state`), the per-id promise chain (`chain`, whose head runs), and the stored
log. A write the controller starts has to be called, queue on the chain, run,
and settle (`request`). `Crash` may store any prefix of the batch in flight.
A log is reduced to turn boundaries: an interrupted turn is a
`"start"` with nothing after it and a repair adds a `"closer"`.
`Beyond` is the filter that keeps the events whose seq is not below the cursor: a
batch ascends (part of `TypeOK`, proved), so what the filter keeps is its end.

A resume goes through the id's entry in `SessionPreparations`. `phase` and
`source` are the entry, `own` the callers whose entry is still the one in the
map (the code compares objects), `resume` how far each `prepare()` call got and
`draft` the seed of the Session it holds.

| Code | Model |
| --- | --- |
| `prepare`, each round of its loop; `inspect` | `Reserves(r)`, `ReserveRefused(r)`; `Inspects` |
| `prepareCore` on the chain, for an entry that may be gone | `Prepares` |
| `reserve` after its awaits, `commitPrepared` on the chain | `TakesReady(r)`; `Commits(r)`, which retries, fails or succeeds |
| `release`, `touch`, an abort while queued, `invalidate` | `Releases(r)`, `Evicts`, `ResumeAborts(r)`, `Invalidates` |
| `initFor` with `reservationFor` and `attachPrepared` | `Publishes(r)`, `PublishRefused(r)`, then the operation `"suffix"` or `"init"` |

An append without a cursor adopts the stored log. `prepareCore` asks the session
store for a Session of the id, which is refused while one is live (`Preparable`,
`Writable`): then the append fails and leaves log and cursor alone
(`AdoptionFails`). `owned` says that the cursor's owner is the session,
which retirement checks. `stale` is history and never falls: trimCore says "The caller
stops and drains the owning agent first", and it is set when a trim cuts the log of a
session whose initialization has read it, so that a caller did not.

The revision of the stored log is its content: an equal log under another
revision only costs the code one more round. A resume is published
while the plugin is up; a reservation held over a reload is published as a fresh
Session over the stored log, as in the code.

Seen while modelling: a trim drops a reservation that is held, so that its Session
is then published as a fresh one. Its seed still covers the trimmed log,
`adoptLivePrefix` takes the events beyond the cut for an unsaved suffix, and
stores them again: `Publishes`, then `Initializes`. Log and store agree, so no
property fails, but the trim is undone. The comment at `coordinator.ts:917`
speaks of the next preparation only.

### BackgroundJobs

A job has three views: what its producer does (`work`), whether the `done`
promise has reached the registry (`work` moves to `"over"` when it has), and the
record (`status`, `reported`, `kept`). Calls on the registry are synchronous, so
each is one action; `wait()` is three, since its continuation runs in a later
microtask: `WaitBegins`; `WaitTimesOut`, `WaitAborts` or the release inside
`Settle`; `WaitReturns`, which uncounts and reads the record as it then is. The
difference the code insists on is in `counted`: an aborted wait uncounts in
the span of the abort, one that timed out only when it continues.

| Code | Model |
| --- | --- |
| `TrackedTask.status`, `reported`, `owner`, the store | `status`, `reported`, `owner`, `kept` |
| `waiters`, `waitResolvers` | `wait[w]`: where the call stands, for which job, counted or not |
| `settle` | `Settle(j, outcome)`: status, report if counted, release, then `Notifies` |
| `cancelForTeardown` | `CancelForTeardown(jobs, throwing)`, for any set of cancels that throw |
| `ensureOwnerCleanup`, `disposeOwned` | `Attach`, `OwnerUnloads`, `OwnerDrains`, `OwnerDrained`, `OwnerLeaves` |
| `disposeAll` | `ServiceDrains`, `ServiceDrained` |

`told` is history: who learned of an end. `orphaned` holds the jobs whose
cancel threw, for which the code itself gives up.

### GoalRounds

The driver's listeners run inside the call that triggers them, so a pause inside an idle
notification starts a run that reserves a round whose follow-up wakes the
agent, all in one span. Handlers are therefore functions from a world
(`goal`, `driver`, `agent`) to a world, and an action composes those that
run between two awaits.

| Code | Model |
| --- | --- |
| the fold of `goal/change` and round messages, `cache.activation` | `goal`: phase, revision (`ref`), cap, rounds, `armed`; `corrupt` once the fold would throw; `stored` when every change is flushed |
| `DriverState` | `driver`: attempt, `competing`, `needs` (checkpoint), `requested`, `run` (whether `state.run` is set); `loops` and `flushes` count the runs at the head of their loop and in their flush, as a change inside a run starts a second one before `state.run` is set |
| the pre-step pipeline | `agent.pc`: `claimed`, `checked` (first check passed), `decided` (second check passed), `rejecting`, `stepping` |
| `agent/inbox/*`, `agent/status`, `turn/end`, `goal/changed` listeners | `Send`, `OpenTurn`, `CancelWorld`, `HearsIdle`, `HearsAbort`, `GoalChanged` |
| `requestDrive`, `drive` | `RequestDrive`, `RunLoops`, `Drive`, `FlushSettles`, `FlushFails`, `DriveOn`, `Reserve` |

The agent is the one of `AgentDriver` without the gaps between its microtasks,
one injected note standing for the next-step inbox.

Three orders of steps undo a check the driver has made. The model has all of them;
`past` is history that remembers each for as long as what it left behind stands, no
action reads it, and the properties say which of them they except. A run of its own
shows each:

- `late`: the goal changes after the second check, while a pre-step listener
  registered before the driver still awaits outside it (`goal_rounds_late`).
- `loose`: the plugin unloads past a round it neither cancels nor fences, since the
  agent was not running (the round waits behind maintenance), or the turn
  that claimed it no longer has an attempt (`goal_rounds_loose`). The comment at
  `goal-round-driver/src/index.ts:433` takes the first for unreachable.
- `forgot`: `retire()` clears `state.run` whichever run it holds
  (`goal-round-driver/src/index.ts:233`). Of two overlapping runs the one that is no
  longer held still retires; a change in the microtasks in which it does (`StaleRun`)
  starts another run, and the retirement forgets that one. The next trigger then
  starts a third, which finds the checkpoint already asked for and reserves while
  the second is still in its flush (`goal_rounds_stale`).

Seen while modelling, harmless to the properties: an edit while a round waits
in maintenance leaves two rounds queued, of which the second pauses the
goal; `competingQueued` stays set after a prompt queued in maintenance is
cancelled, so the goal waits for the next turn.

## Runs

| Run | Instance | Distinct states | Shows |
| --- | --- | --- | --- |
| `driver` | 2 messages, depth 2, 2 steps, 1 crash | 323 thousand | phase ownership, latch discipline, the account of messages, follow-ups own their turn, a legal log, aborts stop work, endings tell the truth; a cancel converges, a latched wake is delivered |
| `tools` | 3 calls, pool of 2, 1 reclassification | 2.0 million | model order, honest outcomes, every call answered, clean failure, calls start in turn and within the pool, aborts and failures stop dispatch; the tool phase ends |
| `write_behind` | 4 events, 2 callers, 2 failures | 246 thousand | order, no loss, truthful flush, nothing stranded, refinement of `OrderedSink`, eventual durability |
| `session_writes` | 3 events, 1 failure, 1 crash, 1 reload, 1 trim, 2 resumes | 616 thousand | no loss between log, queue and store; legal store under a true cursor and a true reservation; quiescent flush; release only when stored; drains and resumes end |
| `background_jobs` | 2 jobs, 2 waiters, 1 owner and the unowned bucket, limit 1 | 141 thousand | one end per job, nobody misses it, notices are news, running work is counted and joined, teardowns end |
| `goal_rounds` | 2 rounds, 3 human changes, 1 prompt, 1 note | 1.5 million | but for the three orders above, admitted rounds fold and every reservation is checkpointed; an abort halts the goal, a free goal goes on |
| `driver_teardown`, `writes_trim`, `writes_stale`, `goal_rounds_late`, `goal_rounds_stale`, `goal_rounds_loose` | smaller | | the disagreements listed below |

Why the bounds are enough. *Driver:* the code tells one message from none, and
the head of a list from the rest; two messages cover a claimed one beside a
queued one in either list. Depth 2 is a listener inside a notification; a third frame
repeats the situation of the second, as each call leaves at most one frame and
reads only the phase. Two owed steps give a first, a later and a stopping
step. One crash gives a resumed driver with a nonzero turn number. *Tools:*
three calls with a pool of two give a waiting call behind a running one, a barrier between two parallel
calls, and an out-of-order settlement; one reclassification reaches each call
at each place. *Write-behind:* four events fill a batch, a queue behind it and
an arrival during a barrier; two callers join or overtake each other, and
two failures fail a background write and then the barrier that overtook it.
*Coordinator:* three events are a turn, closed, and another one open. Failures,
crashes and reloads are each one because each resets what it touches. Two
resumes share a load, wait for each other's reservation, or come one after the
other over a crash.
*Jobs:* jobs do not read each other's records except through the count of a
bucket and the set a teardown drains; two jobs give a full bucket, a second
bucket, and one settled beside one live in the same drain. Two waiters give one
that leaves beside one that stays. *Goals:* two rounds are a first and one
that is the last; three changes are a creation, a change during an await, and
the human's answer to it; each other actor interferes once, between any two steps.
Pauses and blocks by the driver are not counted as human changes but use up
revisions, which bounds the run.

`CHECK_DEADLOCK FALSE` is set where the system may rest: an idle agent with
nothing to do, an empty queue, a finished step, jobs that have ended, a goal
that waits for its human.

## Fairness

- *Driver* (`FairSpec`): synchronous work and microtasks always get to run, and
  an await whose signal has aborted settles (the loop passes that signal to the
  model, the tools and the hooks, and races it). A live await owes nothing: no
  property says a model answers.
- *Tools*: prepare, dispatch and finalize settle, as does the scheduler's own
  work. A tool that never settles hangs its step in the code too.
- *Write-behind and coordinator*: timers fire, microtasks run, the back end
  answers every operation, perhaps with a failure, and a call that awaits a settled promise
  continues; who holds a reservation publishes or releases it, as the `using` of
  `agent-loop/src/index.ts:634` does on every path. Sessions owe no event, users
  no flush, and nothing forces a crash, a trim, a reload or a resume.
  `DrainsEnd` promises nothing to a caller of `prepare()` while a session stays
  disposed after a retirement that failed: its record stays until a reload, and a
  resume of the id beside it is not modelled.
- *Jobs* (`FairSpec`): a producer that was asked to stop ends, an ended one's
  promise reaches the registry, and a teardown whose records have settled
  resumes. `jobs-local/src/index.ts:504-505` says the same of a cancel that
  returns without settling. A running job owes nothing, nor does a waiter.
- *Goals* (`FairSpec`): some run at the head of its loop continues
  (`SomeRunLoops`), some flush settles, perhaps with a failure (`SomeFlushEnds`;
  `DrainsEnd` of the coordinator). No hook, step or human owes anything.

## Proofs

TLC checks the instances above; the theorems hold for every set of messages or
events and every bound. All are proved from the named assumptions on constants
alone (`DriverAssumption`, `BoundsAssumption`: bounds are natural numbers, and a session log
may hold the one closed turn a fork starts with;
`SchedulerAssumption`: at least one call, a cap of at least one;
`JobsAssumption`: the limit is positive, and the markers are no owner and no job;
`RoundsAssumption`, `NoneAssumption`: caps and bounds are numbers, and the marker
is no message and no reservation).

**`AgentDriverProofs`.** `TypeCorrect` is proved in four parts (stack, log,
inbox, control). `OwnerAlways`: `PhaseHasOneOwner` is inductive, one step per
action. `LatchAlways`: `LatchDiscipline` is not inductive. A send classified as
waking behind an abort latches later, when its frame resumes, so the invariant
has to say what such a frame may still find: `FlaggedWakes` says that as
long as such a frame is anywhere on the stack the activity is still the aborted
one and not idle; a stack without one is `Calm`, and pushing an unflagged frame
or popping keeps it so. `LogAlways`: the
driver's turn and step numbers agree with the log (`LogFollowsDriver`), from
`TypeOK` and `PhaseHasOneOwner`. `DriverImplementsTurnLog` follows: with the numbers known
to agree, each append is a step of `TurnLog`, and every other action leaves the
log alone. `AbortAlwaysStopsWork` is the action property, from `TypeOK`.

**`AgentDriverInboxProofs`.** The account of messages and what a turn says of
itself. `InboxAccount` speaks of cardinalities and of where a claim may stand;
the inductive `Account` says instead that nothing is in the queue twice
(`NoneTwice`), that the lists are apart and hold the pending messages (`Lists`),
that the claimed ones are the proposal, held only between its claim and its entry,
and that a proposal whose decision lets nothing enter is empty (`Claims`; that last
part is what a failed or rejected step relies on). The five actions that touch the lists
have a lemma each, for claims, sends, removals and the two halves of a cancel;
`QueueSize` gives the cardinality back. `FollowupAlwaysOwnsTurn` needs to know
that an open turn which has not claimed yet has taken none (`OneFollowup`).
`EndingAlwaysTellsTruth` is the action property: of the steps that end a turn, those
that report success find the proposal empty by `Account`, and the reason a step left
behind is never that of an abort (`EndsSoFar`).

**`ToolSchedulerProofs`.** Every safety property of the scheduler, for every
number of calls and every cap. The inductive invariant is `Ledger`: the cursors
are ordered and a group is left only with everything committed (`Cursors`);
what runs is in the race, and a call being prepared has its place in the pool
kept (`Fleet`); a failure is noticed before the scheduler refills (`Control`);
each started call that is not committed runs, has a slot or is being prepared,
and a filled slot tells the truth about its body (`Accounts`); and the log agrees
with the cursors and the slots (`Transcript`). The step that is hard to see is
that an emptied race means a committed group, which makes the
"uncommitted settled calls" error unreachable: behind the last commit the race
still holds the next call to commit (`TurnKept`), since that call was started, has no slot
and without a failure must run. Steps that append nothing share one argument
(`LogKept`), and the five that append have a lemma each; the pairs appended for
skipped calls are numbered by `SkippedEventsShape`. `CallsStartInTurn` then reads
the group off the cursors, and counts the pool by `Fleet`; `StopsAtOnce` rests on an
abort being read again before every refill.

**`WriteBehindProofs`.** The strengthening `Discipline` says who may
write and when a deadline may be armed: without an active write the batch is
empty, the barrier writes exactly when the active write is its own, its
microtask stages run beside no write, and an armed timer means that something is
queued, that no failure paused the automatic path and that no barrier is open.
From `TypeOK` and `Discipline` follow
`RetainedAlways` (a sequence argument: a write moves the queue to the batch, a
failure puts it back in front), `DeadlineAlways`, `FlushAlwaysDurable` (a call
is settled only where the queue and the batch are empty, and what is durable
only grows), `NeverStranded`, and `ControllerImplementsSink`: with
`accepted = durable \o batch \o pending`, a successful write stores a longer
prefix.

**`SessionWritesProofs`.** The five properties of the coordinator that speak of what
is stored, for any length of the log and any number of failed writes, crashes,
reloads and resumes. What they say hangs together: a batch is appended correctly
only because the cursor is the stored length, the positions queued have no gap, and
nothing else on the chain came between; so none can be proved alone. The
invariant `IInv` has ten parts, each with a lemma `...Step`:

- `Store` and `Agree` are the aim. `Store`: the stored log is legal, the cursor, when
  known, is its length, and a reservation that is still the id's equals it. `Agree`: while
  the plugin serves the session, the stored log is a prefix of the session's, and the rest
  is no longer than what the controller holds; a queued `"suffix"` finds
  stored exactly what its reservation was made of.
- `Queue`: queued positions are consecutive and end at the log's end. With it,
  `Beyond` gives exactly the events after the cursor (`BeyondIs`, `FreshIs`), and
  the rest of `Agree` that is no longer than the queue is the end of the queue.
- `Chain`: at most one initialization, one write and one release of the id is queued,
  and each has the record, the request or the retirement it was queued for; a commit
  stands before everything its session will queue. `Entry`: an id with an entry
  has no live session, and at most one caller commits. Both are needed for `Store`: a
  commit or a repair writes to the log, and `Chain` and `Entry` say no session is
  being served then.
- `Ready`: nothing is written or queued before the record is there, and a
  flush that has joined saw it. `Controlled`: one request for one batch. Both
  are the discipline of the write controller as its caller sees it, so that a call
  settles only with an empty queue (`DriveSettles`).
- `Grammar`, `Durable`, `Typed`: the logs in memory are legal; the types of what is
  stored, which hold also after `Store` has been given up; the other types.

`StoredAlwaysLegal` and `NothingEverLost` follow from `Store`, `Agree` and `Queue`;
`FlushAlwaysQuiescent` and `ReleasedAlwaysStored` are the action properties: where a
flush resolves or the id is released, `DriveSettles` and `Ready` say that nothing is
queued, and then `Agree` says the whole log is stored (`QuietIsStored`). As in the runs,
`~stale` excludes a session whose log a trim cut while it was loaded, and every later
one of its id: `Store` and `Agree` hold until then.

**`BackgroundJobsProofs`.** None of the safety properties is inductive: each
follows from the first end of a job only if the three views of it agree.
`Ledger` says so in five parts: who is counted (`WaitersTrue`), that before its end
a job is reported exactly when a caller claimed its end (`ClaimsTrue`), that a producer
at work has a live record and a live record is kept (`RecordsTrue`), and that a
live record has a cleanup still attached or a teardown waiting for it
(`OwnersTrue`, `ServiceTrue`). `LedgerAlways` is proved with one step per action;
what the cancels of a teardown do, whichever of them throw, is the lemma
`CancelEffect`. Then `WorkAlwaysHeld` counts (`FewerActive`, `StartBounded`: held
work is a subset of the active records, and only a start adds one),
`EndsAlwaysOnce` is the action property, and `NobodyEverMisses` rests on
`SettleDelivers`: at a settlement either a counted waiter is released, or the end
was already claimed, or the service is up and the notice is sent.

**`GoalRoundsProofs`.** Every safety property of the goal rounds, for any caps,
changes, prompts, runs and flushes. As the handlers are functions of worlds, the
invariants are predicates of worlds, and each handler has a lemma `...Effect` that
says once what it does to them; an action's lemma `...Moves` then composes the
handlers it runs. `Plain` is a handler that reserves nothing, `Fair` one that
reserves only for a goal that is not halted and whose changes are stored, `Settles`
one that ends an aborted turn, where the goal may still be driven until the driver
pauses it (`NearlySane`). The invariants, each checked by TLC first:

- `Sane` and `Resting`: armed means active, a reservation never names a later
  revision, a halted goal is not driven while the driver listens, and the claimed
  batch lasts from its claim to its step. `TypeCorrect` and `AbortAlwaysHalts`
  follow.
- `Owes`: while a driven goal has a change that is not stored, either a checkpoint
  is still asked for, or exactly the run that `state.run` holds is in its flush; so
  no run at the head of its loop gets past the checkpoint.
- `Fence`: once the plugin stops, nothing queued is a round and a claimed one is
  in the turn that was aborted and is awaited. `Fits`: between the second check and
  the entry, the batch is what the log accepts next (`Accepts`, the guard of the
  fold).

The last three are not inductive: each is lost in one order of steps, which is how
those orders were found, since the bounds of the run are too small for one of
them. `Moves` says that every action keeps `Owes` or is such a retirement (`Forgets`),
keeps `Fence` or is such an unload (`Loosens`), keeps `Fits` or is such a change
(`Overtakes`). The inductive forms are then `Obliged` and `Guarded`: the invariant,
or the history that remembers its loss. `AlwaysCheckpointed` and `LogAlwaysFolds`
follow without a hypothesis, and except exactly those orders.

Only model-checked: liveness (`CancelConverges`, `LatchedWakeRuns`,
`Terminates`, `EventuallyDurable`, `DrainsEnd`, `TeardownJoins`, `GoalMoves`),
since the prover handles neither fairness nor `ENABLED`. Every safety and action property
of a passing run is a theorem. `LogFollowsDriver` and `OneDeadline` are proved and no
run repeats them: refinement of `TurnLog` and `NothingStranded` fail with them.

## Where the code and its documentation disagree

Each is a run that TLC refutes; `PROJECT.json` quotes both sides.

- `driver_teardown`: a wake while the registry closes takes the running phase and
  then is refused a driver; `whenIdle` never settles.
- `writes_trim`: a trim drains the live session from inside the chain the drain
  needs. Neither ends, and nor does any later operation on the id.
- `writes_stale`: after a trim, a session that lives is refused (`sessions.prepare`
  knows its id), but a disposed one is not: its final drain adopts and repairs the
  trimmed log, and when the repaired length is the next seq of the batch, that is
  stored instead of rejected.
- `goal_rounds_late`: a goal changed while a pre-step listener outside the round driver
  awaits, after the driver's last check: the round is logged under a
  revision that is gone, and every later read of the goal throws.
- `goal_rounds_stale`: a run forgotten by the retirement of another is still in its
  flush when the next one reserves a round.
- `goal_rounds_loose`: a round that waits behind maintenance survives the unloading
  of its driver and enters the log.

The passing runs except what these admit: in `SessionWrites`, properties of
what is stored speak of sessions no trim cut (`~stale`), liveness of a chain no
trim holds (`Trimming`); in `GoalRounds`, `LogFolds` and `Checkpointed` name the history
they except; in `AgentDriver`, liveness excepts a driver the registry stranded.

Two more were met in `AgentDriver`, where the model has the step and no property
forbids it. A disposed cancel after a user cancel does not replace the reason of
the signal (`AbortActivity`), so a wake after the disposal is latched and replayed,
against `core/agent-loop/src/agent.ts:174-176`. A `keepInbox` cancel while
`turn/end` is published is lost with the controller it aborted (`FreshController`),
so the parked messages run at once; `CancelConverges` counts a fresh controller as
converged for that reason.

## Not modelled

*Of the modelled components.* Driver: `Inbox.prepend` and `replace`, and a
failing append of `step/end` or `turn/end` (the loop has no recovery of its own
there). Tools: a wrapper that invokes a tool body twice. Coordinator: the public
`readFrom`, which only reads, and `create`/`append`/`load`, which only tests call, with the
branches only they or another process reach (`assertWritable`, `takeReady`,
`discardReady`); several live sessions under one id, a resume after a failed
retirement, a torn tail whose rollback fails, a trim to nothing, an adoption the
back end fails. Jobs: output
and its limits, labels, ids, access checks, the controllers that must serve an
owner, change notices, the wake budget (a notice reaches the inbox either way).
Goals: objectives and rendered prompts; a session log that loses its tail at a
restart; two agents on one session id; what happens after the log is corrupt.

*Other components.* `PROJECT.json` lists each with its reason. Projections,
prompt assembly, codecs, model adapters and clients are folds or I/O. Schedules,
retries, approvals and the agent lifecycle have protocols
worth modelling and are in the plan.

## Plan

1. `TurnLog`, `AgentDriver`, its proofs; `ToolScheduler`; `OrderedSink`,
   `WriteBehind`, its proofs; `SessionWrites`. *Done.*
2. `BackgroundJobs` and `GoalRounds`. *Done.*
3. `BackgroundJobsProofs`, `ToolSchedulerProofs`, `AgentDriverInboxProofs`,
   `GoalRoundsProofs`. *Done.*
4. The reservations of `preparations.ts`, in `SessionWrites`. *Done.*
5. Next: `Reminders` (two reminders, one crash between
   follow-up and dispatch record); `AgentLifecycle` (one agent, a disposal at any
   step); `LlmRetry` and `Approvals`.
6. `SessionWritesProofs`. *Done.*
7. An abstract ordered-results specification that `ToolScheduler` implements.
