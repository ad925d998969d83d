------------------------------ MODULE GoalRounds ------------------------------
(***************************************************************************)
(* The driver of goal rounds, packages/goal/goal-round-driver/src/         *)
(* index.ts, with the durable goal it continues (packages/goal/goal/src)   *)
(* and the agent whose inbox, status and pre-step pipeline it observes.    *)
(*                                                                         *)
(* Its listeners run inside the call that triggers them: a paused goal     *)
(* notifies, the listener starts a run, the run queues a round, the round  *)
(* wakes the agent, all in one span.  Each handler is therefore a function *)
(* from world to world and an action is the composition of those that run  *)
(* between two awaits.  The agent is the one AgentDriver models, without   *)
(* its microtask gaps.                                                     *)
(***************************************************************************)
EXTENDS Naturals, Sequences

CONSTANTS
    Caps,           \* values of maxGoalRounds a human may choose
    MaxChanges,     \* bound: a human changes the goal only below this many changes
    MaxPrompts,     \* bound: prompts a human sends
    None

ASSUME RoundsAssumption ==
    /\ Caps \subseteq Nat \ {0}
    /\ MaxChanges \in Nat /\ MaxPrompts \in Nat

VARIABLES
    goal,       \* the fold of the log, its activation, and what is stored of it
    driver,     \* DriverState and the lifecycle of the plugin
    agent,      \* the agent's phase, inbox and open turn
    past        \* history: which of three rare orders a standing state goes back to

coded == <<goal, driver, agent>>
vars  == <<goal, driver, agent, past>>

InTurn == {"claimed", "checked", "decided", "rejecting", "stepping"}

NoGoal == [phase |-> "none", ref |-> 0, cap |-> 0, rounds |-> 0, armed |-> FALSE,
           changes |-> 0, stored |-> TRUE, corrupt |-> FALSE, halted |-> FALSE]
FreshDriver == [attempt |-> None, competing |-> FALSE, needs |-> FALSE, requested |-> FALSE,
                run |-> FALSE, loops |-> 0, flushes |-> 0, fiber |-> "active", joins |-> FALSE]
IdleAgent == [pc |-> "idle", aborted |-> FALSE, latch |-> FALSE, queue |-> <<>>,
              batch |-> None, note |-> "unsent", prompts |-> 0]

Nothing == [late |-> FALSE, loose |-> FALSE, forgot |-> FALSE]

Init == goal = NoGoal /\ driver = FreshDriver /\ agent = IdleAgent /\ past = Nothing

World == [goal |-> goal, driver |-> driver, agent |-> agent]
Becomes(w) == goal' = w.goal /\ driver' = w.driver /\ agent' = w.agent

Messages == [kind : {"prompt", "round"}, ref : Nat, round : Nat, id : Nat]
Attempts == [round : Messages, phase : {"queued", "claimed", "admitted"}, cancelled : BOOLEAN, stale : BOOLEAN]

ASSUME NoneAssumption == None \notin Messages /\ None \notin Attempts

\* A queued message is a human's prompt or a round of one revision of the goal.
\* Its id tells it from another message of the same round.
Prompt == [kind |-> "prompt", ref |-> 0, round |-> 0, id |-> 0]
RoundOf(ref, round, id) == [kind |-> "round", ref |-> ref, round |-> round, id |-> id]
IsRound(m) == m # None /\ m.kind = "round"
\* sameRound(), sameQueued(): the source, not the id.
OwnRound(attempt, m) ==
    attempt # None /\ IsRound(m) /\ attempt.round.ref = m.ref /\ attempt.round.round = m.round
Reservation(m) == [round |-> m, phase |-> "queued", cancelled |-> FALSE, stale |-> FALSE]

-----------------------------------------------------------------------------
(* The goal service *)

Driven(g) == g.phase = "active" /\ g.armed

Disarm(w) == [w EXCEPT !.goal.armed = FALSE]

\* commit(): a new revision enters the log and the fold.
Commit(w, phase, armed) ==
    [w EXCEPT !.goal.phase = phase, !.goal.armed = armed, !.goal.stored = FALSE,
              !.goal.changes = @ + 1, !.goal.ref = w.goal.changes + 1]

-----------------------------------------------------------------------------
(* drive() and requestDrive() *)

Stopping(w) == w.driver.fiber # "active"
Listening(w) == w.driver.fiber # "unloaded"
Quiet(w) == w.agent.pc \in {"idle", "maintenance"}      \* Agent.status is "idle"

Ready(w) == ~Stopping(w) /\ Quiet(w) /\ ~w.driver.competing
ReadyAfterCheckpoint(w) == Ready(w) /\ ~w.driver.needs

\* Runs differ in nothing but where they stand: at the head of their loop or in
\* their flush.  state.run is modelled by whether it is set.
Begins(w) == [w EXCEPT !.driver.loops = @ + 1, !.driver.requested = FALSE]
Flushes(w) == [w EXCEPT !.driver.needs = FALSE, !.driver.loops = @ - 1, !.driver.flushes = @ + 1]
FlushOver(w) == [w EXCEPT !.driver.loops = @ + 1, !.driver.flushes = @ - 1]

\* The goal/changed listener.  Its drive() never gets past the checkpoint it
\* has just asked for.  state.run is assigned only when the synchronous part of
\* the run is over, so a change committed inside one starts a second run.
MarkNothing(w) == w
Mark(w) == [w EXCEPT !.driver.needs = TRUE]
GoalChanged(w) ==
    LET marked == Mark(w) IN
    IF ~Listening(w) THEN w
    ELSE IF Stopping(w) THEN marked
    ELSE IF w.driver.run THEN [marked EXCEPT !.driver.requested = TRUE]
    ELSE LET begun == [Begins(marked) EXCEPT !.driver.run = TRUE]
         IN  IF Ready(w) THEN Flushes(begun) ELSE begun

Block(w) == GoalChanged(Commit(w, "blocked", FALSE))
PauseArmed(w) == GoalChanged(Commit(w, "paused", w.goal.armed))
PauseGoal(w) == GoalChanged(Commit(w, "paused", FALSE))

\* The agent opens a turn and claims one queued message with the injected note;
\* the claimed listener finds the driver's own round by its source.
OpenTurn(w) ==
    LET head == IF w.agent.queue = <<>> THEN None ELSE Head(w.agent.queue)
        opened == [w EXCEPT !.agent.pc = "claimed", !.agent.aborted = FALSE, !.agent.latch = FALSE,
                            !.agent.batch = head,
                            !.agent.queue = IF @ = <<>> THEN @ ELSE Tail(@),
                            !.agent.note = IF @ = "pending" THEN "claimed" ELSE @]
        attempt == w.driver.attempt
    IN  IF Listening(w) /\ OwnRound(attempt, head)
        THEN [opened EXCEPT !.driver.attempt.phase = "claimed"]
        ELSE opened

\* followup(): the inserted listener, then the wake.
Send(w, m) ==
    LET attempt == w.driver.attempt
        queued == [w EXCEPT !.agent.queue = Append(@, m)]
        heard == IF ~Listening(w) \/ OwnRound(attempt, m) THEN queued
                 ELSE LET competes == [queued EXCEPT !.driver.competing = TRUE] IN
                      IF attempt # None /\ attempt.phase = "queued"
                      THEN [competes EXCEPT !.driver.attempt.stale = TRUE] ELSE competes
    IN  IF w.agent.pc = "idle" THEN OpenTurn(heard)
        ELSE IF w.agent.pc = "maintenance" \/ w.agent.aborted THEN [heard EXCEPT !.agent.latch = TRUE]
        ELSE heard

UnusedId(queue) == CHOOSE id \in 1..(Len(queue) + 1) : \A i \in DOMAIN queue : queue[i].id # id

\* A refused follow-up leaves no attempt and blocks the goal.
Reserve(w, accepted) ==
    LET m == RoundOf(w.goal.ref, w.goal.rounds + 1, UnusedId(w.agent.queue)) IN
    IF accepted THEN Send([w EXCEPT !.driver.attempt = Reservation(m)], m) ELSE Block(w)

\* An attempt found at quiescence is over: checkpoint, then drive again.
DropAttemptSilently(w) == [w EXCEPT !.driver.attempt = None, !.driver.needs = TRUE]
DropAttempt(w) == [w EXCEPT !.driver.attempt = None, !.driver.needs = TRUE, !.driver.requested = TRUE]

\* drive() from the checkpoint on.
DriveOn(w, accepted) ==
    IF w.driver.attempt # None THEN DropAttempt(w)
    ELSE IF ~Driven(w.goal) THEN w
    ELSE IF w.goal.rounds >= w.goal.cap THEN Block(w)
    ELSE Reserve(w, accepted)

\* drive() from its start, up to its flush or its end.
Drive(w, accepted) ==
    IF ~Ready(w) THEN w
    ELSE IF w.driver.needs THEN Flushes(w)
    ELSE DriveOn(w, accepted)

RequestDrive(w, accepted) ==
    IF Stopping(w) THEN w
    ELSE IF w.driver.run THEN [w EXCEPT !.driver.requested = TRUE]
    ELSE [Drive(Begins(w), accepted) EXCEPT !.driver.run = TRUE]

\* The while loop of a run, and retire() when it ends: it clears state.run,
\* whichever run that holds.
RunLoops(accepted) ==
    /\ driver.loops > 0
    /\ IF driver.requested /\ ~Stopping(World)
       THEN Becomes(Drive([World EXCEPT !.driver.requested = FALSE], accepted))
       ELSE Becomes([World EXCEPT !.driver.loops = @ - 1, !.driver.run = FALSE])

\* A flush that resolves found everything emitted so far stored
\* (SessionWrites!FlushIsQuiescent).
FlushSettles(accepted) ==
    /\ driver.flushes > 0
    /\ LET w == [FlushOver(World) EXCEPT !.goal.stored = TRUE] IN
       Becomes(IF ReadyAfterCheckpoint(w) THEN DriveOn(w, accepted) ELSE w)

FlushFails ==
    /\ driver.flushes > 0
    /\ Becomes(Disarm(FlushOver(World)))

-----------------------------------------------------------------------------
(* The agent's turns, and what the driver does at their edges *)

\* The agent/status listener.  An attempt that never entered, or was cancelled,
\* means that the user stopped it: the goal pauses.
PausesQueuedOnly(attempt) == attempt.phase \in {"queued", "claimed"}
Pauses(attempt) == attempt.phase \in {"queued", "claimed"} \/ attempt.cancelled

HearsIdle(w, accepted) ==
    IF ~Listening(w) THEN w
    ELSE LET rested == [w EXCEPT !.driver.competing = FALSE]
             attempt == w.driver.attempt
         IN  IF attempt # None /\ Pauses(attempt) /\ Driven(w.goal)
             THEN RequestDrive(PauseGoal([rested EXCEPT !.driver.attempt = None]), accepted)
             ELSE RequestDrive(rested, accepted)

\* The driver leaves: idle is published, then a latched wake is replayed unless
\* a listener has already woken the agent.
GoIdle(w, accepted) ==
    LET idle == HearsIdle([w EXCEPT !.agent.pc = "idle", !.agent.aborted = FALSE, !.agent.latch = FALSE,
                                    !.agent.batch = None,
                                    !.agent.note = IF @ = "claimed" THEN "gone" ELSE @], accepted)
    IN  IF w.agent.latch /\ idle.agent.pc = "idle" /\ (idle.agent.queue # <<>> \/ idle.agent.note = "pending")
        THEN OpenTurn(idle) ELSE idle

\* The turn/end listener for an aborted turn.
HearsAbort(w) ==
    IF ~Listening(w) THEN w
    ELSE IF w.driver.attempt # None /\ w.driver.attempt.phase \in {"claimed", "admitted"}
         THEN [w EXCEPT !.driver.attempt.cancelled = TRUE]
         ELSE Disarm(w)

\* restoreOtherClaimed(): the injected note returns to the inbox.
Restore(w) == [w EXCEPT !.agent.note = IF @ = "claimed" THEN "pending" ELSE @]

\* An awaited step of an aborted turn settles; a decided entry is restored, a
\* rejected or failed one is not.
TurnAborts(accepted) ==
    /\ agent.pc \in InTurn /\ agent.aborted
    /\ \E w \in {World} \cup (IF agent.pc = "checked" THEN {Restore(World)} ELSE {}) :
          Becomes(GoIdle(HearsAbort([w EXCEPT !.goal.halted = @ \/ Driven(goal)]), accepted))

\* A failure inside the turn: agent/error disarms.  One that a hook behind the
\* driver's first check throws also clears the reservation.
TurnFails(accepted) ==
    /\ agent.pc \in InTurn /\ ~agent.aborted
    /\ LET w == IF agent.pc = "checked" /\ Listening(World)
                THEN RequestDrive([World EXCEPT !.driver.attempt = None], accepted) ELSE World IN
       Becomes(GoIdle(IF Listening(w) THEN Disarm(w) ELSE w, accepted))

ValidReservation(w) ==
    LET attempt == w.driver.attempt
        m == w.agent.batch
    IN  /\ ~Stopping(w)
        /\ attempt # None /\ attempt.phase = "claimed" /\ ~attempt.stale /\ OwnRound(attempt, m)
        /\ Driven(w.goal) /\ w.goal.ref = m.ref /\ m.round = w.goal.rounds + 1
StillClaimed(w) == w.driver.attempt # None /\ w.driver.attempt.phase = "claimed"
StillValid(w) == ValidReservation(w)

\* A rejected step ends its turn, once the listeners before the rejecting one
\* return; they too may await.
Rejected(w) == [w EXCEPT !.agent.pc = "rejecting"]

RejectionReturns(accepted) ==
    /\ agent.pc = "rejecting" /\ ~agent.aborted
    /\ Becomes(GoIdle(World, accepted))

\* The first check asks for no signal: a listener before the driver may have
\* awaited while the turn was aborted.
FirstCheckPasses ==
    /\ agent.pc = "claimed" /\ IsRound(agent.batch) /\ Listening(World)
    /\ ValidReservation(World)
    /\ Becomes([World EXCEPT !.agent.pc = "checked"])

FirstCheckRejects(accepted) ==
    /\ agent.pc = "claimed" /\ IsRound(agent.batch) /\ Listening(World)
    /\ ~ValidReservation(World)
    /\ LET attempt == driver.attempt
           w == IF OwnRound(attempt, agent.batch)
                THEN [World EXCEPT !.driver.attempt = None] ELSE World
       IN  Becomes(Rejected(RequestDrive(Restore(w), accepted)))

\* The messages of the step enter the log.  The fold accepts only the next
\* round of the current revision of an active goal; anything else makes every
\* later read of the goal throw.
Enters(w) ==
    LET m == w.agent.batch
        next == w.goal.phase = "active" /\ w.goal.ref = m.ref
                   /\ m.round = w.goal.rounds + 1 /\ m.round <= w.goal.cap
        attempt == w.driver.attempt
        logged == IF ~IsRound(m) THEN w
                  ELSE IF next THEN [w EXCEPT !.goal.rounds = m.round]
                  ELSE [w EXCEPT !.goal.corrupt = TRUE]
    IN  IF Listening(w) /\ attempt # None /\ IsRound(m) /\ attempt.round = m
        THEN [logged EXCEPT !.driver.attempt.phase = "admitted"] ELSE logged
Steps(w) == [Enters(w) EXCEPT !.agent.pc = "stepping", !.agent.batch = None,
                              !.agent.note = IF @ = "claimed" THEN "gone" ELSE @]

\* The hooks behind the driver decide.  A listener before it may still await
\* after the driver's second check (agent-instructions waits for its files).
SecondCheck(accepted) ==
    /\ agent.pc = "checked" /\ ~agent.aborted
    /\ \/ StillValid(World) /\ Becomes([World EXCEPT !.agent.pc = "decided"])
       \/ /\ ~StillValid(World)
          /\ Becomes(Rejected(RequestDrive(Restore([World EXCEPT !.driver.attempt = None]), accepted)))

\* A hook behind the driver rejects the round: the goal is blocked.
HookRejects ==
    /\ agent.pc = "checked" /\ ~agent.aborted
    /\ LET w == [World EXCEPT !.driver.attempt = None] IN
       Becomes(Rejected(IF Driven(goal) /\ goal.ref = agent.batch.ref THEN Block(w) ELSE w))

LateHookReturns ==
    /\ agent.pc = "decided" /\ ~agent.aborted
    /\ Becomes(Steps(World))

\* A batch without a round, or any batch once the plugin is gone, passes by.
PassesBy ==
    /\ agent.pc = "claimed" /\ ~agent.aborted
    /\ IsRound(agent.batch) => ~Listening(World)
    /\ Becomes(Steps(World))

HookRejectsOther ==
    /\ agent.pc = "claimed" /\ ~agent.aborted
    /\ IsRound(agent.batch) => ~Listening(World)
    /\ Becomes(Rejected(World))

\* A note that arrives while the turn steps joins a later step of it.
NoteJoins ==
    /\ agent.pc = "stepping" /\ ~agent.aborted /\ agent.note = "pending"
    /\ Becomes([World EXCEPT !.agent.note = "gone"])

\* The turn completes, or stops at its token limit, which disarms; the agent
\* goes on with what is queued or goes idle.
TurnCompletes(accepted) ==
    /\ agent.pc = "stepping" /\ ~agent.aborted /\ agent.note # "pending"
    /\ \E w \in {World} \cup (IF Listening(World) THEN {Disarm(World)} ELSE {}) :
          Becomes(IF agent.queue # <<>> THEN OpenTurn(w) ELSE GoIdle(w, accepted))

-----------------------------------------------------------------------------
(* Humans *)

HumanPrompts ==
    /\ agent.prompts < MaxPrompts
    /\ Becomes(Send([World EXCEPT !.agent.prompts = @ + 1], Prompt))

\* Injected context waits in the next-step inbox and wakes nobody.
InjectNote ==
    /\ agent.note = "unsent"
    /\ Becomes([World EXCEPT !.agent.note = "pending"])

\* cancel(): unless it keeps the inbox, it discards what is pending; the
\* discarded listener marks the driver's own round.
CancelWorld(w, keepInbox) ==
    LET attempt == w.driver.attempt
        own == \E i \in DOMAIN w.agent.queue : OwnRound(attempt, w.agent.queue[i])
        heard == IF own /\ Listening(w) THEN [w EXCEPT !.driver.attempt.cancelled = TRUE] ELSE w
        cleared == IF keepInbox THEN w
                   ELSE [heard EXCEPT !.agent.queue = <<>>, !.agent.latch = FALSE,
                                      !.agent.note = IF @ = "pending" THEN "gone" ELSE @]
    IN  [cleared EXCEPT !.agent.aborted = @ \/ w.agent.pc \in InTurn]

Cancel(keepInbox) == Becomes(CancelWorld(World, keepInbox))

BeginMaintenance ==
    /\ agent.pc = "idle"
    /\ Becomes([World EXCEPT !.agent.pc = "maintenance"])

\* Status was "idle" all along, so nothing is published.
EndMaintenance ==
    /\ agent.pc = "maintenance"
    /\ LET w == [World EXCEPT !.agent.pc = "idle", !.agent.latch = FALSE] IN
       Becomes(IF agent.latch /\ (agent.queue # <<>> \/ agent.note = "pending") THEN OpenTurn(w) ELSE w)

MayChange == goal.changes < MaxChanges

Create(cap) ==
    /\ MayChange /\ goal.phase \in {"none", "complete"}
    /\ Becomes(GoalChanged([Commit(World, "active", TRUE) EXCEPT !.goal.cap = cap, !.goal.rounds = 0,
                                                                !.goal.halted = FALSE]))
Edit(cap) ==
    /\ MayChange /\ goal.phase # "none"
    /\ Becomes(GoalChanged([Commit(World, goal.phase, goal.armed) EXCEPT !.goal.cap = cap]))

Pause == MayChange /\ goal.phase = "active" /\ Becomes(PauseGoal(World))

Resume ==
    /\ MayChange /\ goal.phase \in {"active", "paused", "blocked"} /\ ~Driven(goal)
    /\ goal.rounds < goal.cap
    /\ Becomes(GoalChanged([Commit(World, "active", TRUE) EXCEPT !.goal.halted = FALSE]))

Complete ==
    /\ MayChange /\ goal.phase \in {"active", "paused", "blocked"}
    /\ Becomes(GoalChanged(Commit(World, "complete", FALSE)))

Clear ==
    /\ MayChange /\ goal.phase # "none"
    /\ Becomes(GoalChanged([Commit(World, "none", FALSE) EXCEPT !.goal.cap = 0, !.goal.rounds = 0]))

-----------------------------------------------------------------------------
(* Lifecycle of the plugin and of the process *)

JoinsTurn == driver.attempt # None /\ ~Quiet(World)

\* Unload: the driver stops, disarms, and cancels the turn of its attempt.
Unload ==
    /\ driver.fiber = "active"
    /\ LET stopped == Disarm([World EXCEPT !.driver.fiber = "unloading", !.driver.joins = JoinsTurn])
           stale == IF driver.attempt = None THEN stopped
                    ELSE [stopped EXCEPT !.driver.attempt.stale = TRUE]
       IN  Becomes(IF JoinsTurn THEN CancelWorld(stale, FALSE) ELSE stale)

\* ... and its listeners go once the run in progress and that turn have ended.
Unloaded ==
    /\ driver.fiber = "unloading" /\ ~driver.run
    /\ driver.joins => agent.pc = "idle"
    /\ Becomes([World EXCEPT !.driver = [FreshDriver EXCEPT !.fiber = "unloaded",
                                             !.loops = driver.loops, !.flushes = driver.flushes]])

\* Loading over a live agent inherits no authority.
Load ==
    /\ driver.fiber = "unloaded" /\ driver.loops = 0 /\ driver.flushes = 0
    /\ Becomes(Disarm([World EXCEPT !.driver = FreshDriver]))

\* The process restarts on a complete log: what was claimed is gone, what was
\* queued is queued.
Restart ==
    /\ agent.pc # "idle" \/ driver # FreshDriver
    /\ Becomes(Disarm([World EXCEPT !.driver = FreshDriver, !.goal.stored = TRUE,
                          !.agent = [IdleAgent EXCEPT !.queue = agent.queue, !.prompts = agent.prompts,
                                       !.note = IF agent.note = "claimed" THEN "gone" ELSE agent.note]]))

-----------------------------------------------------------------------------
SomeRunLoops == \E accepted \in BOOLEAN : RunLoops(accepted)
SomeFlushEnds == FlushFails \/ \E accepted \in BOOLEAN : FlushSettles(accepted)

\* Hooks of the pre-step pipeline, and whatever an aborted turn awaits.
PipelineMoves ==
    \E accepted \in BOOLEAN :
        \/ TurnAborts(accepted)
        \/ FirstCheckPasses \/ FirstCheckRejects(accepted)
        \/ SecondCheck(accepted) \/ HookRejects \/ LateHookReturns
        \/ PassesBy \/ HookRejectsOther \/ RejectionReturns(accepted)

StepMoves == \E accepted \in BOOLEAN : TurnFails(accepted) \/ NoteJoins \/ TurnCompletes(accepted)

Humans ==
    \/ HumanPrompts \/ InjectNote \/ (\E keepInbox \in BOOLEAN : Cancel(keepInbox))
    \/ (\E cap \in Caps : Create(cap) \/ Edit(cap))
    \/ Pause \/ Resume \/ Complete \/ Clear

Lifecycle == BeginMaintenance \/ EndMaintenance \/ Unload \/ Unloaded \/ Load \/ Restart

(***************************************************************************)
(* History.  Three orders of steps undo a check the driver has made; each  *)
(* is remembered for as long as what it left behind stands.  No action     *)
(* reads it.                                                               *)
(***************************************************************************)
\* A run at the head of its loop that state.run no longer holds.
StaleRun == driver.loops > (IF driver.run THEN 1 ELSE 0)
NoLooseRound == ~IsRound(agent.batch) /\ \A i \in DOMAIN agent.queue : ~IsRound(agent.queue[i])

Changes == goal'.changes # goal.changes
Unloads == driver.fiber = "active" /\ driver'.fiber = "unloading"

\* The goal changes while a round the second check has let through still waits
\* for a listener before the driver.
ComesLate ==
    agent'.pc = "decided" /\ (past.late \/ (agent.pc = "decided" /\ Changes))

\* The plugin unloads past a round it neither cancels nor fences: one queued
\* behind maintenance, or claimed by a turn without an attempt.
HangsLoose ==
    /\ driver'.fiber # "active" /\ ~NoLooseRound'
    /\ past.loose \/ (Unloads /\ ~JoinsTurn)

\* The goal changes in the microtasks in which a run retires whose state.run is
\* not its own, or already cleared; retire() then forgets the run that the
\* change has started.
IsForgotten ==
    ~goal'.stored /\ (past.forgot \/ (StaleRun /\ Changes /\ Driven(goal')))

Remembers == past' = [late |-> ComesLate, loose |-> HangsLoose, forgot |-> IsForgotten]

\* What follows the corruption of a goal's log is not modelled.
Acts == SomeRunLoops \/ SomeFlushEnds \/ PipelineMoves \/ StepMoves \/ Humans \/ Lifecycle
Next == ~goal.corrupt /\ Acts /\ Remembers

Spec == Init /\ [][Next]_vars

\* Runs and flushes continue; a step owes nothing.
FairSpec == Spec /\ WF_coded(SomeRunLoops) /\ WF_coded(SomeFlushEnds)

-----------------------------------------------------------------------------
(* Properties *)

Goals == [phase : {"none", "active", "paused", "blocked", "complete"}, ref : Nat, cap : Nat, rounds : Nat,
          armed : BOOLEAN, changes : Nat, stored : BOOLEAN, corrupt : BOOLEAN, halted : BOOLEAN]
Drivers == [attempt : Attempts \cup {None}, competing : BOOLEAN, needs : BOOLEAN, requested : BOOLEAN,
            run : BOOLEAN, loops : Nat, flushes : Nat, fiber : {"active", "unloading", "unloaded"},
            joins : BOOLEAN]
Agents == [pc : {"idle", "maintenance"} \cup InTurn, aborted : BOOLEAN, latch : BOOLEAN,
           queue : Seq(Messages), batch : Messages \cup {None},
           note : {"unsent", "pending", "claimed", "gone"}, prompts : Nat]

TypeOK ==
    /\ goal \in Goals /\ driver \in Drivers /\ agent \in Agents
    /\ past \in [late : BOOLEAN, loose : BOOLEAN, forgot : BOOLEAN]
    /\ goal.armed => goal.phase = "active"

\* A round enters the log only when it is the next round the log accepts, in
\* every order of edits, pauses, cancels, prompts, restarts and reloads around
\* the awaits.  Two orders are excepted, each with a run that shows it: a change
\* between the second check and the entry, and a round the plugin unloads past.
LogFolds == [][goal'.corrupt => past.late \/ past.loose]_vars

Reserves == driver'.attempt # None
            /\ (driver.attempt = None \/ driver'.attempt.round # driver.attempt.round)

\* A turn aborted while its goal was driven stops the goal: no round is reserved
\* until a human resumes it.
AbortHalts == [][Reserves => ~goal'.halted]_vars

\* A round is reserved only when every change of the goal is stored, whatever
\* changed during the flush and however many runs overlap.  One order is
\* excepted, and a run shows it: a change while a run retires that state.run no
\* longer holds.
Checkpointed == [][Reserves => goal'.stored \/ past'.forgot]_vars

\* A goal that is active, armed and free to continue does not rest.
FreeToContinue == Driven(goal) /\ Ready(World) /\ driver.attempt = None
GoalMoves == FreeToContinue ~> ~FreeToContinue \/ goal.corrupt

-----------------------------------------------------------------------------
(* Statements of the repository that the code does not keep *)

\* "Fail closed unless the queued prompt still owns the exact live revision": no
\* round enters the log under a revision that is gone.
FailsClosed == [][goal'.corrupt => past.loose]_vars

\* "Before queuing work, the driver awaits ctx.sessions.flush()": what a round
\* is reserved for is stored.
FlushesBeforeQueuing == [][Reserves => goal'.stored]_vars

\* "Plugin teardown closes admission": once the driver stops, no round of a goal
\* enters the log.
Admits == agent.pc \in {"claimed", "decided"} /\ agent'.pc = "stepping" /\ IsRound(agent.batch)
AdmissionCloses == [][Admits => ~Stopping(World)]_vars
=============================================================================
