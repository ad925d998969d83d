----------------------------- MODULE AgentDriver -----------------------------
(***************************************************************************)
(* One agent's driver, ReactLoopAgent of packages/core/agent-loop/src/     *)
(* agent.ts, with the inbox it drains (packages/core/agent/src/inbox.ts)   *)
(* and the turn and step boundaries it appends to its session log.         *)
(*                                                                         *)
(* JavaScript runs to completion, so an action is what runs between two    *)
(* points at which other code can run.  There are two kinds of them.       *)
(*   - An await: the driver is suspended, the call stack is empty, and any *)
(*     task may call the agent.                                            *)
(*   - A synchronous notification (agent/status, agent/error, agent/inbox/ *)
(*     star): its listeners may call the agent back while the caller is    *)
(*     still in the middle of its own work.  The caller's remaining work   *)
(*     is a frame of `stack`, and the frames resume last in, first out.    *)
(* While an event is being published to session/event observers the log    *)
(* refuses every append, so those may only make the calls that append      *)
(* nothing (see Publishing).  The several appends of one boundary (the two *)
(* splices of a claim; step/start and its user/messages) are one action:   *)
(* all an observer of one of them can do is abort the signal, which counts *)
(* as done when the boundary is complete.                                  *)
(***************************************************************************)
EXTENDS Naturals, Sequences, FiniteSets

CONSTANTS
    Msgs,        \* the messages callers may send, each at most once
    MaxDepth,    \* bound: frames on the call stack
    MaxSteps,    \* bound: steps of a turn after which no further step is owed
    MaxCrashes   \* bound: process crashes

ASSUME DriverAssumption ==
    /\ MaxDepth \in Nat \ {0}
    /\ MaxSteps \in Nat
    /\ MaxCrashes \in Nat

Targets == {"next-turn", "next-step"}
Causes == {"user", "disposed"}      \* cancel causes told apart by the code
Reasons == {"null", "completed", "max-tokens", "blocked", "aborted", "error", "interrupted"}

VARIABLES
    phase,      \* Phase.kind
    abort,      \* reason of the current activity's signal, "none" until it aborts
    latch,      \* Phase.wakeRequested
    turn,       \* Phase.turn, or Phase.lastTurn when idle or in maintenance
    step,       \* Phase.step
    pc,         \* where kick()/turn() stands, "off" when no driver exists
    stack,      \* synchronous work still to resume, innermost first
    nextTurn,   \* Inbox.nextTurn
    nextStep,   \* Inbox.nextStep, as a set: it is only ever claimed whole
    proposal,   \* messages claimed for the step being proposed
    decision,   \* settled agent/pre-step decision awaiting the driver
    ending,     \* turn()'s local turnEnds
    fate,       \* what became of each message
    log,        \* turn and step boundaries of the session log
    job,        \* a runMaintenance() job has not settled yet
    accepting,  \* AgentRegistry.initiatorState = 'active'
    crashes     \* process crashes so far

activity == <<phase, abort, latch, turn, step>>
inbox == <<nextTurn, nextStep, fate>>
local == <<proposal, decision, ending>>
world == <<accepting, crashes>>
vars == <<activity, pc, stack, inbox, local, log, job, world>>

-----------------------------------------------------------------------------
(* The call stack and who may call *)

Ops == {"send", "clear", "abort", "drive", "settle"}
Frame == [op : Ops, flag : BOOLEAN, cause : Causes \cup {"none"}]

SendFrame(wakeAfterAbort) == [op |-> "send", flag |-> wakeAfterAbort, cause |-> "none"]
ClearFrame(cause) == [op |-> "clear", flag |-> FALSE, cause |-> cause]
AbortFrame(cause) == [op |-> "abort", flag |-> FALSE, cause |-> cause]
Drive == [op |-> "drive", flag |-> FALSE, cause |-> "none"]
SettleFrame(wakeRequested) == [op |-> "settle", flag |-> wakeRequested, cause |-> "none"]

Push(frame, rest) == <<frame>> \o rest
Top(op) == stack # <<>> /\ Head(stack).op = op
Suspended == stack = <<>>

\* Places at which the driver runs synchronously, as the "drive" frame; at the
\* first four the session log is publishing the boundary just appended.
PublishingPcs == {"opened", "stepped", "broken", "ended"}
SyncPcs == PublishingPcs \cup {"started", "refused", "failed"}
AwaitPcs == {"proposed", "decided", "stepping", "stopping", "again", "exiting"}
Pcs == {"off", "stranded"} \cup SyncPcs \cup AwaitPcs

Publishing == Top("drive") /\ pc \in PublishingPcs
HasPending == nextTurn # <<>> \/ nextStep # {}

MayCall == ~Publishing /\ Len(stack) < MaxDepth

-----------------------------------------------------------------------------
(* The session log: each operator is one append *)

Boundaries == [openTurn : Nat, openStep : Nat, turns : Nat, steps : Nat,
               followups : Nat, last : Reasons]
NoTurns == [openTurn |-> 0, openStep |-> 0, turns |-> 0, steps |-> 0,
            followups |-> 0, last |-> "null"]
LogTurnStart(n) == [log EXCEPT !.openTurn = n, !.steps = 0, !.followups = 0]
LogTurnEnd(reason) == [log EXCEPT !.openTurn = 0, !.turns = @ + 1, !.last = reason]
LogStepStart(n) == [log EXCEPT !.openStep = n]
LogStepEnd == [log EXCEPT !.openStep = 0, !.steps = @ + 1]

\* What became of a message; one removed from the inbox takes a new fate.
Fates == {"unsent", "pending", "claimed", "entered", "discarded", "dropped", "rewritten"}
Settle(gone, outcome) == [m \in Msgs |-> IF m \in gone THEN outcome ELSE fate[m]]
QueuedTurns == {nextTurn[i] : i \in DOMAIN nextTurn}

-----------------------------------------------------------------------------
Init ==
    /\ phase = "idle" /\ abort = "none" /\ latch = FALSE
    /\ turn = 0 /\ step = 0
    /\ pc = "off" /\ stack = <<>>
    /\ nextTurn = <<>> /\ nextStep = {}
    /\ proposal = {} /\ decision = "none" /\ ending = "null"
    /\ fate = [m \in Msgs |-> "unsent"]
    /\ log = NoTurns
    /\ job = FALSE /\ accepting = TRUE /\ crashes = 0

-----------------------------------------------------------------------------
(* Waking the driver *)

\* wakeDriver() while idle: reserve the running phase and publish the status.
StartDriver(rest) ==
    /\ phase' = "running" /\ abort' = "none" /\ latch' = FALSE /\ step' = 0
    /\ pc' = "started"
    /\ stack' = Push(Drive, rest)

LatchWakeOnDisposal(wakeAfterAbort, rest) ==
    /\ latch' = (latch \/ phase = "maintenance" \/ wakeAfterAbort)
    /\ stack' = rest
    /\ UNCHANGED <<phase, abort, step, pc>>

\* wakeDriver(): start one driver, or latch the wake behind maintenance or an
\* aborted activity.
LatchWake(wakeAfterAbort, rest) ==
    /\ latch' = (latch \/ (abort # "disposed" /\ (phase = "maintenance" \/ wakeAfterAbort)))
    /\ stack' = rest
    /\ UNCHANGED <<phase, abort, step, pc>>

WakeDriverIntoMaintenance(wakeAfterAbort, rest) ==
    \/ phase # "running" /\ StartDriver(rest)
    \/ phase = "running" /\ LatchWake(wakeAfterAbort, rest)
WakeDriver(wakeAfterAbort, rest) ==
    \/ phase = "idle" /\ StartDriver(rest)
    \/ phase # "idle" /\ LatchWake(wakeAfterAbort, rest)

\* send(): followup, steer and inject fix target and wakeup.  The splice
\* publishes agent/inbox/inserted before the wake.  A tool result's context
\* enters next-step the same way, without a wake.
Send(m, target, wakeup) ==
    LET wakingAfterAbort == wakeup /\ phase # "idle" /\ abort # "none"
        resolved == IF wakingAfterAbort THEN "next-turn" ELSE target
    IN  /\ MayCall
        /\ fate[m] = "unsent"
        /\ fate' = [fate EXCEPT ![m] = "pending"]
        /\ nextTurn' = IF resolved = "next-turn" THEN Append(nextTurn, m) ELSE nextTurn
        /\ nextStep' = IF resolved = "next-step" THEN nextStep \cup {m} ELSE nextStep
        /\ stack' = IF wakeup THEN Push(SendFrame(wakingAfterAbort), stack) ELSE stack
        /\ UNCHANGED <<activity, pc, local, log, job, world>>

SendWakes ==
    /\ Top("send")
    /\ WakeDriver(Head(stack).flag, Tail(stack))
    /\ UNCHANGED <<turn, inbox, local, log, job, world>>

\* Inbox.remove(): a caller withdraws one pending message.
WithoutIndex(queue, i) == [j \in 1..(Len(queue) - 1) |-> queue[IF j < i THEN j ELSE j + 1]]

Remove(m) ==
    /\ MayCall
    /\ \/ \E i \in DOMAIN nextTurn : /\ nextTurn[i] = m
                                     /\ nextTurn' = WithoutIndex(nextTurn, i)
          /\ UNCHANGED nextStep
       \/ m \in nextStep /\ nextStep' = nextStep \ {m} /\ UNCHANGED nextTurn
    /\ fate' = [fate EXCEPT ![m] = "discarded"]
    /\ UNCHANGED <<activity, pc, stack, local, log, job, world>>

-----------------------------------------------------------------------------
(* cancel(): without keepInbox the two lists are cleared, next-step first,
   each clearing publishing its discarded messages; then the latch drops and
   the signal aborts. *)

AbortActivity(cause) ==
    /\ abort' = IF phase = "idle" \/ abort # "none" THEN abort ELSE cause

\* keepInbox: only stop requests ask for it, never disposal.
CancelKeepingInbox(cause) ==
    /\ MayCall \/ Publishing
    /\ AbortActivity(cause)
    /\ UNCHANGED <<phase, latch, turn, step, pc, stack, inbox, local, log, job, world>>

DropLatchAndAbort(cause) ==
    /\ latch' = FALSE
    /\ AbortActivity(cause)

ClearSteps(cause, rest) ==
    /\ nextStep # {}
    /\ fate' = Settle(nextStep, "discarded")
    /\ nextStep' = {}
    /\ stack' = Push(ClearFrame(cause), rest)
    /\ UNCHANGED <<nextTurn, latch, abort>>

ClearTurns(cause, rest) ==
    /\ nextTurn # <<>>
    /\ fate' = Settle(QueuedTurns, "discarded")
    /\ nextTurn' = <<>>
    /\ stack' = Push(AbortFrame(cause), rest)
    /\ UNCHANGED <<nextStep, latch, abort>>

NothingToClear(cause, rest) ==
    /\ DropLatchAndAbort(cause)
    /\ stack' = rest
    /\ UNCHANGED inbox

Cancel(cause) ==
    /\ \/ MayCall /\ ClearSteps(cause, stack)
       \/ MayCall /\ nextStep = {} /\ ClearTurns(cause, stack)
       \/ (MayCall \/ Publishing) /\ ~HasPending /\ NothingToClear(cause, stack)
    /\ UNCHANGED <<phase, turn, step, pc, local, log, job, world>>

\* The next-step list is cleared and its listeners have run.
CancelClearsTurns ==
    /\ Top("clear")
    /\ \/ ClearTurns(Head(stack).cause, Tail(stack))
       \/ nextTurn = <<>> /\ NothingToClear(Head(stack).cause, Tail(stack))
    /\ UNCHANGED <<phase, turn, step, pc, local, log, job, world>>

\* Both lists are cleared and their listeners have run.
CancelAborts ==
    /\ Top("abort")
    /\ DropLatchAndAbort(Head(stack).cause)
    /\ stack' = Tail(stack)
    /\ UNCHANGED <<phase, turn, step, pc, inbox, local, log, job, world>>

-----------------------------------------------------------------------------
(* runMaintenance(): public status stays idle, so neither end is published. *)

RunMaintenance ==
    /\ MayCall
    /\ phase = "idle"
    /\ phase' = "maintenance" /\ abort' = "none" /\ latch' = FALSE
    /\ job' = TRUE
    /\ UNCHANGED <<turn, step, pc, stack, inbox, local, log, world>>

MaintenanceSettles ==
    /\ Suspended
    /\ job
    /\ job' = FALSE
    /\ IF latch /\ HasPending
       THEN /\ phase' = "running" /\ abort' = "none" /\ latch' = FALSE /\ step' = 0
            /\ pc' = "started" /\ stack' = <<Drive>>
       ELSE /\ phase' = "idle" /\ abort' = "none" /\ latch' = FALSE
            /\ UNCHANGED <<step, pc, stack>>
    /\ UNCHANGED <<turn, inbox, local, log, world>>

-----------------------------------------------------------------------------
(* kick() and turn() *)

Leaves == /\ pc' = "exiting"
          /\ stack' = Tail(stack)

\* withInitiator() refuses the boundary while the registry closes: the phase
\* stays reserved and no driver runs.
DriverStranded ==
    /\ Top("drive") /\ pc = "started" /\ ~accepting
    /\ pc' = "stranded" /\ stack' = Tail(stack)
    /\ UNCHANGED <<activity, inbox, local, log, job, world>>

EnteringTurn ==
    \/ Top("drive") /\ pc = "started" /\ accepting
    \/ Suspended /\ pc = "again"
BelowDriver == IF Suspended THEN <<>> ELSE Tail(stack)

ThrowsBeforeOpening(place) ==
    /\ EnteringTurn /\ abort # "none"
    /\ pc' = place /\ stack' = BelowDriver
    /\ UNCHANGED <<activity, inbox, local, log, job, world>>

TurnNeverOpensRetries == ThrowsBeforeOpening("again")
TurnNeverOpens == ThrowsBeforeOpening("exiting")

TurnOpens ==
    /\ EnteringTurn /\ abort = "none"
    /\ turn' = turn + 1
    /\ log' = LogTurnStart(turn + 1)
    /\ ending' = "null"
    /\ pc' = "opened" /\ stack' = Push(Drive, BelowDriver)
    /\ UNCHANGED <<phase, abort, latch, step, inbox, proposal, decision, job, world>>

\* turn/start is refused (a dispatch listener vetoes it): agent/error is
\* published, then the driver exits with the inbox as it was.
TurnRefused ==
    /\ EnteringTurn /\ abort = "none"
    /\ pc' = "refused" /\ stack' = Push(Drive, BelowDriver)
    /\ UNCHANGED <<activity, inbox, local, log, job, world>>

RefusedTurnLeaves ==
    /\ Top("drive") /\ pc = "refused"
    /\ Leaves
    /\ UNCHANGED <<activity, inbox, local, log, job, world>>

\* Close the turn and let its exception or its `return false` reach kick().
EndTurn(reason) ==
    /\ log' = LogTurnEnd(reason)
    /\ ending' = reason
    /\ proposal' = {} /\ decision' = "none"
    /\ pc' = "exiting"

\* Close the turn through its `break`, after which pending input opens another.
BreakTurn(reason) ==
    /\ log' = LogTurnEnd(reason)
    /\ ending' = reason
    /\ proposal' = {} /\ decision' = "none"
    /\ pc' = "ended" /\ stack' = <<Drive>>

\* A live failure: agent/error is published before the turn closes.
FailTurn ==
    /\ ending' = "error"
    /\ proposal' = {} /\ decision' = "none"
    /\ pc' = "failed" /\ stack' = <<Drive>>

\* preStep() up to its first await: claim the batch the step boundary owns.
\* The queued turn is only taken by a turn's first proposal.
TakeBatch(head) ==
    /\ proposal' = nextStep \cup head
    /\ fate' = Settle(nextStep \cup head, "claimed")
    /\ nextStep' = {}
    /\ nextTurn' = IF head = {} THEN nextTurn ELSE Tail(nextTurn)
    /\ log' = [log EXCEPT !.followups = @ + Cardinality(head)]
    /\ pc' = "proposed" /\ decision' = "none"

FirstQueued == IF nextTurn # <<>> THEN {Head(nextTurn)} ELSE {}
ClaimAlwaysTakesTurn(target) == TakeBatch(FirstQueued)
ClaimForgetsQueue(target) ==
    LET head == IF target = "next-turn" THEN FirstQueued ELSE {}
    IN  /\ proposal' = nextStep \cup head
        /\ fate' = Settle(nextStep \cup head, "claimed")
        /\ pc' = "proposed" /\ decision' = "none"
        /\ UNCHANGED <<nextTurn, nextStep, log>>
Claim(target) == TakeBatch(IF target = "next-turn" THEN FirstQueued ELSE {})

FirstClaim ==
    /\ Top("drive") /\ pc = "opened"
    /\ \/ abort = "none" /\ Claim("next-turn") /\ UNCHANGED ending
       \/ abort # "none" /\ EndTurn("aborted") /\ UNCHANGED inbox
    /\ stack' = Tail(stack)
    /\ UNCHANGED <<activity, job, world>>

\* The prompt assembly or a pre-step listener rejects, or a signal check throws.
ProposalFails ==
    /\ Suspended /\ pc = "proposed"
    /\ \/ abort # "none" /\ EndTurn("aborted") /\ UNCHANGED stack
       \/ abort = "none" /\ FailTurn /\ UNCHANGED log
    /\ fate' = Settle(proposal, "dropped")
    /\ UNCHANGED <<activity, nextTurn, nextStep, job, world>>

\* agent/pre-step settles with the signal still live.  It may drop messages
\* and may add context of its own.  turn() resumes a microtask later.
PreStepDecides ==
    /\ Suspended /\ pc = "proposed" /\ abort = "none"
    /\ \/ decision' = "reject" /\ proposal' = {}
       \/ \E kept \in SUBSET proposal :
             /\ proposal' = kept
             /\ decision' \in IF kept = {} THEN {"empty", "enter"} ELSE {"enter"}
    /\ fate' = Settle(proposal \ proposal', IF decision' = "reject" THEN "dropped" ELSE "rewritten")
    /\ pc' = "decided"
    /\ UNCHANGED <<activity, stack, nextTurn, nextStep, ending, log, job, world>>

StepRejected ==
    /\ Suspended /\ pc = "decided" /\ decision = "reject"
    /\ EndTurn("blocked")
    /\ UNCHANGED <<activity, stack, inbox, job, world>>

\* Nothing to enter: a turn that already has its ending breaks, a turn with no
\* step yet completes and leaves.
NothingEnters ==
    /\ Suspended /\ pc = "decided" /\ decision = "empty"
    /\ \/ ending # "null" /\ BreakTurn(ending)
       \/ ending = "null" /\ step = 0 /\ EndTurn("completed") /\ UNCHANGED stack
    /\ UNCHANGED <<activity, inbox, job, world>>

OpensStep == decision = "enter" \/ (decision = "empty" /\ ending = "null" /\ step > 0)

AbandonStep(reason) ==
    /\ Suspended /\ pc = "decided" /\ OpensStep /\ abort # "none"
    /\ EndTurn(reason)
    /\ fate' = Settle(proposal, "dropped")
    /\ UNCHANGED <<activity, stack, nextTurn, nextStep, job, world>>

StepAborted == AbandonStep("aborted")

\* step/start, then one user/message per entered message.
EnterStep ==
    /\ Suspended /\ pc = "decided" /\ OpensStep
    /\ step' = step + 1
    /\ log' = LogStepStart(step + 1)
    /\ fate' = Settle(proposal, "entered")
    /\ proposal' = {} /\ decision' = "none"
    /\ pc' = "stepping"
    /\ UNCHANGED <<phase, abort, latch, turn, stack, nextTurn, nextStep, ending, job, world>>

StepOpensUnchecked == EnterStep
StepOpens == abort = "none" /\ EnterStep

\* step() returns: the request loop and the tool scheduler are behind it.  A
\* step whose tools did not conclude owes another.  max-tokens is sticky.
StepReturns(stepEnd) ==
    /\ Suspended /\ pc = "stepping"
    /\ stepEnd = "null" => step < MaxSteps
    /\ ending' = IF ending = "max-tokens" THEN ending ELSE stepEnd
    /\ log' = LogStepEnd
    /\ pc' = "stepped" /\ stack' = <<Drive>>
    /\ UNCHANGED <<activity, inbox, proposal, decision, job, world>>

\* step() throws; the step still closes first.
StepThrowsLeavingStepOpen ==
    /\ Suspended /\ pc = "stepping"
    /\ pc' = "broken" /\ stack' = <<Drive>>
    /\ UNCHANGED <<activity, inbox, local, log, job, world>>
StepThrows ==
    /\ Suspended /\ pc = "stepping"
    /\ log' = LogStepEnd
    /\ pc' = "broken" /\ stack' = <<Drive>>
    /\ UNCHANGED <<activity, inbox, local, job, world>>

BrokenStepLeaves ==
    /\ stack = <<Drive>> /\ pc = "broken"
    /\ \/ abort # "none" /\ EndTurn("aborted") /\ stack' = <<>>
       \/ abort = "none" /\ FailTurn /\ UNCHANGED log
    /\ UNCHANGED <<activity, inbox, job, world>>

\* After step/end: abort, offer the stop, or claim for the next step.
StepCloses ==
    /\ stack = <<Drive>> /\ pc = "stepped"
    /\ stack' = <<>>
    /\ \/ abort # "none" /\ EndTurn("aborted") /\ UNCHANGED inbox
       \/ /\ abort = "none" /\ ending # "null" /\ nextStep = {}
          /\ pc' = "stopping"
          /\ UNCHANGED <<inbox, local, log>>
       \/ /\ abort = "none" /\ (ending = "null" \/ nextStep # {})
          /\ Claim("next-step")
          /\ UNCHANGED ending
    /\ UNCHANGED <<activity, job, world>>

\* agent/turn-stopping settles: late steering keeps the turn open.
StopsOrGoesOn ==
    \/ nextStep = {} /\ BreakTurn(ending) /\ UNCHANGED inbox
    \/ nextStep # {} /\ Claim("next-step") /\ UNCHANGED <<stack, ending>>

TurnStopsUnchecked ==
    /\ Suspended /\ pc = "stopping"
    /\ StopsOrGoesOn
    /\ UNCHANGED <<activity, job, world>>
TurnStops ==
    /\ Suspended /\ pc = "stopping"
    /\ \/ abort # "none" /\ EndTurn("aborted") /\ UNCHANGED <<stack, inbox>>
       \/ abort = "none" /\ StopsOrGoesOn
    /\ UNCHANGED <<activity, job, world>>

\* A turn-stopping listener throws.
StoppingFails ==
    /\ Suspended /\ pc = "stopping" /\ abort = "none"
    /\ FailTurn
    /\ UNCHANGED <<activity, inbox, log, job, world>>

\* agent/error has been published; whatever its listeners did, the turn closes
\* with the failure.
FailedTurnCloses ==
    /\ stack = <<Drive>> /\ pc = "failed"
    /\ EndTurn("error")
    /\ stack' = <<>>
    /\ UNCHANGED <<activity, inbox, job, world>>

\* turn/end is published: pending input reuses the driver with a fresh
\* controller, otherwise the driver leaves.
FreshController ==
    abort' = "none" /\ latch' = FALSE /\ step' = 0

TurnContinues ==
    /\ stack = <<Drive>> /\ pc = "ended"
    /\ stack' = <<>>
    /\ \/ HasPending /\ pc' = "again" /\ FreshController
       \/ ~HasPending /\ pc' = "exiting" /\ UNCHANGED <<abort, latch, step>>
    /\ UNCHANGED <<phase, turn, inbox, local, log, job, world>>

\* kick()'s finally: idle is published, then a latched wake is replayed.
GoesIdle(wakeRequested) ==
    /\ Suspended /\ pc = "exiting"
    /\ phase' = "idle" /\ abort' = "none" /\ latch' = FALSE
    /\ pc' = "off" /\ stack' = <<SettleFrame(wakeRequested)>>
    /\ UNCHANGED <<turn, step, inbox, local, log, job, world>>

DriverExitsLosingLatch == GoesIdle(FALSE)
DriverExits == GoesIdle(latch)

LatchReplays ==
    /\ Top("settle")
    /\ IF Head(stack).flag /\ HasPending
       THEN WakeDriver(FALSE, Tail(stack))
       ELSE stack' = Tail(stack) /\ UNCHANGED <<phase, abort, latch, step, pc>>
    /\ UNCHANGED <<turn, inbox, local, log, job, world>>

-----------------------------------------------------------------------------
(* The world around the agent *)

\* AgentRegistry teardown rejects new initiator boundaries before its
\* dependents, the agent loop among them, unload.
RegistryCloses ==
    /\ accepting
    /\ accepting' = FALSE
    /\ UNCHANGED <<activity, pc, stack, inbox, local, log, job, crashes>>

\* The constructor continues from the last turn/start of the log.
ResumedTurnOffByOne == IF log.openTurn # 0 THEN log.openTurn - 1 ELSE log.turns - 1
ResumedTurn == IF log.openTurn # 0 THEN log.openTurn ELSE log.turns

\* The process dies and the agent is resumed from its log: interrupted
\* closers balance it, the constructor replays the inbox splices, and a
\* claimed message that never entered is gone.
CrashAndResume ==
    /\ crashes < MaxCrashes
    /\ crashes' = crashes + 1
    /\ phase' = "idle" /\ abort' = "none" /\ latch' = FALSE /\ step' = 0
    /\ turn' = ResumedTurn
    /\ pc' = "off" /\ stack' = <<>>
    /\ fate' = [m \in Msgs |-> IF fate[m] = "claimed" THEN "dropped" ELSE fate[m]]
    /\ proposal' = {} /\ decision' = "none" /\ ending' = "null"
    /\ log' = IF log.openTurn = 0 THEN log
              ELSE [log EXCEPT !.openTurn = 0, !.openStep = 0, !.turns = @ + 1,
                               !.steps = @ + (IF log.openStep # 0 THEN 1 ELSE 0),
                               !.last = "interrupted"]
    /\ job' = FALSE /\ accepting' = TRUE
    /\ UNCHANGED <<nextTurn, nextStep>>

-----------------------------------------------------------------------------
Calls ==
    \/ \E m \in Msgs, target \in Targets, wakeup \in BOOLEAN : Send(m, target, wakeup)
    \/ \E m \in Msgs : Remove(m)
    \/ \E cause \in Causes : Cancel(cause)
    \/ \E cause \in Causes \ {"disposed"} : CancelKeepingInbox(cause)
    \/ RunMaintenance

\* Work that resumes by itself once the code it waits for lets it.
Resumes ==
    \/ SendWakes \/ CancelClearsTurns \/ CancelAborts
    \/ DriverStranded \/ TurnNeverOpens \/ TurnOpens \/ TurnRefused \/ RefusedTurnLeaves
    \/ FirstClaim \/ ProposalFails \/ PreStepDecides
    \/ StepRejected \/ NothingEnters \/ StepAborted \/ StepOpens
    \/ \E stepEnd \in {"completed", "max-tokens", "null"} : StepReturns(stepEnd)
    \/ StepThrows \/ BrokenStepLeaves \/ StepCloses
    \/ TurnStops \/ StoppingFails \/ FailedTurnCloses
    \/ TurnContinues \/ DriverExits \/ LatchReplays
    \/ MaintenanceSettles

Next == Calls \/ Resumes \/ RegistryCloses \/ CrashAndResume

Spec == Init /\ [][Next]_vars

\* Synchronous work and microtasks always get to run, and an await whose
\* signal has aborted settles.  A live await (a model stream, a tool, a
\* listener) owes nothing.
Unblocked == ~Suspended \/ abort # "none" \/ pc \in {"decided", "again", "exiting"}
FairSpec == Spec /\ WF_vars(Unblocked /\ Resumes)

-----------------------------------------------------------------------------
(* Properties *)

ControlTypeOK ==
    /\ phase \in {"idle", "maintenance", "running"}
    /\ abort \in Causes \cup {"none"}
    /\ latch \in BOOLEAN
    /\ turn \in Nat /\ step \in Nat
    /\ pc \in Pcs
    /\ decision \in {"none", "reject", "empty", "enter"}
    /\ ending \in Reasons
    /\ job \in BOOLEAN /\ accepting \in BOOLEAN
    /\ crashes \in Nat

InboxTypeOK ==
    /\ nextTurn \in Seq(Msgs) /\ nextStep \in SUBSET Msgs
    /\ proposal \in SUBSET Msgs
    /\ fate \in [Msgs -> Fates]

TypeOK == ControlTypeOK /\ InboxTypeOK /\ stack \in Seq(Frame) /\ log \in Boundaries

\* The agent has one owner at a time: the running phase belongs to exactly one
\* driver from the wake to its own finally, the maintenance phase to exactly one
\* job until it settles.  No interleaving of calls, reentrant listeners, cancels
\* and replayed wakes frees the phase under work that is still unwinding.
PhaseHasOneOwner ==
    /\ (phase = "running") <=> (pc # "off")
    /\ (phase = "maintenance") <=> job

\* A wake is only latched behind work that cannot deliver it: maintenance, or
\* an activity aborted by a cause other than disposal.
LatchDiscipline ==
    latch => phase = "maintenance" \/ (phase = "running" /\ abort \in Causes \ {"disposed"})

\* A message is in one place: pending in one list, once; claimed by the one
\* open proposal; or gone for good.  A claim never outlives its proposal.
InboxAccount ==
    /\ \A m \in Msgs : fate[m] = "pending" <=> m \in QueuedTurns \cup nextStep
    /\ \A m \in Msgs : fate[m] = "claimed" <=> m \in proposal
    /\ QueuedTurns \cap nextStep = {}
    /\ Cardinality(QueuedTurns) = Len(nextTurn)
    /\ proposal # {} => pc \in {"proposed", "decided"}

\* A follow-up is the sole queued prompt of its own turn, however many
\* proposals and late steering messages the turn goes through.
FollowupOwnsTurn == log.followups <= 1

\* What the driver believes it has open is what the log has open: the basis of
\* the turn and step numbers it writes, across crashes and reused drivers.
InTurnPcs == {"opened", "proposed", "decided", "stepping", "stepped", "broken", "stopping", "failed"}
LogFollowsDriver ==
    /\ log.openTurn = IF pc \in InTurnPcs THEN turn ELSE 0
    /\ log.openStep = IF pc = "stepping" THEN step ELSE 0
    /\ turn = log.turns + (IF pc \in InTurnPcs THEN 1 ELSE 0)
    /\ pc \in InTurnPcs => step = log.steps + (IF pc = "stepping" THEN 1 ELSE 0)
    /\ pc \in {"started", "refused", "opened", "again"} => step = 0

\* Once the activity's signal has aborted, its driver opens no turn, begins no
\* claim and opens no step, wherever it stood when the cancel arrived.
AbortStopsWork ==
    [][abort # "none" =>
          /\ log'.openTurn \in {0, log.openTurn}
          /\ log'.openStep \in {0, log.openStep}
          /\ \A m \in Msgs : fate'[m] \in {"claimed", "entered"} => fate'[m] = fate[m]]_vars

\* The closing reason tells the truth.  A turn that reports success accounts
\* for every message it claimed: none is dropped between its claim and its
\* user/message.  And a turn closed by its own driver says "aborted" exactly
\* when its signal had aborted, except where a failure was already reported and
\* in the microtask in which a settled pre-step decision reaches the turn loop.
EndingTellsTruth ==
    [][log'.turns > log.turns =>
          /\ log'.last \in {"completed", "max-tokens"} => \A m \in Msgs : fate[m] # "claimed"
          /\ log'.last # "interrupted" /\ pc \notin {"failed", "decided"} =>
                (log'.last = "aborted" <=> abort # "none")]_vars

\* A cancelled activity converges: once its signal has aborted the driver
\* leaves the phase (or takes a fresh controller), unless the registry's
\* teardown kept it from ever starting.
CancelConverges ==
    (phase = "running" /\ abort # "none" /\ pc # "stranded")
        ~> (phase # "running" \/ abort = "none" \/ pc = "stranded")

\* A wake latched behind an aborted activity is delivered when it converges: a
\* driver starts, or maintenance that took the idle phase first inherits it,
\* unless the queue emptied, a clearing cancel dropped the wake, the registry's
\* teardown stranded the driver that held it, or the process died.
LatchedWakeRuns ==
    \A k \in 0..MaxCrashes :
        (phase = "running" /\ latch /\ HasPending /\ crashes = k)
            ~> (\/ pc \in {"started", "stranded"} \/ (phase = "maintenance" /\ latch)
                \/ ~HasPending \/ (phase = "running" /\ ~latch) \/ crashes > k)

\* The turn and step boundaries the driver appends are a legal session log.
TL == INSTANCE TurnLog WITH openTurn <- log.openTurn, openStep <- log.openStep,
                            nextTurn <- log.turns + 1, nextStep <- log.steps + 1
ImplementsTurnLog == TL!Spec

-----------------------------------------------------------------------------
(* Statements of the documentation that the code does not keep *)

\* whenIdle(): "fulfillment after no active driver or maintenance task
\* remains": an aborted running phase is eventually left.
WhenIdleFulfils == (phase = "running" /\ abort # "none") ~> (phase # "running" \/ abort = "none")
=============================================================================
