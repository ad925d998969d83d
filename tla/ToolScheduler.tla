---------------------------- MODULE ToolScheduler ----------------------------
(***************************************************************************)
(* One step's tool calls: executeToolCalls() and runGroup() of             *)
(* packages/core/agent-loop/src/tool-calls.ts, with the execution stages   *)
(* of the tool registry they drive (packages/core/tools/src/index.ts).     *)
(*                                                                         *)
(* The scheduler is one async function: at a place of `SyncPcs` it runs    *)
(* without yielding, at every other place it awaits and tools, policy and  *)
(* other tasks run.  Observers of an append run inside it: they too may    *)
(* abort the step's signal, or change a tool's registration and with it a  *)
(* call's concurrency mode.  Only while the pool fills does no other code  *)
(* run.                                                                    *)
(***************************************************************************)
EXTENDS Naturals, Sequences, FiniteSets

CONSTANTS
    NumCalls,       \* tool calls of the assistant message, in model order
    MaxParallel,    \* config.maxParallelToolCalls, read once per group
    MaxFlips        \* bound: changes of a call's mode by the registry

ASSUME SchedulerAssumption ==
    /\ NumCalls \in Nat \ {0}
    /\ MaxParallel \in Nat \ {0}
    /\ MaxFlips \in Nat

Calls == 1..NumCalls
Modes == {"parallel", "exclusive"}
\* Outcomes the properties tell apart: "concluding" is a success whose tool
\* concluded the turn, "unstarted" is TOOL_ABORTED_BEFORE_DISPATCH.
Outcomes == {"ok", "concluding", "error", "aborted", "unstarted"}

VARIABLES
    mode,       \* live executionMode() of each call
    flips,      \* mode changes so far
    signal,     \* the step's signal has aborted
    pc,         \* where executeToolCalls() and its helpers stand
    base,       \* calls consumed by earlier groups
    groupEnd,   \* last call of the group
    groupMode,  \* mode the group was formed with
    started,    \* calls whose tool/call was appended, by this or earlier groups
    committed,  \* calls whose tool/result was appended
    aborted,    \* runGroup()'s local aborted
    failure,    \* runGroup()'s local schedulerFailure is set
    concluded,  \* a committed result concludes the turn
    verdict,    \* settled prepare() result awaiting startCall()
    slots,      \* per call: the result awaiting its model-order commit
    callSeq,    \* per call: position of its tool/call event
    inFlight,   \* dispatches not yet taken out of the race
    stage,      \* per call: where its dispatch stands
    invoked,    \* calls whose tool body ran
    log         \* tool/call and tool/result events of the step

group == <<base, groupEnd, groupMode>>
registry == <<mode, flips>>
tools == <<stage, invoked>>
vars == <<registry, signal, pc, group, started, committed, aborted, failure, concluded,
          verdict, slots, callSeq, inFlight, tools, log>>

SyncPcs == {"filling", "appended", "committing"}
AwaitPcs == {"classify", "preparing", "prepared", "startDone", "finalizing", "committed",
             "racing", "leaving", "draining"}
FinalPcs == {"returned", "thrown"}
Stages == {"idle", "wrapped", "body", "done"}
Slot == [kind : {"none", "post", "final"}, outcome : Outcomes \cup {"none"}]
Verdict == [kind : {"none", "dispatch", "post", "final"}, outcome : Outcomes \cup {"none"}]
NoSlot == [kind |-> "none", outcome |-> "none"]

\* The log's "done" is a success or a failure of the call's own.
Told(outcome) == IF outcome \in {"ok", "error"} THEN "done" ELSE outcome

Event == [kind : {"call", "result"}, call : Calls, cites : Nat, outcome : Outcomes \cup {"none", "done"}]
CallEvent(c) == [kind |-> "call", call |-> c, cites |-> 0, outcome |-> "none"]
ResultEvent(c, outcome, cites) ==
    [kind |-> "result", call |-> c, cites |-> cites, outcome |-> Told(outcome)]

Running == {c \in Calls : stage[c] \in {"wrapped", "body"}}
Yielded == pc \notin SyncPcs

Init ==
    /\ mode \in [Calls -> Modes] /\ flips = 0
    /\ signal = FALSE
    /\ pc = "classify"
    /\ base = 0 /\ groupEnd = 0 /\ groupMode = "exclusive"
    /\ started = 0 /\ committed = 0
    /\ aborted = FALSE /\ failure = FALSE /\ concluded = FALSE
    /\ verdict = NoSlot
    /\ slots = [c \in Calls |-> NoSlot]
    /\ callSeq = [c \in Calls |-> 0]
    /\ inFlight = {}
    /\ stage = [c \in Calls |-> "idle"] /\ invoked = {}
    /\ log = <<>>

-----------------------------------------------------------------------------
(* executeToolCalls(): form a group *)

GroupEndPastBarrier(first) == IF mode[first] = "parallel" THEN NumCalls ELSE first + 1
GroupEnd(first) == IF mode[first] = "parallel" THEN NumCalls ELSE first

Classify ==
    /\ pc = "classify"
    /\ base' = started
    /\ groupEnd' = GroupEnd(started + 1)
    /\ groupMode' = mode[started + 1]
    /\ aborted' = signal
    /\ pc' = "filling"
    /\ UNCHANGED <<registry, signal, started, committed, failure, concluded, verdict, slots,
                   callSeq, inFlight, tools, log>>

-----------------------------------------------------------------------------
(* fillPool() and startCall() *)

BarrierAheadUnchecked == FALSE
BarrierAhead == started > base /\ groupMode = "parallel" /\ mode[started + 1] # "parallel"

PoolOpen == Cardinality(inFlight) < MaxParallel

MayStart == ~aborted /\ started < groupEnd /\ PoolOpen /\ ~BarrierAhead

StartCall ==
    /\ pc = "filling" /\ MayStart
    /\ started' = started + 1
    /\ log' = Append(log, CallEvent(started + 1))
    /\ callSeq' = [callSeq EXCEPT ![started + 1] = Len(log) + 1]
    /\ pc' = "appended"
    /\ UNCHANGED <<registry, signal, group, committed, aborted, failure, concluded, verdict,
                   slots, inFlight, tools>>

\* runGroup()'s catch: the first failure is kept, started dispatches drain.
Fail == failure' = TRUE /\ pc' = "draining"

\* The session refuses the tool/call append.
CallRefused ==
    /\ pc = "filling" /\ MayStart
    /\ Fail
    /\ UNCHANGED <<registry, signal, group, started, committed, aborted, concluded, verdict,
                   slots, callSeq, inFlight, tools, log>>

PoolFilled ==
    /\ pc = "filling" /\ ~MayStart
    /\ pc' = IF inFlight # {} THEN "racing" ELSE "leaving"
    /\ UNCHANGED <<registry, signal, group, started, committed, aborted, failure, concluded,
                   verdict, slots, callSeq, inFlight, tools, log>>

\* prepare() on entry: unusable arguments, or a signal aborted by an observer
\* of the tool/call, skip the policy pipeline.
PrepareBegins ==
    /\ pc = "appended"
    /\ \/ signal /\ pc' = "prepared" /\ verdict' = [kind |-> "final", outcome |-> "unstarted"]
       \/ pc' = "prepared" /\ verdict' = [kind |-> "final", outcome |-> "error"]
       \/ ~signal /\ pc' = "preparing" /\ UNCHANGED verdict
    /\ UNCHANGED <<registry, signal, group, started, committed, aborted, failure, concluded,
                   slots, callSeq, inFlight, tools, log>>

\* The pre-execute gate, an approval it may ask for and the guards settle: deny
\* and error win over cancellation, cancellation over dispatch.
PrepareSettles ==
    /\ pc = "preparing"
    /\ pc' = "prepared"
    /\ \/ verdict' \in {[kind |-> "post", outcome |-> "error"], [kind |-> "final", outcome |-> "error"]}
       \/ signal /\ verdict' = [kind |-> "post", outcome |-> "unstarted"]
       \/ ~signal /\ verdict' = [kind |-> "dispatch", outcome |-> "none"]
    /\ UNCHANGED <<registry, signal, group, started, committed, aborted, failure, concluded,
                   slots, callSeq, inFlight, tools, log>>

PrepareRejects ==
    /\ pc = "preparing"
    /\ Fail
    /\ UNCHANGED <<registry, signal, group, started, committed, aborted, concluded, verdict,
                   slots, callSeq, inFlight, tools, log>>

\* startCall() after its await: dispatch, or keep the result for its turn.
TakeVerdict ==
    /\ pc' = "startDone"
    /\ verdict' = NoSlot
    /\ \/ /\ verdict.kind = "dispatch"
          /\ inFlight' = inFlight \cup {started}
          /\ stage' = [stage EXCEPT ![started] = "wrapped"]
          /\ UNCHANGED slots
       \/ /\ verdict.kind # "dispatch"
          /\ slots' = [slots EXCEPT ![started] = verdict]
          /\ UNCHANGED <<inFlight, stage>>
    /\ UNCHANGED failure

Prepared ==
    /\ pc = "prepared"
    /\ \/ failure /\ Fail /\ UNCHANGED <<verdict, slots, inFlight, stage>>
       \/ ~failure /\ TakeVerdict
    /\ UNCHANGED <<registry, signal, group, started, committed, aborted, concluded, callSeq,
                   invoked, log>>

StartDone ==
    /\ pc = "startDone"
    /\ pc' = IF failure THEN "draining" ELSE "committing"
    /\ UNCHANGED <<registry, signal, group, started, committed, aborted, failure, concluded,
                   verdict, slots, callSeq, inFlight, tools, log>>

-----------------------------------------------------------------------------
(* commitReady(): settled results, in model order *)

NextToCommitSettled ==
    IF \E c \in (committed + 1)..groupEnd : slots[c].kind # "none"
    THEN CHOOSE c \in (committed + 1)..groupEnd : slots[c].kind # "none"
    ELSE committed + 1
NextToCommit == committed + 1
Ready(kind) == NextToCommit <= groupEnd /\ slots[NextToCommit].kind = kind

\* finish(), the tool/result append, its accepted contexts and conclusion; the
\* slot's outcome is not read again.
CommitResult ==
    /\ pc = "committing" /\ Ready("final")
    /\ LET c == NextToCommit
       IN  /\ log' = Append(log, ResultEvent(c, slots[c].outcome, callSeq[c]))
           /\ concluded' = (concluded \/ slots[c].outcome = "concluding")
           /\ slots' = [slots EXCEPT ![c].outcome = "none"]
    /\ committed' = committed + 1
    /\ UNCHANGED <<registry, signal, pc, group, started, aborted, failure, verdict,
                   callSeq, inFlight, tools>>

\* The session refuses the tool/result append, or, the result appended, the
\* inbox refuses one of its contexts.
ResultRefused ==
    /\ pc = "committing" /\ Ready("final")
    /\ Fail
    /\ LET c == NextToCommit
       IN  log' \in {log, Append(log, ResultEvent(c, slots[c].outcome, callSeq[c]))}
    /\ UNCHANGED <<registry, signal, group, started, committed, aborted, concluded, verdict,
                   slots, callSeq, inFlight, tools>>

FinalizeBegins ==
    /\ pc = "committing" /\ Ready("post")
    /\ pc' = "finalizing"
    /\ UNCHANGED <<registry, signal, group, started, committed, aborted, failure, concluded,
                   verdict, slots, callSeq, inFlight, tools, log>>

Failed == {"error", "aborted", "unstarted"}
\* A success is replaced once the caller's signal has aborted, by what became
\* of the body; a failure keeps its own account.
CancelledOutcomeSwapped(c) == IF c \in invoked THEN "unstarted" ELSE "aborted"
CancelledOutcome(c) == IF c \in invoked THEN "aborted" ELSE "unstarted"
AfterCancel(c, outcome) == IF signal /\ outcome \notin Failed THEN CancelledOutcome(c) ELSE outcome

\* finalize(): post-execute accepts the result, replaces a success, or blocks
\* it; the cancellation check comes after it.
FinalizeSettles ==
    /\ pc = "finalizing"
    /\ \E outcome \in {slots[NextToCommit].outcome, "error"} :
          slots' = [slots EXCEPT ![NextToCommit] =
                       [kind |-> "final", outcome |-> AfterCancel(NextToCommit, outcome)]]
    /\ pc' = "committing"
    /\ UNCHANGED <<registry, signal, group, started, committed, aborted, failure, concluded,
                   verdict, callSeq, inFlight, tools, log>>

FinalizeRejects ==
    /\ pc = "finalizing"
    /\ Fail
    /\ UNCHANGED <<registry, signal, group, started, committed, aborted, concluded, verdict,
                   slots, callSeq, inFlight, tools, log>>

NothingReady ==
    /\ pc = "committing" /\ (NextToCommit <= groupEnd => slots[NextToCommit].kind = "none")
    /\ pc' = "committed"
    /\ UNCHANGED <<registry, signal, group, started, committed, aborted, failure, concluded,
                   verdict, slots, callSeq, inFlight, tools, log>>

\* After every commit: failure, then abort, then replenish.
RefillsUnaware ==
    /\ pc' = IF failure THEN "draining" ELSE "filling"
    /\ UNCHANGED aborted
Refills ==
    /\ pc' = IF failure THEN "draining" ELSE "filling"
    /\ aborted' = IF failure THEN aborted ELSE aborted \/ signal

Committed ==
    /\ pc = "committed"
    /\ Refills
    /\ UNCHANGED <<registry, signal, group, started, committed, failure, concluded, verdict,
                   slots, callSeq, inFlight, tools, log>>

-----------------------------------------------------------------------------
(* runGroup(): the race, its exits, and its catch *)

RaceKeepsEntry(c) == UNCHANGED inFlight
LeavesRace(c) == inFlight' = inFlight \ {c}

RaceYields ==
    /\ pc = "racing"
    /\ \E c \in inFlight \ Running : LeavesRace(c)
    /\ pc' = IF failure THEN "draining" ELSE "committing"
    /\ UNCHANGED <<registry, signal, group, started, committed, aborted, failure, concluded,
                   verdict, slots, callSeq, tools, log>>

\* The group's and then the message's unstarted calls get a call/result pair.
SkippedToGroupEnd == (started + 1)..groupEnd
Skipped == (started + 1)..NumCalls
SkippedEvents ==
    LET at == Len(log)
    IN  [k \in 1..(2 * Cardinality(Skipped)) |->
            LET c == started + (k + 1) \div 2
            IN  IF k % 2 = 1 THEN CallEvent(c) ELSE ResultEvent(c, "unstarted", at + k - 1)]

LeavesAborted ==
    /\ pc = "leaving" /\ aborted
    /\ log' = log \o SkippedEvents
    /\ pc' = "returned"
    /\ UNCHANGED <<registry, signal, group, started, committed, aborted, failure, concluded,
                   verdict, slots, callSeq, inFlight, tools>>

\* One of those appends is refused; nothing runs any more and nothing catches.
SkipRefused ==
    /\ pc = "leaving" /\ aborted
    /\ \E k \in 0..(Len(SkippedEvents) - 1) : log' = log \o SubSeq(SkippedEvents, 1, k)
    /\ pc' = "thrown"
    /\ UNCHANGED <<registry, signal, group, started, committed, aborted, failure, concluded,
                   verdict, slots, callSeq, inFlight, tools>>

LeavesGroup ==
    /\ pc = "leaving" /\ ~aborted
    /\ pc' = IF committed # started THEN "thrown"
             ELSE IF started = NumCalls THEN "returned" ELSE "classify"
    /\ UNCHANGED <<registry, signal, group, started, committed, aborted, failure, concluded,
                   verdict, slots, callSeq, inFlight, tools, log>>

AllSettledIgnored == TRUE
AllSettled == inFlight \cap Running = {}

Drained ==
    /\ pc = "draining" /\ AllSettled
    /\ pc' = "thrown"
    /\ UNCHANGED <<registry, signal, group, started, committed, aborted, failure, concluded,
                   verdict, slots, callSeq, inFlight, tools, log>>

-----------------------------------------------------------------------------
(* Tools, policy and the rest of the process *)

\* dispatchToolBody(): the around-wrappers reach the body, which only starts
\* under a live signal.
BodyStarts(c) ==
    /\ ~signal
    /\ Yielded
    /\ stage[c] = "wrapped"
    /\ stage' = [stage EXCEPT ![c] = "body"]
    /\ invoked' = invoked \cup {c}
    /\ UNCHANGED <<registry, signal, pc, group, started, committed, aborted, failure, concluded,
                   verdict, slots, callSeq, inFlight, log>>

\* dispatch() resolves: with the body's or a wrapper's result, still to be
\* post-executed, or with the final error of a wrapper that threw.  The signal
\* a wrapper gave the body may have aborted on its own.
DispatchSettles(c) ==
    /\ Yielded
    /\ c \in Running
    /\ stage' = [stage EXCEPT ![c] = "done"]
    /\ \/ \E outcome \in {"ok", "concluding", "error", CancelledOutcome(c)} :
             /\ outcome = "concluding" => c \in invoked
             /\ slots' = [slots EXCEPT ![c] = [kind |-> "post", outcome |-> AfterCancel(c, outcome)]]
       \/ slots' = [slots EXCEPT ![c] = [kind |-> "final", outcome |-> "error"]]
    /\ UNCHANGED <<registry, signal, pc, group, started, committed, aborted, failure, concluded,
                   verdict, callSeq, inFlight, invoked, log>>

\* dispatch() rejects: a failure of the scheduling machinery itself.
DispatchRejects(c) ==
    /\ Yielded
    /\ c \in Running
    /\ stage' = [stage EXCEPT ![c] = "done"]
    /\ failure' = TRUE
    /\ UNCHANGED <<registry, signal, pc, group, started, committed, aborted, concluded, verdict,
                   slots, callSeq, inFlight, invoked, log>>

Abort ==
    /\ pc \notin FinalPcs \cup {"filling"} /\ ~signal
    /\ signal' = TRUE
    /\ UNCHANGED <<registry, pc, group, started, committed, aborted, failure, concluded, verdict,
                   slots, callSeq, inFlight, tools, log>>

\* A tool is replaced or disposed, or its predicate answers differently.
Reclassify(c) ==
    /\ pc \notin FinalPcs \cup {"filling"} /\ flips < MaxFlips /\ c > started
    /\ flips' = flips + 1
    /\ mode' = [mode EXCEPT ![c] = IF @ = "parallel" THEN "exclusive" ELSE "parallel"]
    /\ UNCHANGED <<signal, pc, group, started, committed, aborted, failure, concluded, verdict,
                   slots, callSeq, inFlight, tools, log>>

-----------------------------------------------------------------------------
Progress ==
    \/ Classify \/ StartCall \/ CallRefused \/ PoolFilled
    \/ PrepareBegins \/ PrepareSettles \/ PrepareRejects \/ Prepared \/ StartDone
    \/ CommitResult \/ ResultRefused \/ FinalizeBegins \/ FinalizeSettles \/ FinalizeRejects
    \/ NothingReady \/ Committed
    \/ RaceYields \/ LeavesAborted \/ SkipRefused \/ LeavesGroup \/ Drained
    \/ \E c \in Calls : BodyStarts(c) \/ DispatchSettles(c) \/ DispatchRejects(c)

Next == Progress \/ Abort \/ (\E c \in Calls : Reclassify(c))

Spec == Init /\ [][Next]_vars

\* Policy, tools and result observers settle in the end.
FairSpec == Spec /\ WF_vars(Progress)

-----------------------------------------------------------------------------
(* Properties *)

TypeOK ==
    /\ mode \in [Calls -> Modes] /\ flips \in 0..MaxFlips
    /\ signal \in BOOLEAN /\ aborted \in BOOLEAN /\ failure \in BOOLEAN /\ concluded \in BOOLEAN
    /\ pc \in SyncPcs \cup AwaitPcs \cup FinalPcs
    /\ base \in 0..NumCalls /\ groupEnd \in 0..NumCalls /\ groupMode \in Modes
    /\ started \in 0..NumCalls /\ committed \in 0..NumCalls
    /\ verdict \in Verdict /\ slots \in [Calls -> Slot] /\ callSeq \in [Calls -> Nat]
    /\ inFlight \in SUBSET Calls /\ invoked \in SUBSET Calls
    /\ stage \in [Calls -> Stages]
    /\ log \in Seq(Event)

\* Whatever order dispatches settle in, the transcript is in model order: calls
\* and results each appear once and in order, and a result cites its own call.
ModelOrder ==
    /\ \A i, j \in DOMAIN log :
          i < j /\ log[i].kind = log[j].kind => log[i].call < log[j].call
    /\ \A j \in DOMAIN log : log[j].kind = "result" =>
          /\ log[j].cites \in 1..(j - 1)
          /\ log[log[j].cites] = CallEvent(log[j].call)

\* An outcome tells what became of the body: one recorded as aborted before
\* dispatch never ran it, one recorded as aborted did.
HonestOutcome ==
    \A j \in DOMAIN log : log[j].kind = "result" =>
        /\ log[j].outcome = "unstarted" => log[j].call \notin invoked
        /\ log[j].outcome \in {"aborted", "concluding"} => log[j].call \in invoked

\* A normal return, aborted or not, leaves no call unanswered and nothing
\* running, and concludes the turn exactly when one of its results does.
AllAnswered ==
    pc = "returned" =>
        /\ \A c \in Calls : \E j \in DOMAIN log : log[j].kind = "result" /\ log[j].call = c
        /\ Running = {}
        /\ concluded <=> \E j \in DOMAIN log : log[j].outcome = "concluding"

\* The step only fails on a refused append or a scheduler failure (the defensive
\* "uncommitted settled calls" error is unreachable), after every dispatch has
\* settled, and a failed scheduler fabricates no result: what it answered had run
\* to an outcome of its own.
FailsClean ==
    pc = "thrown" =>
        /\ failure \/ aborted
        /\ Running = {}
        /\ failure => \A j \in DOMAIN log :
              log[j].kind = "result" => slots[log[j].call].kind = "final"

\* A call starts beside unfinished calls only in a parallel pool, as a parallel
\* call: an exclusive call, reclassified on the way or not, waits for all before
\* it and holds back all behind it.  And whatever the pool refills from, no more
\* dispatches run than the configured cap.
StartsInTurn ==
    [][/\ started' > started =>
             \/ committed = started /\ Running = {}
             \/ groupMode = "parallel" /\ mode[started'] = "parallel"
       /\ Cardinality(Running') <= MaxParallel]_vars

\* Once the signal has aborted no further call starts and no tool body runs,
\* and once the scheduler has failed nothing further is dispatched, whatever
\* await the scheduler was in.
StopsWhenToldTo ==
    [][/\ signal => started' = started /\ invoked' = invoked
       /\ failure => inFlight' \subseteq inFlight]_vars

\* The step's tool phase ends.
Terminates == <>(pc \in FinalPcs)
=============================================================================
