---------------------------- MODULE WriteBehind ----------------------------
(***************************************************************************)
(* The write controller of one live session, class SessionWriteBehind in   *)
(* session-persistence/src/write-behind.ts.  It owns the events the        *)
(* session emitted and the backend has not stored, one fixed batching      *)
(* deadline, at most one active write, the retention of a failed batch,    *)
(* and one quiescence barrier that concurrent flush() calls share.         *)
(*                                                                         *)
(* One action is one synchronous job of the event loop.  A continuation    *)
(* that runs in a later microtask (`autoContinues`, and the barrier stages *)
(* in Microtasks) is a step of its own, so an enqueue or a flush can land  *)
(* in the gap; timers and the outcome of a write, which arrive as tasks,   *)
(* cannot.                                                                 *)
(***************************************************************************)
EXTENDS Naturals, Sequences

CONSTANTS Event,                 \* the events a session can emit
          Caller,                \* the callers of flush
          MaxEvents,             \* bound: events accepted
          MaxFailures            \* bound: writes that fail

ASSUME BoundsAssumption == MaxEvents \in Nat /\ MaxFailures \in Nat

VARIABLES
    accepted,                    \* history: every event enqueued, in order
    durable,                     \* history: the batches written, in order
    pending,                     \* events queued for the next write
    batch,                       \* the batch of the active write
    writing,                     \* "no", or who started the active write
    timer,                       \* the batching deadline is armed
    deadlineExpired,             \* it fired while a write was active
    automaticPaused,             \* a failure suspended automatic writes
    autoContinues,               \* continueAutomatic is due
    barrier,                     \* stage of drainBarrier, or "none"
    call,                        \* where each flush call stands
    mark,                        \* how many events each call must make durable
    failures                     \* writes that failed so far

queueVars == <<accepted, pending>>
writeVars == <<durable, batch, writing>>
autoVars  == <<timer, deadlineExpired, automaticPaused, autoContinues>>
callVars  == <<barrier, call, mark>>
vars      == <<queueVars, writeVars, autoVars, callVars, failures>>

Stages     == {"none", "overlapping", "resuming", "writing", "looking", "failing"}
Microtasks == {"resuming", "looking", "failing"}
CallStates == {"idle", "waiting", "joined", "done", "rejected"}

TypeOK ==
    /\ accepted \in Seq(Event) /\ durable \in Seq(Event)
    /\ pending \in Seq(Event)  /\ batch \in Seq(Event)
    /\ writing \in {"no", "background", "barrier"}
    /\ timer \in BOOLEAN /\ deadlineExpired \in BOOLEAN
    /\ automaticPaused \in BOOLEAN /\ autoContinues \in BOOLEAN
    /\ barrier \in Stages
    /\ call \in [Caller -> CallStates]
    /\ mark \in [Caller -> Nat]
    /\ failures \in Nat

Init ==
    /\ accepted = <<>> /\ durable = <<>> /\ pending = <<>> /\ batch = <<>>
    /\ writing = "no"
    /\ timer = FALSE /\ deadlineExpired = FALSE
    /\ automaticPaused = FALSE /\ autoContinues = FALSE
    /\ barrier = "none"
    /\ call = [c \in Caller |-> "idle"]
    /\ mark = [c \in Caller |-> 0]
    /\ failures = 0

\* No microtask is due, so the event loop may take a timer or an I/O result.
Quiet == ~autoContinues /\ barrier \notin Microtasks

-----------------------------------------------------------------------------
\* Retention and scheduling.

ArmsWhenEmpty == barrier = "none" /\ pending = <<>>

\* An event arms the deadline when it finds an idle queue, or when it
\* restarts the automatic path a failure had paused.
Arms == barrier = "none" /\ (automaticPaused \/ pending = <<>>)

Enqueue(e) ==
    /\ Len(accepted) < MaxEvents
    /\ accepted' = Append(accepted, e)
    /\ pending' = Append(pending, e)
    /\ timer' = (timer \/ Arms)
    /\ IF barrier = "none" /\ automaticPaused
         THEN automaticPaused' = FALSE /\ deadlineExpired' = FALSE
         ELSE UNCHANGED <<automaticPaused, deadlineExpired>>
    /\ UNCHANGED <<writeVars, autoContinues, callVars, failures>>

StartWriteCopies(by) ==
    /\ batch' = pending
    /\ UNCHANGED pending
    /\ writing' = by
    /\ timer' = FALSE /\ deadlineExpired' = FALSE

\* startWrite: the whole queue becomes the batch of the one active write.
StartWrite(by) ==
    /\ batch' = pending
    /\ pending' = <<>>
    /\ writing' = by
    /\ timer' = FALSE /\ deadlineExpired' = FALSE

\* onDeadline
Deadline ==
    /\ timer /\ Quiet
    /\ IF writing # "no"
         THEN /\ timer' = FALSE /\ deadlineExpired' = TRUE
              /\ UNCHANGED <<pending, batch, writing>>
         ELSE StartWrite("background")
    /\ UNCHANGED <<accepted, durable, automaticPaused, autoContinues, callVars, failures>>

ContinueAutomaticWaits ==
    /\ autoContinues
    /\ autoContinues' = FALSE
    /\ UNCHANGED <<queueVars, writeVars, timer, deadlineExpired, automaticPaused, callVars, failures>>

\* continueAutomatic, the continuation of a background write that succeeded.
ContinueAutomatic ==
    /\ autoContinues
    /\ autoContinues' = FALSE
    /\ IF barrier = "none" /\ pending # <<>> /\ deadlineExpired
         THEN StartWrite("background")
         ELSE UNCHANGED <<pending, batch, writing, timer, deadlineExpired>>
    /\ UNCHANGED <<accepted, durable, automaticPaused, callVars, failures>>

-----------------------------------------------------------------------------
\* The outcome of the active write.

\* The stage a settled write moves the barrier to.
AfterWrite(own) ==
    CASE barrier = "overlapping" -> "resuming"
      [] barrier = "writing"     -> own
      [] OTHER                   -> barrier

WriteSucceeds ==
    /\ writing # "no" /\ Quiet
    /\ durable' = durable \o batch
    /\ batch' = <<>> /\ writing' = "no"
    /\ autoContinues' = (writing = "background")
    /\ barrier' = AfterWrite("looking")
    /\ UNCHANGED <<queueVars, timer, deadlineExpired, automaticPaused, call, mark, failures>>

RetainedNested == <<batch>> \o pending
RetainedBehind == pending \o batch

\* The failed batch goes back in front of what was queued meanwhile.
Retained == batch \o pending

WriteFails ==
    /\ writing # "no" /\ Quiet
    /\ pending' = Retained
    /\ batch' = <<>> /\ writing' = "no"
    /\ timer' = FALSE /\ deadlineExpired' = FALSE /\ automaticPaused' = TRUE
    /\ barrier' = AfterWrite("failing")
    /\ UNCHANGED <<accepted, durable, autoContinues, call, mark>>

-----------------------------------------------------------------------------
\* Barriers.

\* The coordinator's flush first cancels the deadline and awaits the session's
\* initialization; only then does the call reach the controller's flush.
CancelAutomaticWait(c) ==
    /\ call[c] \in {"idle", "done", "rejected"}
    /\ call' = [call EXCEPT ![c] = "waiting"]
    /\ timer' = FALSE /\ deadlineExpired' = FALSE
    /\ UNCHANGED <<queueVars, writeVars, automaticPaused, autoContinues, barrier, mark, failures>>

\* Every caller that shares the barrier sees its outcome.
Settle(joined, outcome) ==
    [c \in Caller |-> IF joined[c] = "joined" THEN outcome ELSE joined[c]]

\* The loop of drainBarrier: write what is queued, or close the barrier in
\* the job that finds the queue empty.
DrainOrClose(joined) ==
    IF pending # <<>>
      THEN /\ StartWrite("barrier")
           /\ barrier' = "writing"
           /\ call' = joined
      ELSE /\ barrier' = "none"
           /\ call' = Settle(joined, "done")
           /\ timer' = FALSE /\ deadlineExpired' = FALSE
           /\ UNCHANGED <<pending, batch, writing>>

JoinIgnoringActive(c) ==
    /\ mark' = [mark EXCEPT ![c] = Len(accepted)]
    /\ LET joined == [call EXCEPT ![c] = "joined"] IN
         IF barrier # "none"
           THEN /\ call' = joined
                /\ UNCHANGED <<pending, batch, writing, timer, deadlineExpired,
                               automaticPaused, barrier>>
           ELSE /\ automaticPaused' = FALSE
                /\ DrainOrClose(joined)
    /\ UNCHANGED <<accepted, durable, autoContinues, failures>>

\* flush: join the open barrier or open one.
Join(c) ==
    /\ mark' = [mark EXCEPT ![c] = Len(accepted)]
    /\ LET joined == [call EXCEPT ![c] = "joined"] IN
         IF barrier # "none"
           THEN /\ call' = joined
                /\ UNCHANGED <<pending, batch, writing, timer, deadlineExpired,
                               automaticPaused, barrier>>
           ELSE /\ automaticPaused' = FALSE
                /\ IF writing # "no"
                     THEN /\ barrier' = "overlapping"
                          /\ call' = joined
                          /\ timer' = FALSE /\ deadlineExpired' = FALSE
                          /\ UNCHANGED <<pending, batch, writing>>
                     ELSE DrainOrClose(joined)
    /\ UNCHANGED <<accepted, durable, autoContinues, failures>>

Flush(c) == call[c] = "waiting" /\ Join(c)

\* drainBarrier resumes: after the overlapping write or after its own write.
BarrierContinues ==
    /\ barrier \in {"resuming", "looking"}
    /\ automaticPaused' = (automaticPaused /\ barrier # "resuming")
    /\ DrainOrClose(call)
    /\ UNCHANGED <<accepted, durable, autoContinues, mark, failures>>

\* The barrier's own write failed: its callers are rejected, the batch stays.
BarrierFails ==
    /\ barrier = "failing"
    /\ barrier' = "none"
    /\ call' = Settle(call, "rejected")
    /\ UNCHANGED <<queueVars, writeVars, autoVars, mark, failures>>

-----------------------------------------------------------------------------
\* In this module the sink fails at most MaxFailures times.
BoundedFailure ==
    /\ failures < MaxFailures
    /\ failures' = failures + 1
    /\ WriteFails

Next ==
    \/ \E e \in Event : Enqueue(e)
    \/ \E c \in Caller : CancelAutomaticWait(c) \/ Flush(c)
    \/ Deadline \/ ContinueAutomatic
    \/ WriteSucceeds \/ BoundedFailure
    \/ BarrierContinues \/ BarrierFails

Spec == Init /\ [][Next]_vars

(***************************************************************************)
(* Timers fire, due microtasks run, and the backend answers every write    *)
(* (it may answer with a failure).  A flush call that waits for its        *)
(* session's initialization reaches the controller.  Sessions owe no       *)
(* event and callers no flush.                                             *)
(***************************************************************************)
Fairness ==
    /\ WF_vars(Deadline) /\ WF_vars(ContinueAutomatic)
    /\ WF_vars(WriteSucceeds \/ BoundedFailure)
    /\ WF_vars(BarrierContinues) /\ WF_vars(BarrierFails)
    /\ \A c \in Caller : WF_vars(Flush(c))

FairSpec == Spec /\ Fairness

-----------------------------------------------------------------------------
(***************************************************************************)
(* Every event the session emitted is in exactly one place, and the places *)
(* read in order give the session's log back: a failed batch is put back   *)
(* before the events queued during the write, and an event queued during a *)
(* write or a barrier is neither dropped nor written twice.                *)
(***************************************************************************)
RetainedInOrder == accepted = durable \o batch \o pending

(***************************************************************************)
(* A flush that resolved made everything accepted before it durable, also  *)
(* when it joined a barrier another caller opened, or overtook a write     *)
(* that then failed.                                                       *)
(***************************************************************************)
FlushMeansDurable == \A c \in Caller : call[c] = "done" => Len(durable) >= mark[c]

(***************************************************************************)
(* A queued event always has someone to write it: an open barrier or a     *)
(* call on its way to one, an armed deadline, an over-budget write that    *)
(* will continue.  Only a failure leaves it waiting for the next event or  *)
(* flush.                                                                  *)
(***************************************************************************)
NothingStranded ==
    pending # <<>> =>
        \/ timer \/ automaticPaused \/ barrier # "none"
        \/ (deadlineExpired /\ (writing # "no" \/ autoContinues))
        \/ \E c \in Caller : call[c] = "waiting"

(***************************************************************************)
(* armTimer overwrites the handle without clearing it: it must only run    *)
(* when no deadline is armed, or the lost timer starts a write early and   *)
(* cannot be cancelled by a flush.                                         *)
(***************************************************************************)
OneDeadline == Arms => ~timer

Sink == INSTANCE OrderedSink

\* The controller implements the ordered, lossless sink.
ImplementsOrderedSink == Sink!Spec

(***************************************************************************)
(* Every accepted event becomes durable unless a failure pauses the        *)
(* automatic path.                                                         *)
(***************************************************************************)
EventuallyDurable ==
    \A n \in 1..MaxEvents :
        Len(accepted) >= n ~> (Len(durable) >= n \/ automaticPaused)
=============================================================================
