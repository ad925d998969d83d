---------------------------- MODULE BackgroundJobs ----------------------------
(***************************************************************************)
(* The registry of background jobs, LocalJobRegistry of packages/jobs/     *)
(* jobs-local/src/index.ts, with the completion notices that packages/     *)
(* jobs/tool-jobs/src/index.ts sends to the owning agent.                  *)
(*                                                                         *)
(* A job has three views that move at different times: the producer's own  *)
(* work, the `done` promise that tells of its end, and the record kept by  *)
(* the registry.  Calls on the registry run to completion; between two of  *)
(* them any caller, timer, abort, settled promise or teardown may run.     *)
(* Output, labels, ids, access checks and change notices are left out.     *)
(***************************************************************************)
EXTENDS Naturals, FiniteSets

CONSTANTS
    Jobs,       \* the jobs that may be started, each at most once
    Owners,     \* the agents that may own one
    NoOwner,    \* the bucket shared by the unowned jobs
    NoJob,      \* what an idle waiter waits for
    Waiters,    \* callers of wait(), each with one call at a time
    Limit       \* maxConcurrentJobsPerOwner

ASSUME JobsAssumption ==
    /\ NoOwner \notin Owners
    /\ NoJob \notin Jobs
    /\ Limit \in Nat \ {0}

Buckets == Owners \cup {NoOwner}
Terminal == {"ended", "failed"}      \* "ended" is completed or killed

VARIABLES
    status,     \* TrackedTask.status, "none" before start()
    kept,       \* the store
    owner,      \* TrackedTask.owner
    reported,   \* TrackedTask.reported
    work,       \* the producer: what it is doing, then the outcome of `done`
    orphaned,   \* jobs whose cancel threw during a teardown
    told,       \* "notice": its end was announced; "claim": a caller was given
                \* its end, or ended it (history)
    wait,       \* where each waiter stands
    agent,      \* lifecycle of each owner's scope
    attached,   \* ownerCleanups
    draining,   \* records a teardown waits for: of each owner, and of the service
    service     \* lifecycle of the registry; listenersClosed unless "up"

records == <<status, kept, owner, reported, told>>
producers == <<work, orphaned>>
teardown == <<agent, attached, draining, service>>
vars == <<records, producers, wait, teardown>>

-----------------------------------------------------------------------------
IsTerminal(j) == status[j] \in Terminal
LiveIn(jobs) == {j \in jobs : ~IsTerminal(j)}
Working(j) == work[j] \in {"working", "asked"}

\* TrackedTask.waiters: the wait() calls counted on a job.
Counted(j) == {w \in Waiters : wait[w].job = j /\ wait[w].counted}

NotWaiting == [at |-> "idle", job |-> NoJob, counted |-> FALSE]

Init ==
    /\ status = [j \in Jobs |-> "none"]
    /\ kept = {}
    /\ owner = [j \in Jobs |-> NoOwner]
    /\ reported = [j \in Jobs |-> FALSE]
    /\ work = [j \in Jobs |-> "none"]
    /\ orphaned = {}
    /\ told = [j \in Jobs |-> {}]
    /\ wait = [w \in Waiters |-> NotWaiting]
    /\ agent = [o \in Owners |-> "live"]
    /\ attached = {}
    /\ draining = [b \in Buckets |-> {}]
    /\ service = "up"

-----------------------------------------------------------------------------
(* start() *)

\* activeTaskCount(): records of the bucket that are running or stopping.
ActiveTasksRunning(b) == {j \in kept : owner[j] = b /\ status[j] = "running"}
ActiveTasks(b) == {j \in kept : owner[j] = b /\ status[j] \in {"running", "stopping"}}

\* ensureOwnerCleanup(): the first job of an owner attaches a cleanup to its
\* scope, which refuses one once it unloads.
OwnerServed(b) == b \in attached \cup {NoOwner} \cup {o \in Owners : agent[o] = "live"}

AttachAny(b) == attached' = attached \cup {b}
Attach(b) == attached' = attached \cup ({b} \ {NoOwner})

\* Producers resolve the service strictly, so only while its fiber is active.
Start(j, b) ==
    /\ service = "up"
    /\ status[j] = "none"
    /\ OwnerServed(b)
    /\ Cardinality(ActiveTasks(b)) < Limit
    /\ Attach(b)
    /\ status' = [status EXCEPT ![j] = "running"]
    /\ owner' = [owner EXCEPT ![j] = b]
    /\ kept' = kept \cup {j}
    /\ work' = [work EXCEPT ![j] = "working"]
    /\ UNCHANGED <<reported, told, orphaned, wait, agent, draining, service>>

-----------------------------------------------------------------------------
(* settle() *)

Told(jobs, channel) == [j \in Jobs |-> IF j \in jobs THEN told[j] \cup {channel} ELSE told[j]]

\* Each waiter of the settled jobs is released; it stays counted until its own
\* continuation runs.
ReleaseWaiters(jobs) ==
    wait' = [w \in Waiters |->
                IF wait[w].at = "waiting" /\ wait[w].job \in jobs
                THEN [wait[w] EXCEPT !.at = "released"] ELSE wait[w]]

\* The completion listener: an unreported end goes to the owner's inbox.
Notifies(j) == service = "up" /\ owner[j] # NoOwner /\ ~reported'[j]

SettleAgain(j, outcome) ==
    /\ status' = [status EXCEPT ![j] = outcome]
    /\ reported' = [reported EXCEPT ![j] = @ \/ Counted(j) # {}]
    /\ ReleaseWaiters({j})
    /\ told' = IF Notifies(j) THEN Told({j}, "notice") ELSE told

Settle(j, outcome) ==
    IF IsTerminal(j) THEN UNCHANGED <<status, reported, wait, told>>
                     ELSE SettleAgain(j, outcome)

\* The producer's work ends and its `done` promise settles.
ProducerEnds(j, outcome) ==
    /\ Working(j)
    /\ work' = [work EXCEPT ![j] = outcome]
    /\ UNCHANGED <<records, orphaned, wait, teardown>>

\* The continuation of `done` reaches the registry.
DoneSettles(j) ==
    /\ work[j] \in Terminal
    /\ work' = [work EXCEPT ![j] = "over"]
    /\ Settle(j, work[j])
    /\ UNCHANGED <<kept, owner, orphaned, teardown>>

-----------------------------------------------------------------------------
(* read() and kill(); a kill whose cancel throws changes nothing *)

Read(j) ==
    /\ j \in kept /\ IsTerminal(j)
    /\ reported' = [reported EXCEPT ![j] = TRUE]
    /\ told' = Told({j}, "claim")
    /\ UNCHANGED <<status, kept, owner, producers, wait, teardown>>

AskedToStop(jobs) == [j \in Jobs |-> IF j \in jobs /\ work[j] = "working" THEN "asked" ELSE work[j]]

KillLive(j) ==
    /\ status' = [status EXCEPT ![j] = "stopping"]
    /\ work' = AskedToStop({j})
    /\ reported' = [reported EXCEPT ![j] = TRUE]

Kill(j) ==
    /\ j \in kept
    /\ \/ ~IsTerminal(j) /\ KillLive(j)
       \/ IsTerminal(j) /\ reported' = [reported EXCEPT ![j] = TRUE] /\ UNCHANGED <<status, work>>
    /\ told' = Told({j}, "claim")
    /\ UNCHANGED <<kept, owner, orphaned, wait, teardown>>

-----------------------------------------------------------------------------
(* wait() *)

\* A wait on a finished job counts nothing and returns at once.
WaitBegins(w, j) ==
    /\ wait[w].at = "idle" /\ j \in kept
    /\ wait' = [wait EXCEPT ![w] = IF IsTerminal(j)
                                   THEN [at |-> "released", job |-> j, counted |-> FALSE]
                                   ELSE [at |-> "waiting", job |-> j, counted |-> TRUE]]
    /\ UNCHANGED <<records, producers, teardown>>

\* The deadline resolves the wait; its finally uncounts it later.
WaitTimesOut(w) ==
    /\ wait[w].at = "waiting"
    /\ wait' = [wait EXCEPT ![w].at = "released"]
    /\ UNCHANGED <<records, producers, teardown>>

\* The caller's signal rejects the wait, which is uncounted in the same span.
WaitAbortsCounted(w) ==
    /\ wait[w].at = "waiting"
    /\ wait' = [wait EXCEPT ![w].at = "idle"]
    /\ UNCHANGED <<records, producers, teardown>>
WaitAborts(w) ==
    /\ wait[w].at = "waiting"
    /\ wait' = [wait EXCEPT ![w] = NotWaiting]
    /\ UNCHANGED <<records, producers, teardown>>

\* The rest of wait(): uncount, then return the record as it now stands.
WaitReturns(w) ==
    LET j == wait[w].job IN
    /\ wait[w].at = "released"
    /\ wait' = [wait EXCEPT ![w] = NotWaiting]
    /\ reported' = [reported EXCEPT ![j] = @ \/ IsTerminal(j)]
    /\ told' = IF IsTerminal(j) THEN Told({j}, "claim") ELSE told
    /\ UNCHANGED <<status, kept, owner, producers, teardown>>

-----------------------------------------------------------------------------
(* Teardown of an owner and of the service *)

TornDownUnforced(j, jobs, throwing) == IF j \in LiveIn(jobs) THEN "stopping" ELSE status[j]
TornDown(j, jobs, throwing) ==
    CASE j \in throwing -> "failed"
      [] j \in LiveIn(jobs) \ throwing -> "stopping"
      [] OTHER -> status[j]

\* cancelForTeardown(): every live record is reported, then cancelled; where
\* the cancel throws the record is forced to "failed" instead.
CancelForTeardown(jobs, throwing) ==
    /\ reported' = [j \in Jobs |-> reported[j] \/ j \in LiveIn(jobs)]
    /\ status' = [j \in Jobs |-> TornDown(j, jobs, throwing)]
    /\ work' = AskedToStop(LiveIn(jobs) \ throwing)
    /\ orphaned' = orphaned \cup throwing
    /\ ReleaseWaiters(throwing)
    /\ told' = Told(LiveIn(jobs), "claim")

\* The agent's scope begins to unload; its cleanups run in later tasks.
OwnerUnloads(o) ==
    /\ agent[o] = "live"
    /\ agent' = [agent EXCEPT ![o] = "unloading"]
    /\ UNCHANGED <<records, producers, wait, attached, draining, service>>

\* The owner's cleanup: disposeOwned() up to its await.
Detach(o) == attached' = attached \ {o}

OwnedBy(o) == {j \in kept : owner[j] = o}
OwnerDrains(o) ==
    /\ agent[o] = "unloading" /\ o \in attached
    /\ agent' = [agent EXCEPT ![o] = "draining"]
    /\ Detach(o)
    /\ draining' = [draining EXCEPT ![o] = OwnedBy(o)]
    /\ \E throwing \in SUBSET LiveIn(OwnedBy(o)) : CancelForTeardown(OwnedBy(o), throwing)
    /\ UNCHANGED <<kept, owner, service>>

AllSettled(jobs) == \A j \in jobs : IsTerminal(j)

OwnerDrained(o) ==
    /\ agent[o] = "draining" /\ AllSettled(draining[o])
    /\ agent' = [agent EXCEPT ![o] = "gone"]
    /\ kept' = kept \ draining[o]
    /\ UNCHANGED <<status, owner, reported, told, producers, wait, attached, draining, service>>

\* An owner without jobs, or one whose cleanup the service detached.
OwnerLeaves(o) ==
    /\ agent[o] = "unloading" /\ o \notin attached
    /\ agent' = [agent EXCEPT ![o] = "gone"]
    /\ UNCHANGED <<records, producers, wait, attached, draining, service>>

\* disposeAll() up to its await.
ServiceDrains ==
    /\ service = "up"
    /\ service' = "draining"
    /\ draining' = [draining EXCEPT ![NoOwner] = kept]
    /\ \E throwing \in SUBSET LiveIn(kept) : CancelForTeardown(kept, throwing)
    /\ UNCHANGED <<kept, owner, agent, attached>>

\* The rest of disposeAll(): the store empties, and each owner cleanup still
\* attached is detached, with nothing left to drain.
ServiceDrained ==
    /\ service = "draining" /\ AllSettled(draining[NoOwner])
    /\ service' = "gone"
    /\ kept' = {}
    /\ attached' = {}
    /\ UNCHANGED <<status, owner, reported, told, producers, wait, agent, draining>>

-----------------------------------------------------------------------------
Calls ==
    \/ \E j \in Jobs, b \in Buckets : Start(j, b)
    \/ \E j \in Jobs : Read(j) \/ Kill(j)
    \/ \E w \in Waiters, j \in Jobs : WaitBegins(w, j)

WaitMoves(w) == WaitTimesOut(w) \/ WaitAborts(w) \/ WaitReturns(w)
ProducerMoves(j) == (\E outcome \in Terminal : ProducerEnds(j, outcome)) \/ DoneSettles(j)
TeardownEnds(o) == OwnerDrains(o) \/ OwnerDrained(o) \/ OwnerLeaves(o)

Next ==
    \/ Calls
    \/ \E w \in Waiters : WaitMoves(w)
    \/ \E j \in Jobs : ProducerMoves(j)
    \/ \E o \in Owners : OwnerUnloads(o) \/ TeardownEnds(o)
    \/ ServiceDrains \/ ServiceDrained

Spec == Init /\ [][Next]_vars

\* A compliant producer that was asked to stop ends, its promise reaches the
\* registry, and a teardown whose records have settled resumes.
FairSpec ==
    /\ Spec
    /\ \A j \in Jobs : WF_vars(work[j] # "working" /\ ProducerMoves(j))
    /\ \A o \in Owners : WF_vars(TeardownEnds(o))
    /\ WF_vars(ServiceDrained)

-----------------------------------------------------------------------------
(* Properties *)

WaitRecord == [at : {"idle", "waiting", "released"}, job : Jobs \cup {NoJob}, counted : BOOLEAN]

TypeOK ==
    /\ status \in [Jobs -> {"none", "running", "stopping"} \cup Terminal]
    /\ kept \in SUBSET Jobs
    /\ owner \in [Jobs -> Buckets]
    /\ reported \in [Jobs -> BOOLEAN]
    /\ work \in [Jobs -> {"none", "working", "asked", "over"} \cup Terminal]
    /\ orphaned \in SUBSET Jobs
    /\ told \in [Jobs -> SUBSET {"notice", "claim"}]
    /\ wait \in [Waiters -> WaitRecord]
    /\ agent \in [Owners -> {"live", "unloading", "draining", "gone"}]
    /\ attached \in SUBSET Owners
    /\ draining \in [Buckets -> SUBSET Jobs]
    /\ service \in {"up", "draining", "gone"}

\* No completion is lost: once an owned job has ended, either somebody was
\* given its end, or a wait that settlement counted is about to return it.  A
\* wait that times out, or is aborted in the very tick the job settles, never
\* suppresses the notice without delivering the end itself.
NobodyMisses ==
    \A j \in Jobs : (IsTerminal(j) /\ owner[j] # NoOwner) =>
        \/ told[j] # {}
        \/ \E w \in Waiters : wait[w].job = j /\ wait[w].at = "released"

\* A job ends once: the first outcome stands against the producer, a forced
\* failure and the two teardowns, and no record leaves the store before it has
\* its outcome.  And its notice is news: none is sent for an end that was
\* already claimed, by a kill, a teardown, a read or a wait still counted when
\* the job settles.
EndsOnce ==
    [][\A j \in Jobs :
          /\ IsTerminal(j) => status'[j] = status[j]
          /\ (j \in kept /\ j \notin kept') => IsTerminal(j)
          /\ ("notice" \in told'[j] /\ "notice" \notin told[j]) =>
                 told[j] = {} /\ Counted(j) = {}]_vars

\* The producers themselves are held to account, not only their records,
\* except those whose cancel threw.  A teardown joins them: none works for an
\* agent that is gone, and none at all once the service is gone.  The limit
\* counts them: a job asked to stop holds its place until its producer ends.
HeldWork(b) == {j \in Jobs : owner[j] = b /\ Working(j) /\ j \notin orphaned}
WorkIsHeld ==
    \A b \in Buckets :
        /\ Cardinality(HeldWork(b)) <= Limit
        /\ service = "gone" \/ (b \in Owners /\ agent[b] = "gone") => HeldWork(b) = {}

\* Teardown cannot hang while producers comply: an agent that unloads is gone
\* in the end, and so is a service that drains.
TeardownJoins ==
    /\ \A o \in Owners : agent[o] # "live" ~> agent[o] = "gone"
    /\ service = "draining" ~> service = "gone"
=============================================================================
