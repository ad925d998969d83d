--------------------------- MODULE SessionWrites ---------------------------
(***************************************************************************)
(* The write path of one session id through the persistence coordinator,   *)
(* session-persistence/src/coordinator.ts, composed with the session's     *)
(* write controller (module WriteBehind).  The coordinator initializes its *)
(* record of a live session, runs the operations of the id one after       *)
(* another on a promise chain, keeps the durable cursor, retires the       *)
(* session, trims the stored log, is torn down and loaded again while the  *)
(* session lives on; a crash loses everything but the stored log, and a    *)
(* resume loads it, repairs it, reserves it and publishes a new session    *)
(* over it, through the id's entry of session-persistence/src/             *)
(* preparations.ts.                                                        *)
(*                                                                         *)
(* A log is a sequence of turn boundaries: "start", "end", and the         *)
(* "closer" a repair appends to a turn a crash left open; events inside a  *)
(* turn are abstracted.  The controller queues positions in the log (the   *)
(* seq of an event, counted from one).  An operation of the chain is one   *)
(* action: nothing else touches what it reads, and a crash inside it may   *)
(* leave any prefix of its batch stored.                                   *)
(***************************************************************************)
EXTENDS Integers, Sequences, SequencesExt

CONSTANTS MaxLog,                \* bound: events in the session's log
          MaxFailures,           \* bound: backend writes that fail
          MaxCrashes,            \* bound: crashes
          MaxReloads,            \* bound: reloads of the plugin
          MayTrim,               \* the session is trimmed once
          MaxResumes             \* bound: resumes of the session

ASSUME BoundsAssumption ==
    /\ MaxLog \in Nat /\ MaxLog >= 2 /\ MaxFailures \in Nat
    /\ MaxCrashes \in Nat /\ MaxReloads \in Nat /\ MaxResumes \in Nat /\ MayTrim \in BOOLEAN

VARIABLES
    \* the write controller
    accepted, durable, pending, batch, writing, timer, deadlineExpired,
    automaticPaused, autoContinues, barrier, call, mark, failures,
    \* the Session
    session,                     \* "live", "disposed", or "none"
    log,                         \* its events
    \* the coordinator
    plugin,                      \* "up", "closing", or "closed"
    init,                        \* live.init, "none" before initFor
    seed,                        \* the events initFor captured
    state,                       \* cursor of this.states, or None
    owned,                       \* its owner is the session
    chain,                       \* queued operations, the head runs
    request,                     \* how far the active write got
    retiring,                    \* how far retireCore got
    trimming,                    \* how far the trim call got
    \* the id's entry of this.preparations
    phase,                       \* entry.phase, or "none"
    source,                      \* the stored log entry.source was prepared from
    \* the resumers
    resume,                      \* how far each prepare() call got
    own,                         \* those whose entry is still the id's
    draft,                       \* the seed of the Session each one reserved
    \* the backend
    stored,                      \* the stored log, <<>> before any artifact
    \* history
    stale,                       \* a trim has cut a log under a session it was loaded for
    crashes, reloads

controller == <<accepted, durable, pending, batch, writing, timer, deadlineExpired,
                automaticPaused, autoContinues, barrier, call, mark>>
life       == <<session, log, plugin>>
record     == <<init, seed, state, owned>>
calls      == <<retiring, trimming>>
entry      == <<phase, source, own>>
resumes    == <<entry, resume, draft>>
counters   == <<crashes, reloads>>
vars == <<controller, failures, life, record, chain, request, calls, resumes, stored, stale, counters>>

Resumers == 1..MaxResumes    \* prepare() calls, in the order they are made
Caller == {"user", "retire", "teardown", "trim"}
None   == -1
Ops    == {"init", "suffix", "write", "trim", "retire", "prepare", "commit"}

WB == INSTANCE WriteBehind WITH Event <- 1..MaxLog, MaxEvents <- MaxLog

TypeOK ==
    /\ WB!TypeOK
    /\ \A i \in 2..Len(batch) : batch[i] > batch[i - 1]
    /\ session \in {"live", "disposed", "none"}
    /\ log \in Seq({"start", "end", "closer"})
    /\ plugin \in {"up", "closing", "closed"}
    /\ init \in {"none", "pending", "ok", "failed"}
    /\ IsPrefix(seed, log)
    /\ state \in Nat \cup {None} /\ owned \in BOOLEAN
    /\ chain \in Seq(Ops)
    /\ request \in {"none", "calling", "queued", "resolved", "rejected"}
    /\ retiring \in {"no", "flushing", "queued", "failed"}
    /\ trimming \in {"no", "queued", "draining", "done", "rejected"}
    /\ phase \in {"none", "loading", "ready", "committing", "reserved"}
    /\ source \in Seq({"start", "end", "closer"})
    /\ resume \in [Resumers -> {"no", "waiting", "committing", "held", "over"}]
    /\ own \subseteq Resumers
    /\ draft \in [Resumers -> Seq({"start", "end", "closer"})]
    /\ stored \in Seq({"start", "end", "closer"})
    /\ stale \in BOOLEAN

-----------------------------------------------------------------------------
\* Turn grammar.

Open(events) == events # <<>> /\ Last(events) = "start"
Boundary(events) == IF Open(events) THEN "end" ELSE "start"
Repaired(events) == IF Open(events) THEN Append(events, "closer") ELSE events

Legal(events) ==
    \A i \in DOMAIN events : (events[i] = "start") = (i % 2 = 1)

\* A fresh session, empty or forked with a closed turn; another process may
\* have stored a log of its own under the id.
Init ==
    /\ WB!Init
    /\ session = "live" /\ plugin = "up"
    /\ log \in {<<>>, <<"start", "end">>}
    /\ stored \in {<<>>, <<"start", "closer">>}
    /\ init = "none" /\ seed = <<>> /\ state = None /\ owned = FALSE /\ chain = <<>>
    /\ request = "none" /\ retiring = "no" /\ trimming = "no"
    /\ phase = "none" /\ source = <<>> /\ own = {}
    /\ resume = [r \in Resumers |-> "no"] /\ draft = [r \in Resumers |-> <<>>]
    /\ stale = FALSE /\ crashes = 0 /\ reloads = 0

-----------------------------------------------------------------------------
\* The controller's own steps; a write it starts still has to be called.

Carries == request' = CASE writing = "no" /\ writing' # "no" -> "calling"
                        [] writing' = "no"                   -> "none"
                        [] OTHER                             -> request

Controller ==
    /\ plugin # "closed"
    /\ \/ WB!Deadline \/ WB!ContinueAutomatic
       \/ WB!BarrierContinues \/ WB!BarrierFails
    /\ Carries
    /\ UNCHANGED <<life, record, chain, calls, resumes, stored, stale, counters>>

InitForUnseeded(events) ==
    IF init = "none"
      THEN /\ init' = "pending" /\ seed' = <<>>
           /\ chain' = Append(chain, "init")
      ELSE UNCHANGED <<init, seed, chain>>

\* initFor: capture the seed and queue the initialization, once per session.
InitFor(events) ==
    IF init = "none"
      THEN /\ init' = "pending" /\ seed' = events
           /\ chain' = Append(chain, "init")
      ELSE UNCHANGED <<init, seed, chain>>

\* session/created
Created ==
    /\ plugin = "up" /\ session = "live" /\ init = "none"
    /\ InitFor(log)
    /\ UNCHANGED <<controller, failures, life, state, owned, request, calls, resumes, stored, stale, counters>>

\* The seq of the newest event.
SeqOfLastFromZero(events) == Len(events) - 1
SeqOfLast(events) == Len(events)

\* session/event.  The event is in the session's log when the listener runs,
\* so an event emitted before session/created is both seed and queued.
Emit ==
    /\ session = "live" /\ Len(log) < MaxLog
    /\ log' = Append(log, Boundary(log))
    /\ IF plugin = "up"
         THEN InitFor(log') /\ WB!Enqueue(SeqOfLast(log')) /\ Carries
         ELSE UNCHANGED <<controller, failures, init, seed, chain, request>>
    /\ UNCHANGED <<session, plugin, state, owned, calls, resumes, stored, stale, counters>>

\* flush: cancel the deadline, then await the initialization.  Calls that await
\* the same initialization continue in the order they were made: a user's
\* before the retirement, both before the teardown.
UserFlush ==
    /\ plugin = "up" /\ session = "live"
    /\ InitFor(log)
    /\ WB!CancelAutomaticWait("user")
    /\ UNCHANGED <<life, state, owned, request, calls, resumes, stored, stale, counters>>

Earlier == [user |-> {}, retire |-> {"user"}, teardown |-> {"user", "retire"}]

FlushReachesEarly(c) ==
    /\ init \in {"pending", "ok"}
    /\ \A d \in Earlier[c] : call[d] # "waiting"
    /\ WB!Flush(c) /\ Carries
    /\ UNCHANGED <<life, record, chain, calls, resumes, stored, stale, counters>>

FlushReaches(c) ==
    /\ init = "ok"
    /\ \A d \in Earlier[c] : call[d] # "waiting"
    /\ WB!Flush(c) /\ Carries
    /\ UNCHANGED <<life, record, chain, calls, resumes, stored, stale, counters>>

FlushRefused(c) ==
    /\ init = "failed" /\ call[c] = "waiting"
    /\ call' = [call EXCEPT ![c] = "rejected"]
    /\ timer' = FALSE /\ deadlineExpired' = FALSE
    /\ UNCHANGED <<accepted, durable, pending, batch, writing, automaticPaused,
                   autoContinues, barrier, mark, failures, life, record, chain,
                   request, calls, resumes, stored, stale, counters>>

\* The write callback: await the initialization, then queue on the id's chain.
WriteQueues ==
    /\ request = "calling"
    /\ \/ init = "ok" /\ request' = "queued" /\ chain' = Append(chain, "write")
       \/ init = "failed" /\ request' = "rejected" /\ UNCHANGED chain
    /\ UNCHANGED <<controller, failures, life, record, calls, resumes, stored, stale, counters>>

WriteSettlesOnSuccess ==
    /\ request = "resolved" /\ WB!WriteSucceeds
    /\ Carries
    /\ UNCHANGED <<life, record, chain, calls, resumes, stored, stale, counters>>

WriteSettles ==
    /\ \/ request = "resolved" /\ WB!WriteSucceeds
       \/ request = "rejected" /\ WB!WriteFails /\ UNCHANGED failures
    /\ Carries
    /\ UNCHANGED <<life, record, chain, calls, resumes, stored, stale, counters>>

-----------------------------------------------------------------------------
\* Operations of the id's chain.

Running(op) == chain # <<>> /\ Head(chain) = op /\ plugin # "closed"
OpEnds == chain' = Tail(chain)
BackendFails == failures < MaxFailures /\ failures' = failures + 1

\* onCreated: claim the tracked cursor, or adopt the stored prefix as it is, when
\* the seed covers it; then store the rest of the seed.
Tracked == IF state = None THEN Len(stored) ELSE state
Covers  == IsPrefix(SubSeq(stored, 1, Tracked), seed)
Rest    == SubSeq(seed, Tracked + 1, Len(seed))

Initializes ==
    /\ Running("init") /\ OpEnds /\ seed' = <<>>
    /\ \/ /\ init' = "failed"
          /\ IF Covers THEN BackendFails ELSE UNCHANGED failures
          /\ UNCHANGED <<stored, state, owned>>
       \/ /\ Covers
          /\ stored' = stored \o Rest /\ state' = Len(seed) /\ owned' = TRUE /\ init' = "ok"
          /\ UNCHANGED failures
       \/ /\ Covers /\ Rest # <<>>
          /\ BackendFails
          /\ state' = Tracked /\ owned' = TRUE /\ init' = "failed"
          /\ UNCHANGED stored
    /\ UNCHANGED <<controller, life, request, calls, resumes, stale, counters>>

\* A live batch may start with events already stored.  It ascends (TypeOK), so
\* what the filter keeps is the end of it.
Beyond(positions, n) ==
    LET above == {i \in DOMAIN positions : positions[i] > n}
    IN  IF above = {} THEN <<>> ELSE SubSeq(positions, Min(above), Len(positions))

Cursor  == IF state = None THEN 0 ELSE state
Fresh   == Beyond(batch, Cursor)
Events(positions) == [i \in DOMAIN positions |-> log[positions[i]]]

\* prepareCore: the store refuses to prepare the id of a live Session, and a log
\* that is missing or does not validate is refused.
Preparable == session # "live" /\ stored # <<>> /\ Legal(stored)

\* appendCore.  Without a cursor it adopts the stored log, which closes a turn
\* that log ends in.
Writable == state # None \/ Preparable
Adopted  == IF state = None THEN Repaired(stored) ELSE stored
Base     == IF state = None THEN Len(Adopted) ELSE state
Follows  == Head(Fresh) = Base + 1

\* The adoption is refused, or its read or its repair fails.
AdoptionFails ==
    /\ IF Writable THEN state = None /\ BackendFails ELSE UNCHANGED failures
    /\ UNCHANGED <<stored, state>>

\* attachPrepared: store what the session appended before it was published.
SuffixFollows == Len(seed) = Base + 1

StoresSuffix ==
    /\ Running("suffix") /\ OpEnds /\ seed' = <<>>
    /\ \/ /\ Writable /\ SuffixFollows
          /\ stored' = Append(Adopted, Last(seed)) /\ state' = Base + 1 /\ init' = "ok"
          /\ UNCHANGED failures
       \/ /\ Writable
          /\ stored' = Adopted /\ state' = Base /\ init' = "failed"
          /\ IF SuffixFollows THEN BackendFails ELSE UNCHANGED failures
       \/ AdoptionFails /\ init' = "failed"
    /\ UNCHANGED <<controller, life, owned, request, calls, resumes, stale, counters>>

\* appendLiveBatch
StoresBatch ==
    /\ Running("write") /\ OpEnds
    /\ \/ /\ Fresh = <<>>
          /\ request' = "resolved"
          /\ UNCHANGED <<stored, state, failures>>
       \/ /\ Fresh # <<>> /\ Writable /\ Follows
          /\ request' = "resolved"
          /\ stored' = Adopted \o Events(Fresh) /\ state' = Base + Len(Fresh)
          /\ UNCHANGED failures
       \/ /\ Fresh # <<>> /\ Writable
          /\ request' = "rejected"
          /\ stored' = Adopted /\ state' = Base
          /\ IF Follows THEN BackendFails ELSE UNCHANGED failures
       \/ Fresh # <<>> /\ request' = "rejected" /\ AdoptionFails
    /\ UNCHANGED <<controller, life, init, seed, owned, calls, resumes, stale, counters>>

\* retireCore: drain, then drop the record, and the cursor if it is the session's.
Retire ==
    /\ plugin = "up" /\ session = "live" /\ init # "none"
    /\ session' = "disposed" /\ retiring' = "flushing"
    /\ WB!CancelAutomaticWait("retire")
    /\ UNCHANGED <<log, plugin, record, chain, request, trimming, resumes, stored, stale, counters>>

RetireQueuesAnyway ==
    /\ retiring = "flushing"
    /\ call["retire"] \in {"done", "rejected"}
    /\ retiring' = "queued" /\ chain' = Append(chain, "retire")
    /\ UNCHANGED <<controller, failures, life, record, request, trimming, resumes, stored, stale, counters>>

RetireQueues ==
    /\ retiring = "flushing"
    /\ \/ call["retire"] = "done" /\ retiring' = "queued" /\ chain' = Append(chain, "retire")
       \/ call["retire"] = "rejected" /\ retiring' = "failed" /\ UNCHANGED chain
    /\ UNCHANGED <<controller, failures, life, record, request, trimming, resumes, stored, stale, counters>>

\* A session that is released, or gone, takes its controller with it.
FreshController ==
    /\ accepted' = <<>> /\ durable' = <<>> /\ pending' = <<>> /\ batch' = <<>>
    /\ writing' = "no" /\ timer' = FALSE /\ deadlineExpired' = FALSE
    /\ automaticPaused' = FALSE /\ autoContinues' = FALSE /\ barrier' = "none"
    /\ call' = [c \in Caller |-> "idle"] /\ mark' = [c \in Caller |-> 0]
    /\ request' = "none" /\ retiring' = "no"

\* A flush that awaits the settled initialization continues before an
\* operation queued in the meantime runs.
Retires ==
    /\ Running("retire") /\ OpEnds
    /\ \A c \in Caller : call[c] # "waiting"
    /\ session' = "none" /\ log' = <<>> /\ init' = "none" /\ seed' = <<>>
    /\ state' = (IF owned THEN None ELSE state) /\ owned' = FALSE
    /\ FreshController
    /\ UNCHANGED <<failures, plugin, trimming, resumes, stored, stale, counters>>

\* trim and trimCore.
Trim ==
    /\ MayTrim /\ plugin = "up" /\ trimming = "no"
    /\ retiring \in {"no", "failed"}
    /\ trimming' = "queued" /\ chain' = Append(chain, "trim")
    /\ UNCHANGED <<controller, failures, life, record, request, retiring, resumes, stored, stale, counters>>

\* The running trim drains the controller of the live session first.
TrimDrains ==
    /\ Running("trim") /\ trimming = "queued"
    /\ trimming' = "draining"
    /\ IF init = "none"
         THEN UNCHANGED <<controller, failures, request>>
         ELSE WB!Join("trim") /\ Carries
    /\ UNCHANGED <<life, record, chain, retiring, resumes, stored, stale, counters>>

EntryRemoved == phase' = "none" /\ source' = <<>> /\ own' = {}

\* Rewriting the stored log drops the cursor and the prepared view of it.
KeepsCursor == UNCHANGED <<state, owned>>
DropsCursor == state' = None /\ owned' = FALSE
InvalidatesNothing == UNCHANGED entry
Invalidates == EntryRemoved

\* "The caller stops and drains the owning agent first": stale once a caller does
\* not, and the session's initialization has read, or shares, the log it cuts.
CutsUnderSession == init # "none" /\ ~Contains(chain', "init")

TrimCuts(cut) ==
    /\ Running("trim") /\ trimming = "draining" /\ call["trim"] \in {"idle", "done"}
    /\ OpEnds
    /\ \/ /\ cut <= Len(stored)
          /\ trimming' = "done"
          /\ stored' = SubSeq(stored, 1, cut)
          /\ stale' = (stale \/ CutsUnderSession)
          /\ DropsCursor /\ Invalidates
       \/ trimming' = "rejected" /\ UNCHANGED <<stored, stale, state, owned, entry>>
    /\ UNCHANGED <<controller, failures, life, init, seed, request, retiring, resume, draft, counters>>

TrimGivesUp ==
    /\ Running("trim") /\ trimming = "draining" /\ call["trim"] = "rejected"
    /\ OpEnds
    /\ trimming' = "rejected"
    /\ UNCHANGED <<controller, failures, life, record, request, retiring, resumes, stored, stale, counters>>

-----------------------------------------------------------------------------
\* Teardown, reload, crash and resume.

\* Admission of events closes before the final drain.
TeardownBegins ==
    /\ plugin = "up" /\ reloads < MaxReloads
    /\ plugin' = "closing" /\ reloads' = reloads + 1
    /\ IF init = "none" THEN UNCHANGED <<controller, failures>>
                        ELSE WB!CancelAutomaticWait("teardown")
    /\ UNCHANGED <<session, log, record, chain, request, calls, resumes, stored, stale, crashes>>

\* The drain settled and every queued operation ended: the backend closes.
Drained == call["teardown"] \in {"idle", "done", "rejected"} /\ chain = <<>>

TeardownEnds ==
    /\ plugin = "closing" /\ Drained
    /\ plugin' = "closed"
    /\ FreshController
    /\ EntryRemoved
    /\ resume' = [r \in Resumers |-> CASE resume[r] \in {"waiting", "committing"} -> "over"
                                    [] OTHER -> resume[r]]
    /\ draft' = [r \in Resumers |-> IF resume[r] = "held" THEN draft[r] ELSE <<>>]
    /\ init' = "none" /\ seed' = <<>> /\ state' = None /\ owned' = FALSE
    /\ session' = IF session = "live" THEN "live" ELSE "none"
    /\ UNCHANGED <<failures, log, chain, trimming, stored, stale, counters>>

\* A reloaded plugin initializes every live session.
Reload ==
    /\ plugin = "closed"
    /\ plugin' = "up"
    /\ IF session = "live" THEN InitFor(log) ELSE UNCHANGED <<init, seed, chain>>
    /\ UNCHANGED <<controller, failures, session, log, state, owned, request, calls, resumes, stored, stale, counters>>

\* What the running operation may have made durable when the process dies.
InFlight ==
    CASE Running("init") /\ Covers -> {stored \o Rest}
      [] Running("suffix") /\ Writable ->
            {IF SuffixFollows THEN Append(Adopted, Last(seed)) ELSE Adopted}
      [] Running("commit") /\ Open(stored) -> {Repaired(stored)}
      [] Running("write") /\ Fresh # <<>> /\ Writable ->
            {IF Follows THEN Adopted \o Events(Fresh) ELSE Adopted}
      [] OTHER -> {}

Crash ==
    /\ crashes < MaxCrashes
    /\ crashes' = crashes + 1
    /\ session' = "none" /\ plugin' = "up"
    /\ \/ UNCHANGED stored
       \/ \E whole \in InFlight, n \in Len(stored)..MaxLog :
             n <= Len(whole) /\ stored' = SubSeq(whole, 1, n)
    /\ FreshController
    /\ EntryRemoved
    /\ resume' = [r \in Resumers |-> IF resume[r] = "no" THEN "no" ELSE "over"]
    /\ draft' = [r \in Resumers |-> <<>>]
    /\ init' = "none" /\ seed' = <<>> /\ state' = None /\ owned' = FALSE
    /\ chain' = <<>> /\ log' = <<>> /\ trimming' = IF trimming = "no" THEN "no" ELSE "done"
    /\ UNCHANGED <<failures, stale, reloads>>

\* entryFor: share the id's entry, or load one on the chain.  Its callers have
\* waited for a retirement and found no live session.
EntryFor ==
    IF phase = "none"
      THEN phase' = "loading" /\ chain' = Append(chain, "prepare")
      ELSE UNCHANGED <<phase, chain>>
Absent == session = "none" /\ plugin = "up"

\* inspect() leaves a ready entry behind.  Its revision check finds the entry
\* current: a change of the stored log removes it.
Inspects ==
    /\ Absent /\ phase = "none"
    /\ EntryFor
    /\ UNCHANGED <<controller, failures, life, record, request, calls, source, own,
                   resume, draft, stored, stale, counters>>

\* prepare(): the call, and its next round once its entry is gone.  Waiters
\* continue before a new caller finds the entry ready.
Lost(r) == resume[r] = "waiting" /\ r \notin own
Waiting == {r \in own : resume[r] = "waiting"}

Reserves(r) ==
    /\ \/ resume[r] = "no" /\ (r > 1 => resume[r - 1] # "no")
       \/ Lost(r)
    /\ Absent /\ (phase = "ready" => Waiting = {})
    /\ EntryFor
    /\ resume' = [resume EXCEPT ![r] = "waiting"] /\ own' = own \cup {r}
    /\ UNCHANGED <<controller, failures, life, record, request, calls, source, draft,
                   stored, stale, counters>>

ReserveRefused(r) ==
    /\ Lost(r) /\ session = "live" /\ plugin = "up"
    /\ resume' = [resume EXCEPT ![r] = "over"]
    /\ UNCHANGED <<controller, failures, life, record, chain, request, calls, entry,
                   draft, stored, stale, counters>>

\* prepareCore; the entry this load is for may be gone, and another one queued.
Prepares ==
    LET superseded == phase # "loading" \/ Contains(Tail(chain), "prepare")
    IN  /\ Running("prepare") /\ OpEnds
        /\ \/ superseded /\ UNCHANGED <<failures, entry, resume>>
           \/ /\ ~superseded /\ Preparable
              /\ phase' = "ready" /\ source' = stored
              /\ UNCHANGED <<failures, own, resume>>
           \/ /\ ~superseded
              /\ IF Preparable THEN BackendFails ELSE UNCHANGED failures
              /\ EntryRemoved
              /\ resume' = [r \in Resumers |-> IF r \in own THEN "over" ELSE resume[r]]
        /\ UNCHANGED <<controller, life, record, request, calls, draft, stored, stale, counters>>

\* reserve() takes the ready entry and queues its commit.
TakesReady(r) ==
    /\ r \in Waiting /\ phase = "ready" /\ plugin # "closed"
    /\ phase' = "committing"
    /\ resume' = [resume EXCEPT ![r] = "committing"]
    /\ draft' = [draft EXCEPT ![r] = source]
    /\ chain' = Append(chain, "commit")
    /\ UNCHANGED <<controller, failures, life, record, request, calls, source, own,
                   stored, stale, counters>>

\* commitPrepared: a stale source, or one whose repair is durable now, is loaded
\* again.
RemovesOwn(r) == IF r \in own THEN EntryRemoved ELSE UNCHANGED entry

CommitRetries(r) ==
    /\ \/ stored # draft[r] /\ UNCHANGED stored
       \/ stored = draft[r] /\ Open(stored) /\ stored' = Repaired(stored)
    /\ RemovesOwn(r)
    /\ resume' = [resume EXCEPT ![r] = "waiting"] /\ draft' = [draft EXCEPT ![r] = <<>>]
    /\ UNCHANGED <<failures, state>>

CommitFails(r) ==
    /\ stored = draft[r] /\ Open(stored) /\ BackendFails
    /\ RemovesOwn(r)
    /\ resume' = [resume EXCEPT ![r] = "over"] /\ draft' = [draft EXCEPT ![r] = <<>>]
    /\ UNCHANGED <<stored, state>>

\* The reservation, unless its entry is gone, or the caller aborted meanwhile
\* and leaves the entry ready.
CommitSucceeds(r) ==
    /\ stored = draft[r] /\ ~Open(stored)
    /\ state' = Len(stored)
    /\ \/ /\ r \in own
          /\ phase' = "reserved" /\ resume' = [resume EXCEPT ![r] = "held"]
          /\ UNCHANGED <<source, own, draft>>
       \/ /\ r \in own
          /\ phase' = "ready" /\ own' = own \ {r} /\ UNCHANGED source
          /\ resume' = [resume EXCEPT ![r] = "over"] /\ draft' = [draft EXCEPT ![r] = <<>>]
       \/ /\ r \notin own
          /\ resume' = [resume EXCEPT ![r] = "waiting"] /\ draft' = [draft EXCEPT ![r] = <<>>]
          /\ UNCHANGED entry
    /\ UNCHANGED <<failures, stored>>

Commits(r) ==
    /\ Running("commit") /\ OpEnds /\ resume[r] = "committing"
    /\ CommitRetries(r) \/ CommitFails(r) \/ CommitSucceeds(r)
    /\ UNCHANGED <<controller, life, init, seed, owned, request, calls, stale, counters>>

\* The caller aborts while it waits, or before its commit runs.
ResumeAborts(r) ==
    /\ \/ /\ resume[r] = "waiting"
          /\ own' = own \ {r} /\ UNCHANGED <<chain, phase, source>>
       \/ /\ resume[r] = "committing" /\ Head(chain) # "commit"
          /\ \E i \in DOMAIN chain : chain[i] = "commit" /\ chain' = RemoveAt(chain, i)
          /\ RemovesOwn(r)
    /\ resume' = [resume EXCEPT ![r] = "over"] /\ draft' = [draft EXCEPT ![r] = <<>>]
    /\ UNCHANGED <<controller, failures, life, record, request, calls, stored, stale, counters>>

\* The caller gives the reservation back; the entry is reusable unless the
\* unpublished Session has grown.
Releases(r) ==
    /\ resume[r] = "held"
    /\ resume' = [resume EXCEPT ![r] = "over"] /\ draft' = [draft EXCEPT ![r] = <<>>]
    /\ \/ r \in own /\ phase' = "ready" /\ own' = own \ {r} /\ UNCHANGED source
       \/ RemovesOwn(r)
    /\ UNCHANGED <<controller, failures, life, record, chain, request, calls,
                   stored, stale, counters>>

\* The store's `enter` and session/created publish the held Session, which may
\* have grown by a suffix: initFor attaches a reservation that is still the
\* id's; one that is gone leaves a fresh Session over the stored log.
Publishes(r) ==
    /\ resume[r] = "held" /\ session = "none" /\ plugin = "up"
    /\ r \in own \/ phase = "none"
    /\ session' = "live" /\ log' \in {draft[r], Append(draft[r], "start")}
    /\ Len(log') <= MaxLog
    /\ resume' = [resume EXCEPT ![r] = "over"] /\ draft' = [draft EXCEPT ![r] = <<>>]
    /\ RemovesOwn(r)
    /\ FreshController
    /\ seed' = log' /\ owned' = (r \in own)
    /\ CASE r \notin own -> init' = "pending" /\ chain' = Append(chain, "init")
         [] r \in own /\ log' = draft[r] -> init' = "ok" /\ UNCHANGED chain
         [] OTHER -> init' = "pending" /\ chain' = Append(chain, "suffix")
    /\ UNCHANGED <<failures, plugin, state, trimming, stored, stale, counters>>

\* A live Session of the id, or an entry of another preparation, vetoes it.
PublishRefused(r) ==
    /\ resume[r] = "held" /\ plugin = "up"
    /\ session # "none" \/ (r \notin own /\ phase # "none")
    /\ resume' = [resume EXCEPT ![r] = "over"] /\ draft' = [draft EXCEPT ![r] = <<>>]
    /\ RemovesOwn(r)
    /\ UNCHANGED <<controller, failures, life, record, chain, request, calls, stored, stale, counters>>

\* Entries of other sessions push a ready one out of the cache.
Evicts ==
    /\ phase = "ready" /\ Waiting = {}
    /\ EntryRemoved
    /\ UNCHANGED <<controller, failures, life, record, chain, request, calls, resume, draft,
                   stored, stale, counters>>

-----------------------------------------------------------------------------
Chained ==
    \/ Initializes \/ StoresSuffix \/ StoresBatch \/ Retires
    \/ Prepares \/ \E r \in Resumers : Commits(r)
    \/ TrimDrains \/ TrimGivesUp \/ \E cut \in 1..MaxLog : TrimCuts(cut)

Calls ==
    \/ \E c \in {"user", "retire", "teardown"} : FlushReaches(c) \/ FlushRefused(c)
    \/ WriteQueues \/ WriteSettles \/ RetireQueues

Resume(r) ==
    \/ Reserves(r) \/ ReserveRefused(r) \/ TakesReady(r)
    \/ Publishes(r) \/ PublishRefused(r) \/ Releases(r)

Settles(r) == resume[r] # "no" /\ Resume(r)

Next ==
    \/ Controller \/ Chained \/ Calls
    \/ Created \/ Emit \/ UserFlush \/ Retire \/ Trim
    \/ TeardownBegins \/ TeardownEnds \/ Reload
    \/ Crash \/ Inspects \/ Evicts
    \/ \E r \in Resumers : Resume(r) \/ ResumeAborts(r)

Spec == Init /\ [][Next]_vars

(***************************************************************************)
(* Timers fire and microtasks run, the backend answers every operation,    *)
(* and every call waiting on a settled promise continues.  Sessions, users *)
(* and the crash owe nothing.                                              *)
(***************************************************************************)
Fairness ==
    /\ WF_vars(Controller) /\ WF_vars(Chained)
    /\ \A c \in {"user", "retire", "teardown"} : WF_vars(FlushReaches(c) \/ FlushRefused(c))
    /\ WF_vars(WriteQueues) /\ WF_vars(WriteSettles) /\ WF_vars(RetireQueues)
    /\ WF_vars(TeardownEnds)
    /\ WF_vars(\E r \in Resumers : Settles(r))

FairSpec == Spec /\ Fairness

-----------------------------------------------------------------------------
(***************************************************************************)
(* While the plugin serves a session, the stored log is a prefix of the    *)
(* session's log and the events beyond it are exactly those the active     *)
(* batch, then the queue hold, in order: over initialization from a seed   *)
(* that may overlap the queue, failed and retried writes, flushes,         *)
(* reloads, crashes and resumes, no event is lost, doubled or reordered.   *)
(***************************************************************************)
Held     == (IF request = "resolved" THEN <<>> ELSE batch) \o pending
Position == IF init = "pending" THEN Len(seed) ELSE Len(stored)

NothingLost ==
    session # "none" /\ plugin = "up" /\ init \in {"pending", "ok"} /\ ~stale =>
        /\ init = "ok" => IsPrefix(stored, log)
        /\ Beyond(Held, Position) = [i \in 1..(Len(log) - Position) |-> Position + i]

(***************************************************************************)
(* The stored log alternates the start and the end of turns: a crash, a    *)
(* repair, a reload, a resumed session, or a trim of an id that no loaded  *)
(* session writes, never leave two turns open or a turn closed twice; the  *)
(* cursor the next append is checked against is its length, whichever      *)
(* operation of the id ran last; and a reservation that is still the id's  *)
(* is the only one and names exactly the stored log, whatever was trimmed, *)
(* repaired or evicted since.  A trim under a loaded session, which the    *)
(* comment in trimCore asks its caller to stop first, ends the promise.    *)
(***************************************************************************)
Reserved == {r \in own : resume[r] = "held"}

StoredLegal ==
    ~stale =>
        /\ Legal(stored)
        /\ state # None => state = Len(stored)
        /\ \A r \in Reserved : draft[r] = stored /\ state = Len(stored) /\ Reserved = {r}

(***************************************************************************)
(* A flush resolves at a quiescent point: at that step everything the      *)
(* session ever emitted is stored, also what it emitted while the flush    *)
(* waited.                                                                 *)
(***************************************************************************)
FlushResolves == call["user"] # "done" /\ call'["user"] = "done"
FlushIsQuiescent == [][FlushResolves /\ plugin = "up" /\ ~stale => stored' = log]_vars

(***************************************************************************)
(* A disposed session is released only when its whole log is stored.       *)
(***************************************************************************)
ReleasedWhenStored ==
    [][retiring = "queued" /\ retiring' = "no" /\ crashes' = crashes /\ plugin' = plugin
         /\ ~stale => stored = log]_vars

(***************************************************************************)
(* Unless a trim holds the chain, every flush settles, teardown ends and   *)
(* every caller of prepare() is answered, whatever the initialization, the *)
(* backend, other drains and other callers do: none is left waiting for an *)
(* entry that is gone.                                                     *)
(***************************************************************************)
Preparing == {r \in Resumers : resume[r] \in {"waiting", "committing"}}
Trimming == trimming \in {"queued", "draining"}

DrainsEnd ==
    /\ call["user"] \in {"waiting", "joined"} ~> call["user"] \notin {"waiting", "joined"} \/ Trimming
    /\ plugin = "closing" \/ Preparing # {} ~>
          \/ plugin # "closing" /\ Preparing = {}
          \/ Trimming
          \/ plugin = "up" /\ session = "disposed"

(***************************************************************************)
(* The comment in trimCore: any live write-behind bound to the id is       *)
(* drained before the rewrite, so a trim call ends.                        *)
(***************************************************************************)
TrimCompletes == Trimming ~> ~Trimming

(***************************************************************************)
(* The comment in trimCore: the continued appends of a stale session, one  *)
(* whose cursor a trim has dropped, reject rather than reach the trimmed   *)
(* log; a repair may only close it.                                        *)
(***************************************************************************)
StaleSessionRejected ==
    [][Running("write") /\ ~owned =>
          \A i \in DOMAIN stored' : i > Len(stored) => stored'[i] = "closer"]_vars
=============================================================================
