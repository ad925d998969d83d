------------------------ MODULE SessionWritesProofs ------------------------
(***************************************************************************)
(* Proofs about SessionWrites for any length of the log and any number of  *)
(* failures, crashes, reloads and resumes.  The invariant has one part for *)
(* each of the coordinator's concerns, and a lemma for each that every     *)
(* step keeps it:                                                          *)
(*   Typed       the types                                                 *)
(*   Controlled  the write controller: one batch, one request for it       *)
(*   Queue       the queued positions run up to the end of the log         *)
(*   Ready       what the record, the calls and the retirement wait for    *)
(*   Chain       what each queued operation was queued for                 *)
(*   Entry       nobody else serves a prepared id, at most one commits     *)
(*   Grammar     the logs in memory are legal                              *)
(*   Durable     the stored log and the cursor have their types            *)
(*   Store       the stored log is legal and the cursor is its length      *)
(*   Agree       the session's log is the stored log and what is queued    *)
(* The last two give the properties, while no trim has cut a log under a   *)
(* loaded session; a step of the chain keeps them only because of the      *)
(* others.                                                                 *)
(***************************************************************************)
EXTENDS SessionWritesLemmas

-----------------------------------------------------------------------------
(* The invariant *)

Flushers == {"user", "retire", "teardown"}

Typed ==
    /\ WB!TypeOK
    /\ session \in {"live", "disposed", "none"}
    /\ plugin \in {"up", "closing", "closed"}
    /\ init \in {"none", "pending", "ok", "failed"}
    /\ chain \in Seq(Ops)
    /\ request \in {"none", "calling", "queued", "resolved", "rejected"}
    /\ retiring \in {"no", "flushing", "queued", "failed"}
    /\ trimming \in {"no", "queued", "draining", "done", "rejected"}
    /\ phase \in {"none", "loading", "ready", "committing", "reserved"}
    /\ resume \in [Resumers -> {"no", "waiting", "committing", "held", "over"}]
    /\ own \subseteq Resumers
    /\ owned \in BOOLEAN
    /\ stale \in BOOLEAN

\* The controller: one batch for each write, one request for each batch.
Controlled ==
    /\ writing = "no" => batch = <<>>
    /\ (barrier = "writing") <=> (writing = "barrier")
    /\ barrier = "overlapping" => writing = "background"
    /\ barrier \in {"resuming", "looking", "failing"} => writing = "no"
    /\ autoContinues => writing # "background"
    /\ timer => pending # <<>>
    /\ (writing = "no") <=> (request = "none")

\* While the plugin serves the session, the queue ends where its log ends.
Serving == session # "none" /\ (plugin = "up" \/ session = "disposed")
Queue ==
    \E last \in 0..Len(log) :
        /\ Consecutive(pending, last) /\ Consecutive(batch, last - Len(pending))
        /\ Serving => last = Len(log)

\* What a record, a controller and a retirement wait for.
Ready ==
    /\ init = "none" => writing = "no" /\ pending = <<>> /\ session # "disposed"
    /\ session = "none" => init = "none"
    /\ plugin = "closed" => session # "disposed" /\ init = "none" /\ chain = <<>>
    /\ request \in {"queued", "resolved"} => init = "ok"
    /\ \A c \in Flushers : call[c] = "joined" => init = "ok"
    /\ call["retire"] = "done" => session = "disposed" /\ init = "ok" /\ pending = <<>> /\ writing = "no"
    /\ call["retire"] # "idle" => session = "disposed"
    /\ retiring \in {"flushing", "queued"} => session = "disposed"
    /\ retiring = "queued" => call["retire"] = "done"

\* What a queued operation was queued for.
Starters == {"init", "suffix"}
Chain ==
    /\ Once(chain, Starters) /\ (Queues(chain, Starters) => init = "pending")
    /\ Once(chain, {"write"}) /\ (Queues(chain, {"write"}) => request = "queued")
    /\ Once(chain, {"retire"}) /\ (Queues(chain, {"retire"}) => retiring = "queued")
    /\ Queues(chain, {"prepare"}) => phase \in {"none", "loading"}
    /\ Ordered(chain)

\* The id's entry: nobody else serves the id, and at most one caller commits.
Committing == {r \in Resumers : resume[r] = "committing"}
Entry ==
    /\ phase # "none" => session = "none"
    /\ own # {} => phase # "none"
    /\ \A r \in own : /\ resume[r] = "committing" => phase = "committing"
                      /\ resume[r] = "held" => phase = "reserved"
    /\ \A r, s \in own : resume[r] = "held" /\ resume[s] = "held" => r = s
    /\ \A r, s \in Committing : r = s
    /\ Committing # {} => Queues(chain, {"commit"})
    /\ phase \in {"ready", "reserved"} => Committing = {}

\* The logs in memory.
Grammar ==
    /\ log \in Logs /\ Len(log) <= MaxLog /\ Legal(log)
    /\ seed \in Logs /\ IsPrefix(seed, log)
    /\ source \in Logs /\ Legal(source)
    /\ draft \in [Resumers -> Logs]
    /\ \A r \in Resumers : Legal(draft[r]) /\ (resume[r] = "held" => ~Open(draft[r]))

\* The stored log and the cursor.
Durable == stored \in Logs /\ state \in Nat \cup {None}

Store ==
    ~stale =>
        /\ Storable(stored)
        /\ state = None \/ state = Len(stored)
        /\ \A r \in Reserved : draft[r] = stored /\ state = Len(stored) /\ Reserved = {r}
        /\ (session = "none" \/ Committing # {}) /\ state # None => ~Open(stored)

\* The stored log and the session's.
Unstored == (IF request = "resolved" THEN 0 ELSE Len(batch)) + Len(pending)
Agree ==
    ~stale =>
        /\ init = "ok" => state # None /\ owned
        /\ Queues(chain, {"suffix"}) =>
              state # None /\ owned /\ seed # <<>> /\ stored = SubSeq(seed, 1, Len(seed) - 1)
        /\ Serving /\ init = "ok" => IsPrefix(stored, log)
        /\ Serving /\ init \in {"ok", "pending"} => Len(log) <= Position + Unstored

IInv == Typed /\ Controlled /\ Queue /\ Ready /\ Chain /\ Entry /\ Grammar /\ Durable /\ Store /\ Agree

-----------------------------------------------------------------------------
(* Types *)

\* The event a session emits is the boundary its log calls for.
LEMMA EmitGrows ==
    ASSUME Grammar, Emit
    PROVE  /\ log' \in Logs /\ Legal(log') /\ Len(log') = Len(log) + 1 /\ Len(log') <= MaxLog
           /\ SeqOfLast(log') \in 1..MaxLog /\ SeqOfLast(log') = Len(log) + 1
           /\ Len(log) \in Nat
           /\ \A s \in Logs : IsPrefix(s, log) => IsPrefix(s, log')
<1>1. /\ log' = Append(log, Boundary(log)) /\ Len(log) < MaxLog
      /\ Boundary(log) \in {"start", "end", "closer"} /\ (Boundary(log) = "start" <=> ~Open(log))
  BY DEF Emit, Boundary
<1>2. Len(log) \in Nat /\ log \in Logs /\ Legal(log)
  BY LenProperties DEF Grammar, Logs
<1>3. log' \in Logs /\ Legal(log') /\ Len(log') = Len(log) + 1
  BY <1>1, <1>2, LegalAppends
<1>4. Len(log) + 1 <= MaxLog
  BY <1>1, <1>2, BoundsAssumption
<1>. QED BY <1>1, <1>2, <1>3, <1>4, PrefixGrows, BoundsAssumption DEF SeqOfLast

\* The steps of the controller keep its types.
LEMMA ControllerTyped ==
    ASSUME WB!TypeOK
    PROVE  /\ UNCHANGED <<controller, failures>> => WB!TypeOK'
           /\ FreshController /\ UNCHANGED failures => WB!TypeOK'
           /\ \A c \in Caller : WB!CancelAutomaticWait(c) => WB!TypeOK'
           /\ \A c \in Caller : WB!Join(c) => WB!TypeOK'
           /\ \A e \in 1..MaxLog : WB!Enqueue(e) => WB!TypeOK'
           /\ WB!Deadline \/ WB!ContinueAutomatic \/ WB!BarrierContinues \/ WB!BarrierFails => WB!TypeOK'
           /\ WB!WriteSucceeds \/ (WB!WriteFails /\ UNCHANGED failures) => WB!TypeOK'
<1>. USE DEF WB!TypeOK, WB!Stages, WB!CallStates
<1>u. UNCHANGED <<controller, failures>> => WB!TypeOK'
  BY DEF controller
<1>f. ASSUME FreshController, UNCHANGED failures PROVE WB!TypeOK'
  BY <1>f, EmptySeq DEF FreshController
<1>d. ASSUME NEW c \in Caller, WB!CancelAutomaticWait(c) PROVE WB!TypeOK'
  BY <1>d DEF WB!CancelAutomaticWait, WB!queueVars, WB!writeVars
<1>s. ASSUME NEW by \in {"background", "barrier"}, WB!StartWrite(by)
      PROVE  /\ pending' \in Seq(1..MaxLog) /\ batch' \in Seq(1..MaxLog) /\ writing' \in {"background", "barrier"}
             /\ timer' \in BOOLEAN /\ deadlineExpired' \in BOOLEAN
  BY <1>s, EmptySeq DEF WB!StartWrite
<1>o. ASSUME NEW joined \in [Caller -> WB!CallStates], WB!DrainOrClose(joined)
      PROVE  /\ pending' \in Seq(1..MaxLog) /\ batch' \in Seq(1..MaxLog)
             /\ writing' \in {"no", "background", "barrier"}
             /\ timer' \in BOOLEAN /\ deadlineExpired' \in BOOLEAN
             /\ barrier' \in WB!Stages /\ call' \in [Caller -> WB!CallStates]
  BY <1>o, <1>s DEF WB!DrainOrClose, WB!Settle
<1>j. ASSUME NEW c \in Caller, WB!Join(c) PROVE WB!TypeOK'
  <2>1. [call EXCEPT ![c] = "joined"] \in [Caller -> WB!CallStates]
    OBVIOUS
  <2>2. mark' \in [Caller -> Nat]
    BY <1>j, LenProperties DEF WB!Join
  <2>. QED BY <1>j, <1>o, <2>1, <2>2 DEF WB!Join
<1>e. ASSUME NEW e \in 1..MaxLog, WB!Enqueue(e) PROVE WB!TypeOK'
  BY <1>e, AppendProperties DEF WB!Enqueue, WB!Arms, WB!writeVars, WB!callVars
<1>1. ASSUME WB!Deadline PROVE WB!TypeOK'
  BY <1>1, <1>s DEF WB!Deadline, WB!callVars
<1>2. ASSUME WB!ContinueAutomatic PROVE WB!TypeOK'
  BY <1>2, <1>s DEF WB!ContinueAutomatic, WB!callVars
<1>3. ASSUME WB!BarrierContinues PROVE WB!TypeOK'
  BY <1>3, <1>o DEF WB!BarrierContinues
<1>4. ASSUME WB!BarrierFails PROVE WB!TypeOK'
  <2>1. call' \in [Caller -> WB!CallStates]
    BY <1>4 DEF WB!BarrierFails, WB!Settle
  <2>. QED BY <1>4, <2>1 DEF WB!BarrierFails, WB!queueVars, WB!writeVars, WB!autoVars
<1>5. WB!AfterWrite("looking") \in WB!Stages /\ WB!AfterWrite("failing") \in WB!Stages
  BY DEF WB!AfterWrite
<1>6. ASSUME WB!WriteSucceeds PROVE WB!TypeOK'
  BY <1>5, <1>6, EmptySeq, ConcatProperties DEF WB!WriteSucceeds, WB!queueVars
<1>7. ASSUME WB!WriteFails, UNCHANGED failures PROVE WB!TypeOK'
  BY <1>5, <1>7, EmptySeq, ConcatProperties DEF WB!WriteFails, WB!Retained
<1>. HIDE DEF WB!TypeOK
<1>. QED BY <1>u, <1>f, <1>d, <1>j, <1>e, <1>1, <1>2, <1>3, <1>4, <1>6, <1>7

\* Every step keeps every variable's type.
LEMMA TypedStep == ASSUME Typed, Grammar, Next PROVE Typed'
<1>. USE DEF Typed
<1>u. UNCHANGED <<controller, failures>> => WB!TypeOK'
  BY ControllerTyped
<1>f. ASSUME FreshController, UNCHANGED failures PROVE WB!TypeOK' /\ request' = "none" /\ retiring' = "no"
  BY <1>f, ControllerTyped DEF FreshController
<1>d. WB!CancelAutomaticWait("user") \/ WB!CancelAutomaticWait("retire") \/ WB!CancelAutomaticWait("teardown")
        => WB!TypeOK'
  BY ControllerTyped DEF Caller
<1>j. \A c \in Caller : WB!Join(c) => WB!TypeOK'
  BY ControllerTyped
<1>c. ASSUME Carries PROVE request' \in {"none", "calling", "queued", "resolved", "rejected"}
  BY <1>c DEF Carries
<1>a. ASSUME NEW op \in Ops, chain' = Append(chain, op) PROVE chain' \in Seq(Ops)
  BY <1>a, ChainAppends
<1>t. ASSUME chain # <<>>, chain' = Tail(chain) PROVE chain' \in Seq(Ops)
  BY <1>t, ChainTail
<1>i. ASSUME NEW events, InitFor(events)
      PROVE  init' \in {"none", "pending", "ok", "failed"} /\ chain' \in Seq(Ops)
  BY <1>i, <1>a DEF InitFor, Ops
<1>1. CASE Controller
  <2>5. WB!TypeOK'
    BY <1>1, ControllerTyped DEF Controller
  <2>. QED BY <1>1, <1>c, <2>5 DEF Controller, life, record, calls, resumes, entry, counters
<1>2. CASE Created
  BY <1>2, <1>u, <1>i DEF Created, life, calls, resumes, entry, counters
<1>3. CASE Emit
  <2>1. SeqOfLast(log') \in 1..MaxLog
    BY <1>3, EmitGrows
  <2>2. WB!Enqueue(SeqOfLast(log')) => WB!TypeOK'
    BY <2>1, ControllerTyped
  <2>3. WB!TypeOK' /\ init' \in {"none", "pending", "ok", "failed"} /\ chain' \in Seq(Ops)
        /\ request' \in {"none", "calling", "queued", "resolved", "rejected"}
    BY <1>3, <1>u, <1>i, <1>c, <2>2 DEF Emit
  <2>. QED BY <1>3, <2>3 DEF Emit, calls, resumes, entry, counters
<1>4. CASE UserFlush
  BY <1>4, <1>i, <1>d DEF UserFlush, life, calls, resumes, entry, counters
<1>5. ASSUME NEW c \in Flushers, FlushReaches(c) PROVE Typed'
  <2>1. c \in Caller
    BY DEF Flushers, Caller
  <2>2. WB!TypeOK'
    BY <1>5, <1>j, <2>1 DEF FlushReaches, WB!Flush
  <2>. QED BY <1>5, <1>c, <2>2 DEF FlushReaches, life, record, calls, resumes, entry, counters
<1>6. ASSUME NEW c \in Flushers, FlushRefused(c) PROVE Typed'
  <2>1. WB!TypeOK'
    BY <1>6 DEF FlushRefused, WB!TypeOK, WB!CallStates, Flushers, Caller
  <2>. QED BY <1>6, <2>1 DEF FlushRefused, life, record, calls, resumes, entry, counters
<1>7. CASE WriteQueues
  BY <1>7, <1>u, <1>a DEF WriteQueues, Ops, life, record, calls, resumes, entry, counters
<1>8. CASE WriteSettles
  <2>1. WB!TypeOK'
    BY <1>8, ControllerTyped DEF WriteSettles
  <2>. QED BY <1>8, <1>c, <2>1 DEF WriteSettles, life, record, calls, resumes, entry, counters
<1>n. BackendFails => failures' \in Nat
  BY DEF BackendFails, WB!TypeOK
<1>w. UNCHANGED controller /\ failures' \in Nat => WB!TypeOK'
  BY DEF controller, WB!TypeOK
<1>9. CASE Initializes \/ StoresSuffix \/ StoresBatch
  BY <1>9, <1>t, <1>n, <1>u, <1>w
     DEF Initializes, StoresSuffix, StoresBatch, AdoptionFails, Running, OpEnds,
         life, record, calls, resumes, entry, counters
<1>10. CASE Retire
  BY <1>10, <1>d DEF Retire, record, resumes, entry, counters
<1>11. CASE RetireQueues \/ Trim
  BY <1>11, <1>u, <1>a DEF RetireQueues, Trim, Ops, life, record, calls, resumes, entry, counters
<1>12. CASE Retires
  BY <1>12, <1>f, <1>t DEF Retires, Running, OpEnds, resumes, entry, counters
<1>13. CASE TrimDrains
  <2>1. "trim" \in Caller
    BY DEF Caller
  <2>. QED BY <1>13, <1>u, <1>j, <1>c, <2>1 DEF TrimDrains, life, record, calls, resumes, entry,
              counters
<1>14. CASE TrimGivesUp \/ \E cut \in 1..MaxLog : TrimCuts(cut)
  BY <1>14, <1>u, <1>t DEF TrimGivesUp, TrimCuts, DropsCursor, CutsUnderSession, Running, OpEnds, Invalidates, EntryRemoved,
     life, record, calls, resumes, entry, counters
<1>15. CASE TeardownBegins
  BY <1>15, <1>u, <1>d DEF TeardownBegins, record, calls, resumes, entry, counters
<1>16. CASE TeardownEnds \/ Crash
  BY <1>16, <1>f, EmptySeq DEF TeardownEnds, Crash, EntryRemoved
<1>17. CASE Reload
  BY <1>17, <1>u, <1>i DEF Reload, calls, resumes, entry, counters
<1>p. EntryFor => chain' \in Seq(Ops) /\ phase' \in {"none", "loading", "ready", "committing", "reserved"}
  BY <1>a DEF EntryFor, Ops
<1>18. CASE Inspects
  BY <1>18, <1>u, <1>p DEF Inspects, life, record, calls, resumes, entry, counters
<1>19. ASSUME NEW r \in Resumers, Reserves(r) \/ ReserveRefused(r) PROVE Typed'
  BY <1>19, <1>u, <1>p DEF Reserves, ReserveRefused, life, record, calls, resumes, entry, counters
<1>20. CASE Prepares
  BY <1>20, <1>t, <1>n, <1>u, <1>w DEF Prepares, Running, OpEnds, EntryRemoved,
     life, record, calls, resumes, entry, counters
<1>21. ASSUME NEW r \in Resumers, TakesReady(r) \/ Releases(r) \/ PublishRefused(r) PROVE Typed'
  <2>1. CASE TakesReady(r)
    BY <2>1, <1>u, <1>a DEF TakesReady, Ops, life, record, calls, resumes, entry, counters
  <2>2. CASE Releases(r) \/ PublishRefused(r)
    BY <2>2, <1>u DEF Releases, PublishRefused, RemovesOwn, EntryRemoved, life, record, calls,
       resumes, entry, counters
  <2>. QED BY <1>21, <2>1, <2>2
<1>22. CASE Evicts
  BY <1>22, <1>u DEF Evicts, EntryRemoved, life, record, calls, resumes, entry, counters
<1>23. ASSUME NEW r \in Resumers, Commits(r) PROVE Typed'
  BY <1>23, <1>t, <1>n, <1>u, <1>w
     DEF Commits, CommitRetries, CommitFails, CommitSucceeds, Running, OpEnds, RemovesOwn,
         EntryRemoved,
         life, record, calls, resumes, entry, counters
<1>24. ASSUME NEW r \in Resumers, ResumeAborts(r) PROVE Typed'
  <2>1. chain' \in Seq(Ops)
    BY <1>24, ChainRemoves DEF ResumeAborts
  <2>. QED BY <1>24, <1>u, <2>1 DEF ResumeAborts, RemovesOwn, EntryRemoved, life, record, calls,
              resumes, entry, counters
<1>25. ASSUME NEW r \in Resumers, Publishes(r) PROVE Typed'
  BY <1>25, <1>f, <1>a DEF Publishes, Ops, RemovesOwn, EntryRemoved, entry, counters
<1>. HIDE DEF Typed
<1>. QED BY <1>1, <1>2, <1>3, <1>4, <1>5, <1>6, <1>7, <1>8, <1>9, <1>10, <1>11, <1>12, <1>13,
            <1>14, <1>15, <1>16, <1>17, <1>18, <1>19, <1>20, <1>21, <1>22, <1>23, <1>24, <1>25
         DEF Next, Chained, Calls, Resume, Flushers

-----------------------------------------------------------------------------
(* The controller *)

\* A step of the controller starts the next write or leaves the queue alone.
Starts ==
    /\ writing = "no" /\ request = "none" /\ pending # <<>>
    /\ batch' = pending /\ pending' = <<>> /\ writing' # "no" /\ request' = "calling"
Rests == UNCHANGED <<pending, batch, writing, request>>

\* Who calls it, and what becomes of the calls it settles.
Drives == Controller \/ TrimDrains \/ \E c \in Flushers : FlushReaches(c)
Settled(c) ==
    /\ call[c] = "done" => c = "trim" \/ call'[c] = "done"
    /\ call'[c] = "joined" => c = "trim" \/ call[c] = "joined" \/ init = "ok"
    /\ call'[c] = "done" =>
          \/ call[c] = "done"
          \/ pending = <<>> /\ writing = "no" /\ Rests /\ (c = "trim" \/ call[c] = "joined" \/ init = "ok")
Driven == Controlled' /\ (Starts \/ Rests) /\ \A c \in Caller : Settled(c)

\* A step of the controller keeps its fields consistent, starts at most one write,
\* and settles a flush only with nothing queued and nothing written; it touches
\* nothing of the coordinator.
LEMMA DriveSettles ==
    ASSUME Typed, Controlled, Drives
    PROVE  /\ Driven
           /\ UNCHANGED <<failures, life, record, chain, retiring, resumes, stored, stale, counters>>
<1>. USE DEF Typed, WB!TypeOK, WB!Stages, WB!CallStates, Controlled
<1>s. ASSUME NEW by \in {"background", "barrier"}, WB!StartWrite(by), writing = "no", pending # <<>>, Carries
      PROVE  Starts /\ writing' = by /\ timer' = FALSE /\ request' = "calling"
  BY <1>s DEF WB!StartWrite, Carries, Starts
<1>r. ASSUME UNCHANGED <<pending, batch, writing>>, Carries PROVE Rests
  BY <1>r DEF Carries, Rests
<1>o. ASSUME NEW joined \in [Caller -> WB!CallStates], WB!DrainOrClose(joined), writing = "no", Carries
      PROVE  /\ Starts \/ (Rests /\ pending = <<>>)
             /\ Starts => barrier' = "writing" /\ call' = joined /\ writing' = "barrier" /\ timer' = FALSE
             /\ ~Starts => barrier' = "none" /\ timer' = FALSE
                           /\ \A c \in Caller : call'[c] = IF joined[c] = "joined" THEN "done" ELSE joined[c]
  <2>1. CASE pending # <<>>
    BY <1>o, <1>s, <2>1 DEF WB!DrainOrClose, WB!Settle, Starts
  <2>2. CASE pending = <<>>
    BY <1>o, <1>r, <2>2 DEF WB!DrainOrClose, WB!Settle, Starts
  <2>. QED BY <2>1, <2>2
<1>j. ASSUME NEW c \in Caller, c = "trim" \/ (init = "ok" /\ call[c] = "waiting"), WB!Join(c), Carries
      PROVE  Driven
  <2>. DEFINE joined == [call EXCEPT ![c] = "joined"]
  <2>1. joined \in [Caller -> WB!CallStates] /\ \A d \in Caller : joined[d] = IF d = c THEN "joined" ELSE call[d]
    OBVIOUS
  <2>. HIDE DEF joined
  <2>2. CASE barrier # "none" \/ writing # "no"
    <3>1. Rests /\ call' = joined /\ UNCHANGED autoContinues
          /\ (barrier # "none" => UNCHANGED <<barrier, timer>>)
          /\ (barrier = "none" => barrier' = "overlapping" /\ timer' = FALSE)
      BY <1>j, <1>r, <2>2 DEF WB!Join, joined
    <3>2. Controlled'
      BY <2>2, <3>1 DEF Rests
    <3>. QED BY <1>j, <2>1, <3>1, <3>2 DEF Settled, Driven
  <2>3. CASE barrier = "none" /\ writing = "no"
    <3>1. WB!DrainOrClose(joined) /\ UNCHANGED autoContinues
      BY <1>j, <2>3 DEF WB!Join, joined
    <3>2. Controlled' /\ (Starts \/ Rests)
      BY <1>j, <1>o, <2>1, <2>3, <3>1 DEF Starts, Rests
    <3>. QED BY <1>j, <1>o, <2>1, <2>3, <3>1, <3>2 DEF Settled, Driven
  <2>. QED BY <2>2, <2>3
<1>1. CASE Controller
  <2>1. ASSUME WB!Deadline PROVE Driven
    <3>1. CASE writing # "no"
      BY <1>1, <1>r, <2>1, <3>1 DEF Controller, WB!Deadline, WB!callVars, Settled, Rests, Driven
    <3>2. CASE writing = "no"
      <4>1. Starts /\ writing' = "background" /\ timer' = FALSE
        BY <1>1, <1>s, <2>1, <3>2 DEF Controller, WB!Deadline
      <4>. QED BY <2>1, <4>1 DEF WB!Deadline, WB!Quiet, WB!Microtasks, WB!callVars, Settled,
                  Starts, Driven
    <3>. QED BY <3>1, <3>2
  <2>2. ASSUME WB!ContinueAutomatic PROVE Driven
    <3>1. CASE barrier = "none" /\ pending # <<>> /\ deadlineExpired
      <4>1. writing = "no"
        BY <2>2, <3>1 DEF WB!ContinueAutomatic
      <4>2. Starts /\ writing' = "background" /\ timer' = FALSE
        BY <1>1, <1>s, <2>2, <3>1, <4>1 DEF Controller, WB!ContinueAutomatic
      <4>. QED BY <2>2, <3>1, <4>2 DEF WB!ContinueAutomatic, WB!callVars, Settled, Starts, Driven
    <3>2. CASE ~(barrier = "none" /\ pending # <<>> /\ deadlineExpired)
      BY <1>1, <1>r, <2>2, <3>2 DEF Controller, WB!ContinueAutomatic, WB!callVars, Settled, Rests,
         Driven
    <3>. QED BY <3>1, <3>2
  <2>3. ASSUME WB!BarrierContinues PROVE Driven
    <3>1. WB!DrainOrClose(call) /\ UNCHANGED autoContinues /\ writing = "no" /\ Carries
      BY <1>1, <2>3 DEF Controller, WB!BarrierContinues
    <3>2. Controlled' /\ (Starts \/ Rests)
      BY <1>o, <3>1 DEF Starts, Rests
    <3>. QED BY <1>o, <3>1, <3>2 DEF Settled, Driven
  <2>4. ASSUME WB!BarrierFails PROVE Driven
    <3>1. \A c \in Caller : call'[c] = IF call[c] = "joined" THEN "rejected" ELSE call[c]
      BY <2>4 DEF WB!BarrierFails, WB!Settle
    <3>. QED BY <1>1, <1>r, <2>4, <3>1
         DEF Controller, WB!BarrierFails, WB!queueVars, WB!writeVars, WB!autoVars, Settled, Rests,
             Driven
  <2>5. UNCHANGED <<failures, life, record, chain, retiring, resumes, stored, stale, counters>>
    BY <1>1 DEF Controller, WB!Deadline, WB!ContinueAutomatic, WB!BarrierContinues,
       WB!BarrierFails, calls
  <2>. QED BY <1>1, <2>1, <2>2, <2>3, <2>4, <2>5 DEF Controller
<1>2. CASE TrimDrains
  <2>1. "trim" \in Caller
    BY DEF Caller
  <2>. QED BY <1>2, <1>j, <2>1 DEF TrimDrains, WB!Join, controller, Settled, Rests, Driven
<1>3. ASSUME NEW c \in Flushers, FlushReaches(c)
      PROVE  /\ Driven
             /\ UNCHANGED <<failures, life, record, chain, retiring, resumes, stored, stale, counters>>
  <2>1. c \in Caller
    BY DEF Flushers, Caller
  <2>. QED BY <1>3, <1>j, <2>1 DEF FlushReaches, WB!Flush, WB!Join, calls
<1>. QED BY <1>1, <1>2, <1>3 DEF Drives

\* An event makes the queue longer.
LEMMA EnqueueFills ==
    ASSUME NEW e \in 1..MaxLog, pending \in Seq(1..MaxLog), WB!Enqueue(e)
    PROVE  pending' # <<>> /\ Len(pending') = Len(pending) + 1
BY AppendProperties DEF WB!Enqueue

\* Every step keeps the controller's fields consistent.
LEMMA ControlledStep == ASSUME Typed, Controlled, Chain, Grammar, Next PROVE Controlled'
<1>1. CASE Drives
  BY <1>1, DriveSettles DEF Driven
<1>. USE DEF Controlled, Typed, WB!TypeOK, WB!Stages, WB!CallStates
<1>d. ASSUME NEW c \in Caller, WB!CancelAutomaticWait(c), UNCHANGED request PROVE Controlled'
  BY <1>d DEF WB!CancelAutomaticWait, WB!queueVars, WB!writeVars
<1>u. ASSUME UNCHANGED <<controller, request>> PROVE Controlled'
  BY <1>u DEF controller
<1>f. ASSUME FreshController PROVE Controlled'
  BY <1>f DEF FreshController
<1>2. CASE Emit
  <2>1. ASSUME NEW e \in 1..MaxLog, WB!Enqueue(e), Carries PROVE Controlled'
    <3>1. pending' # <<>>
      BY <2>1, EnqueueFills
    <3>. QED BY <2>1, <3>1 DEF WB!Enqueue, WB!writeVars, WB!callVars, Carries
  <2>. QED BY <1>2, <1>u, <2>1, EmitGrows DEF Emit
<1>3. CASE UserFlush \/ Retire \/ TeardownBegins
  BY <1>3, <1>d, <1>u DEF UserFlush, Retire, TeardownBegins, Caller
<1>4. ASSUME NEW c \in Flushers, FlushRefused(c) PROVE Controlled'
  BY <1>4 DEF FlushRefused
<1>5. CASE WriteQueues
  BY <1>5 DEF WriteQueues, controller
<1>6. CASE WriteSettles
  <2>1. CASE WB!WriteSucceeds
    BY <1>6, <2>1 DEF WriteSettles, WB!WriteSucceeds, WB!AfterWrite, WB!queueVars, Carries
  <2>2. CASE WB!WriteFails
    BY <1>6, <2>2 DEF WriteSettles, WB!WriteFails, WB!AfterWrite, Carries
  <2>. QED BY <1>6, <2>1, <2>2 DEF WriteSettles
<1>7. CASE StoresBatch
  <2>1. request = "queued"
    BY <1>7, ChainTail DEF StoresBatch, Running, Chain
  <2>. QED BY <1>7, <2>1 DEF StoresBatch, controller
<1>8. CASE Retires \/ TeardownEnds \/ Crash \/ \E r \in Resumers : Publishes(r)
  BY <1>8, <1>f DEF Retires, TeardownEnds, Crash, Publishes
<1>9. CASE \/ Created \/ Initializes \/ StoresSuffix \/ RetireQueues \/ Trim \/ TrimGivesUp \/ Reload
           \/ Inspects \/ Prepares \/ Evicts \/ \E cut \in 1..MaxLog : TrimCuts(cut)
  BY <1>9, <1>u DEF Created, Initializes, StoresSuffix, RetireQueues, Trim, TrimGivesUp, Reload,
                    Inspects, Prepares, Evicts, TrimCuts
<1>10. ASSUME NEW r \in Resumers,
              \/ Reserves(r) \/ ReserveRefused(r) \/ TakesReady(r) \/ Releases(r)
              \/ PublishRefused(r) \/ Commits(r) \/ ResumeAborts(r)
       PROVE  Controlled'
  BY <1>10, <1>u DEF Reserves, ReserveRefused, TakesReady, Releases, PublishRefused, Commits,
     ResumeAborts
<1>. HIDE DEF Controlled, Typed, WB!TypeOK
<1>. QED BY <1>1, <1>2, <1>3, <1>4, <1>5, <1>6, <1>7, <1>8, <1>9, <1>10
         DEF Next, Chained, Calls, Resume, Drives, Flushers

-----------------------------------------------------------------------------
(* The queue *)

\* Every step keeps the queued positions consecutive and, while the plugin serves
\* the session, ending at the log's end.
LEMMA QueueStep ==
    ASSUME Typed, Controlled, Ready, Grammar, Queue, Next, Grammar'
    PROVE  Queue'
<1>t. /\ pending \in Positions /\ batch \in Positions
      /\ Len(pending) \in Nat /\ Len(batch) \in Nat /\ Len(log) \in Nat /\ Len(log') \in Nat
  BY LenProperties DEF Typed, WB!TypeOK, Positions, Grammar, Logs
<1>1. PICK last \in 0..Len(log) :
          /\ Consecutive(pending, last) /\ Consecutive(batch, last - Len(pending))
          /\ Serving => last = Len(log)
  BY DEF Queue
<1>0. Len(<<>>) = 0 /\ last - 0 = last /\ \A n \in Int : Consecutive(<<>>, n)
  BY <1>t, EmptySeq DEF Consecutive
<1>e. ASSUME pending' = <<>>, batch' = <<>> PROVE Queue'
  <2>1. Len(log') \in 0..Len(log') /\ Len(log') - 0 = Len(log')
    BY <1>t
  <2>. DEFINE n == Len(log')
  <2>2. n \in 0..Len(log') /\ n \in Int /\ n - Len(<<>>) = n /\ n = Len(log')
    BY <1>0, <1>t, <2>1
  <2>. HIDE DEF n
  <2>3. Consecutive(pending', n) /\ Consecutive(batch', n - Len(pending'))
    BY <1>0, <1>e, <2>2
  <2>. QED BY <2>2, <2>3 DEF Queue
<1>u. ASSUME UNCHANGED <<pending, batch, log>>, Serving' => Serving PROVE Queue'
  BY <1>1, <1>u DEF Queue
<1>f. ASSUME FreshController PROVE Queue'
  BY <1>e, <1>f DEF FreshController
<1>2. CASE Drives
  <2>1. UNCHANGED log /\ (Serving' <=> Serving) /\ (Starts \/ Rests)
    BY <1>2, DriveSettles DEF Driven, life, Serving
  <2>2. CASE Rests
    BY <1>u, <2>1, <2>2 DEF Rests
  <2>3. CASE Starts
    <3>1. batch' = pending /\ pending' = <<>>
      BY <2>3 DEF Starts
    <3>2. Consecutive(pending', last) /\ Consecutive(batch', last - Len(pending'))
      BY <1>0, <1>1, <3>1
    <3>. QED BY <1>1, <2>1, <3>2 DEF Queue
  <2>. QED BY <2>1, <2>2, <2>3
<1>3. CASE Emit
  <2>1. /\ Len(log') = Len(log) + 1 /\ Len(log') <= MaxLog /\ SeqOfLast(log') = Len(log) + 1
        /\ SeqOfLast(log') \in 1..MaxLog
    BY <1>3, EmitGrows
  <2>2. CASE plugin = "up"
    <3>1. WB!Enqueue(Len(log) + 1) /\ session = "live"
      BY <1>3, <2>1, <2>2 DEF Emit
    <3>2. pending' = Append(pending, Len(log) + 1) /\ batch' = batch /\ last = Len(log)
          /\ Len(pending') = Len(pending) + 1
      BY <1>1, <1>t, <2>1, <2>2, <3>1, EnqueueFills DEF WB!Enqueue, WB!writeVars, Serving, Positions
    <3>3. Consecutive(pending', last + 1)
      BY <1>1, <1>t, <2>1, <3>2, ConsecutiveGrows
    <3>4. (last + 1) - Len(pending') = last - Len(pending) /\ last + 1 \in 0..Len(log') /\ last + 1 = Len(log')
      BY <1>t, <2>1, <3>2
    <3>. QED BY <1>1, <3>2, <3>3, <3>4 DEF Queue
  <2>3. CASE plugin # "up"
    <3>1. UNCHANGED <<pending, batch>> /\ ~Serving'
      BY <1>3, <2>3 DEF Emit, controller, Serving
    <3>2. last \in 0..Len(log')
      BY <1>t, <2>1
    <3>. QED BY <1>1, <3>1, <3>2 DEF Queue
  <2>. QED BY <2>2, <2>3
<1>4. CASE UserFlush \/ Retire \/ TeardownBegins
  BY <1>4, <1>u DEF UserFlush, Retire, TeardownBegins, WB!CancelAutomaticWait, WB!queueVars,
     WB!writeVars,
                    controller, life, Serving
<1>5. ASSUME NEW c \in Flushers, FlushRefused(c) PROVE Queue'
  BY <1>5, <1>u DEF FlushRefused, life, Serving
<1>6. CASE WriteSettles
  <2>1. UNCHANGED log /\ (Serving' <=> Serving)
    BY <1>6 DEF WriteSettles, life, Serving
  <2>2. CASE WB!WriteSucceeds
    <3>1. UNCHANGED pending /\ batch' = <<>>
      BY <2>2 DEF WB!WriteSucceeds, WB!queueVars
    <3>2. Consecutive(<<>>, last - Len(pending))
      BY <1>0, <1>t
    <3>. QED BY <1>1, <2>1, <3>1, <3>2 DEF Queue
  <2>3. CASE WB!WriteFails
    <3>1. pending' = batch \o pending /\ batch' = <<>>
      BY <2>3 DEF WB!WriteFails, WB!Retained
    <3>2. Consecutive(pending', last) /\ Len(pending') \in Nat
      BY <1>1, <1>t, <3>1, ConsecutiveJoins
    <3>3. Consecutive(<<>>, last - Len(pending'))
      BY <1>0, <3>2
    <3>. QED BY <1>1, <2>1, <3>1, <3>2, <3>3 DEF Queue
  <2>. QED BY <1>6, <2>2, <2>3 DEF WriteSettles
<1>7. CASE Reload
  BY <1>7, <1>e DEF Reload, Ready, Controlled, controller
<1>8. CASE Retires \/ TeardownEnds \/ Crash \/ \E r \in Resumers : Publishes(r)
  BY <1>8, <1>f DEF Retires, TeardownEnds, Crash, Publishes
<1>9. CASE \/ Created \/ WriteQueues \/ Initializes \/ StoresSuffix \/ StoresBatch \/ RetireQueues \/ Trim
           \/ TrimGivesUp \/ Inspects \/ Prepares \/ Evicts \/ \E cut \in 1..MaxLog : TrimCuts(cut)
  BY <1>9, <1>u DEF Created, WriteQueues, Initializes, StoresSuffix, StoresBatch, RetireQueues,
     Trim, TrimGivesUp,
                    Inspects, Prepares, Evicts, TrimCuts, controller, life, Serving
<1>10. ASSUME NEW r \in Resumers,
              \/ Reserves(r) \/ ReserveRefused(r) \/ TakesReady(r) \/ Releases(r)
              \/ PublishRefused(r) \/ Commits(r) \/ ResumeAborts(r)
       PROVE  Queue'
  BY <1>10, <1>u DEF Reserves, ReserveRefused, TakesReady, Releases, PublishRefused, Commits,
     ResumeAborts,
                     controller, life, Serving
<1>. QED BY <1>2, <1>3, <1>4, <1>5, <1>6, <1>7, <1>8, <1>9, <1>10
         DEF Next, Chained, Calls, Resume, Drives, Flushers

-----------------------------------------------------------------------------
(* The record, the calls and the retirement *)

\* An operation that runs is the chain's head.
LEMMA RunningQueued ==
    ASSUME Typed, NEW op, Running(op)
    PROVE  Queues(chain, {op}) /\ plugin # "closed" /\ chain # <<>> /\ Head(chain) = op
BY ChainTail DEF Running, Typed

\* Every step keeps what the record, the calls and the retirement wait for.
LEMMA ReadyStep == ASSUME Typed, Controlled, Ready, Chain, Next PROVE Ready'
<1>c. /\ call \in [Caller -> WB!CallStates] /\ "retire" \in Caller /\ Flushers \subseteq Caller
      /\ "retire" \in Flushers
  BY DEF Typed, WB!TypeOK, Caller, Flushers
<1>q. \A op \in Ops : Running(op) => Queues(chain, {op}) /\ plugin # "closed"
  BY RunningQueued
<1>s. Running("init") \/ Running("suffix") => init = "pending"
  BY RunningQueued DEF Chain, Starters, Queues
<1>w. Running("write") => request = "queued" /\ init = "ok"
  BY RunningQueued DEF Chain, Ready
<1>f. ASSUME FreshController, session' # "disposed", (session' = "none" \/ plugin' = "closed") => init' = "none",
             plugin' = "closed" => chain' = <<>>
      PROVE  Ready'
  BY <1>c, <1>f DEF FreshController, Ready
<1>u. ASSUME UNCHANGED <<controller, request, session, plugin, init, retiring>>, plugin = "closed" => UNCHANGED chain
      PROVE  Ready'
  BY <1>u DEF Ready, controller
<1>d. ASSUME NEW c \in Caller, WB!CancelAutomaticWait(c)
      PROVE  /\ UNCHANGED <<pending, batch, writing>> /\ call'[c] = "waiting"
             /\ \A d \in Caller : d # c => call'[d] = call[d]
  BY <1>c, <1>d DEF WB!CancelAutomaticWait, WB!queueVars, WB!writeVars
<1>1. CASE Drives
  <2>1. UNCHANGED <<session, plugin, init, chain, retiring>> /\ (Starts \/ Rests) /\ \A c \in Caller : Settled(c)
    BY <1>1, DriveSettles DEF Driven, life, record
  <2>2. call["retire"] = "idle" => call'["retire"] = "idle"
    BY <1>1, <1>c DEF Drives, Controller, TrimDrains, FlushReaches, WB!Deadline,
       WB!ContinueAutomatic, WB!callVars,
                      WB!BarrierContinues, WB!BarrierFails, WB!DrainOrClose, WB!Settle, WB!Flush,
                      WB!Join, controller
  <2>3. \A c \in Flushers : call'[c] = "joined" => init = "ok"
    BY <1>c, <2>1 DEF Settled, Ready, Flushers
  <2>4. CASE Rests
    <3>1. UNCHANGED <<pending, writing, request>>
      BY <2>4 DEF Rests
    <3>2. call'["retire"] = "done" => init = "ok" /\ pending = <<>> /\ writing = "no"
      BY <1>c, <2>1 DEF Settled, Ready, Flushers
    <3>3. call["retire"] = "done" => call'["retire"] = "done"
      BY <1>c, <2>1 DEF Settled
    <3>. QED BY <2>1, <2>2, <2>3, <3>1, <3>2, <3>3 DEF Ready
  <2>5. CASE Starts
    <3>1. call'["retire"] # "done" /\ request' = "calling" /\ pending # <<>>
      BY <1>c, <2>1, <2>5 DEF Settled, Ready, Starts
    <3>. QED BY <2>1, <2>2, <2>3, <2>5, <3>1 DEF Ready
  <2>. QED BY <2>1, <2>4, <2>5
<1>2. CASE Created
  BY <1>2 DEF Created, InitFor, controller, life, calls, Ready
<1>3. CASE Emit
  <2>1. CASE plugin = "up"
    BY <1>3, <2>1 DEF Emit, InitFor, WB!Enqueue, WB!writeVars, WB!callVars, Carries, calls, Ready
  <2>2. CASE plugin # "up"
    BY <1>3, <2>2, <1>u DEF Emit, calls
  <2>. QED BY <2>1, <2>2
<1>4. CASE UserFlush
  <2>1. "user" \in Caller
    BY DEF Caller
  <2>. QED BY <1>4, <1>c, <1>d, <2>1 DEF UserFlush, InitFor, life, calls, Ready
<1>5. ASSUME NEW c \in Flushers, FlushRefused(c) PROVE Ready'
  <2>1. \A d \in Caller : call'[d] = IF d = c THEN "rejected" ELSE call[d]
    BY <1>c, <1>5 DEF FlushRefused
  <2>. QED BY <1>c, <1>5, <2>1 DEF FlushRefused, life, record, calls, Ready
<1>6. CASE WriteQueues
  BY <1>6 DEF WriteQueues, controller, life, record, calls, Ready, Controlled
<1>7. CASE WriteSettles
  <2>1. writing # "no" /\ writing' = "no" /\ request' = "none" /\ UNCHANGED call
    BY <1>7 DEF WriteSettles, WB!WriteSucceeds, WB!WriteFails, Carries
  <2>. QED BY <1>7, <2>1 DEF WriteSettles, life, record, calls, Ready
<1>8. CASE Initializes \/ StoresSuffix
  <2>1. init = "pending" /\ init' \in {"ok", "failed"} /\ plugin # "closed"
    BY <1>8, <1>s DEF Initializes, StoresSuffix, Running
  <2>. QED BY <1>8, <2>1 DEF Initializes, StoresSuffix, controller, life, calls, Ready
<1>9. CASE StoresBatch
  BY <1>9, <1>w DEF StoresBatch, Running, controller, life, calls, Ready
<1>10. CASE Retire
  BY <1>10, <1>c, <1>d DEF Retire, record, Ready
<1>11. CASE RetireQueues
  BY <1>11 DEF RetireQueues, controller, life, record, Ready
<1>12. CASE Retires
  BY <1>12, <1>f DEF Retires, Running
<1>13. CASE TeardownBegins
  <2>1. "teardown" \in Caller
    BY DEF Caller
  <2>2. CASE init = "none"
    BY <1>13, <2>2 DEF TeardownBegins, controller, record, calls, Ready
  <2>3. CASE init # "none"
    BY <1>13, <1>c, <1>d, <2>1, <2>3 DEF TeardownBegins, record, calls, Ready
  <2>. QED BY <2>2, <2>3
<1>14. CASE TeardownEnds
  BY <1>14, <1>f DEF TeardownEnds, Drained
<1>15. CASE Reload
  BY <1>15 DEF Reload, InitFor, controller, calls, Ready
<1>16. CASE Crash
  BY <1>16, <1>f DEF Crash
<1>17. CASE Trim \/ TrimGivesUp \/ Inspects \/ Prepares \/ Evicts \/ \E cut \in 1..MaxLog : TrimCuts(cut)
  BY <1>17, <1>u DEF Trim, TrimGivesUp, Inspects, Absent, Prepares, Evicts, TrimCuts, Running,
                     controller, life, record, calls
<1>18. ASSUME NEW r \in Resumers,
              \/ Reserves(r) \/ ReserveRefused(r) \/ TakesReady(r) \/ Releases(r)
              \/ PublishRefused(r) \/ Commits(r)
       PROVE  Ready'
  BY <1>18, <1>u DEF Reserves, Absent, ReserveRefused, TakesReady, Releases, PublishRefused,
     Commits, Running,
                     life, record, calls
<1>19. ASSUME NEW r \in Resumers, ResumeAborts(r) PROVE Ready'
  <2>1. plugin = "closed" => UNCHANGED chain
    BY <1>19, EmptySeq DEF ResumeAborts, Ready
  <2>. QED BY <1>19, <1>u, <2>1 DEF ResumeAborts, life, record, calls
<1>20. ASSUME NEW r \in Resumers, Publishes(r) PROVE Ready'
  BY <1>20, <1>f DEF Publishes
<1>. QED BY <1>1, <1>2, <1>3, <1>4, <1>5, <1>6, <1>7, <1>8, <1>9, <1>10, <1>11, <1>12, <1>13,
            <1>14, <1>15,
            <1>16, <1>17, <1>18, <1>19, <1>20
         DEF Next, Chained, Calls, Resume, Drives, Flushers

-----------------------------------------------------------------------------
(* The chain *)

\* Every step keeps what each queued operation was queued for.
LEMMA ChainStep == ASSUME Typed, Controlled, Ready, Chain, Entry, Next, Typed' PROVE Chain'
<1>. DEFINE Keeps == /\ Queues(chain', Starters) => (init = "pending" => init' = "pending")
                     /\ Queues(chain', {"write"}) => (request = "queued" => request' = "queued")
                     /\ Queues(chain', {"retire"}) => (retiring = "queued" => retiring' = "queued")
                     /\ Queues(chain', {"prepare"}) =>
                           (phase \in {"none", "loading"} => phase' \in {"none", "loading"})
<1>c. chain \in Seq(Ops) /\ chain' \in Seq(Ops)
  BY DEF Typed
<1>u. ASSUME UNCHANGED chain, Keeps PROVE Chain'
  BY <1>u DEF Chain
<1>h. ASSUME Thins(chain, chain'), Keeps PROVE Chain'
  <2>1. /\ \A ops : Queues(chain', ops) => Queues(chain, ops)
        /\ \A ops : Once(chain, ops) => Once(chain', ops)
        /\ Ordered(chain) => Ordered(chain')
    BY <1>c, <1>h, ChainThins
  <2>. QED BY <1>h, <2>1 DEF Chain
<1>t. ASSUME chain # <<>>, chain' = Tail(chain), Keeps PROVE Chain'
  BY <1>c, <1>h, <1>t, ChainTail
<1>a. ASSUME NEW op \in Ops, chain' = Append(chain, op), Keeps,
             op \in Starters => ~Queues(chain, Starters) /\ init' = "pending",
             op = "write" => ~Queues(chain, {"write"}) /\ request' = "queued",
             op = "retire" => ~Queues(chain, {"retire"}) /\ retiring' = "queued",
             op = "prepare" => phase' \in {"none", "loading"},
             op = "commit" => ~Queues(chain, AfterCommit)
      PROVE  Chain'
  <2>1. /\ \A ops : Queues(chain', ops) <=> Queues(chain, ops) \/ op \in ops
        /\ \A ops : Once(chain, ops) /\ (op \in ops => ~Queues(chain, ops)) => Once(chain', ops)
        /\ Ordered(chain')
    BY <1>a, <1>c, ChainAppends DEF Chain
  <2>2. op \in {"write"} <=> op = "write"
    OBVIOUS
  <2>3. op \in {"retire"} <=> op = "retire"
    OBVIOUS
  <2>4. op \in {"prepare"} <=> op = "prepare"
    OBVIOUS
  <2>5. Once(chain', Starters) /\ (Queues(chain', Starters) => init' = "pending")
    BY <1>a, <2>1 DEF Chain
  <2>6. Once(chain', {"write"}) /\ (Queues(chain', {"write"}) => request' = "queued")
    BY <1>a, <2>1, <2>2 DEF Chain
  <2>7. Once(chain', {"retire"}) /\ (Queues(chain', {"retire"}) => retiring' = "queued")
    BY <1>a, <2>1, <2>3 DEF Chain
  <2>8. Queues(chain', {"prepare"}) => phase' \in {"none", "loading"}
    BY <1>a, <2>1, <2>4 DEF Chain
  <2>. QED BY <2>1, <2>5, <2>6, <2>7, <2>8 DEF Chain
<1>e. ASSUME chain' = <<>> PROVE Chain'
  BY <1>e DEF Chain, Queues, Once, Ordered
<1>n. init # "pending" => ~Queues(chain, Starters)
  BY DEF Chain
<1>i. ASSUME NEW events, InitFor(events), request = "queued" => request' = "queued", UNCHANGED <<retiring, phase>>
      PROVE  Chain'
  <2>1. CASE init = "none"
    BY <1>a, <1>i, <1>n, <2>1 DEF InitFor, Ops
  <2>2. CASE init # "none"
    BY <1>u, <1>i, <2>2 DEF InitFor
  <2>. QED BY <2>1, <2>2
<1>p. ASSUME EntryFor, UNCHANGED <<init, request, retiring>> PROVE Chain'
  <2>1. CASE phase = "none"
    BY <1>a, <1>p, <2>1 DEF EntryFor, Ops, Starters
  <2>2. CASE phase # "none"
    BY <1>u, <1>p, <2>2 DEF EntryFor
  <2>. QED BY <2>1, <2>2
<1>1. CASE Drives
  <2>1. UNCHANGED <<chain, init, retiring, phase>> /\ (Starts \/ Rests)
    BY <1>1, DriveSettles DEF Driven, record, resumes, entry
  <2>. QED BY <1>u, <2>1 DEF Starts, Rests
<1>2. CASE Created \/ UserFlush
  BY <1>2, <1>i DEF Created, UserFlush, calls, resumes, entry
<1>3. CASE Emit
  <2>1. CASE plugin = "up"
    <3>1. request = "queued" => request' = "queued"
      BY <1>3, <2>1 DEF Emit, WB!Enqueue, WB!writeVars, Carries, Controlled
    <3>. QED BY <1>3, <1>i, <2>1, <3>1 DEF Emit, calls, resumes, entry
  <2>2. CASE plugin # "up"
    BY <1>3, <2>2, <1>u DEF Emit, calls, resumes, entry
  <2>. QED BY <2>1, <2>2
<1>4. CASE WriteQueues
  <2>1. CASE init = "ok" /\ request' = "queued" /\ chain' = Append(chain, "write")
    <3>1. ~Queues(chain, {"write"})
      BY <1>4 DEF WriteQueues, Chain
    <3>. QED BY <1>4, <1>a, <2>1, <3>1 DEF WriteQueues, Ops, Starters, record, calls, resumes, entry
  <2>2. CASE UNCHANGED chain
    BY <1>4, <1>u, <2>2 DEF WriteQueues, record, calls, resumes, entry
  <2>. QED BY <1>4, <2>1, <2>2 DEF WriteQueues
<1>5. CASE WriteSettles
  BY <1>5, <1>u DEF WriteSettles, record, calls, resumes, entry
<1>6. CASE Initializes \/ StoresSuffix
  <2>1. chain # <<>> /\ chain' = Tail(chain) /\ ~Queues(chain', Starters)
    <3>1. chain # <<>> /\ chain' = Tail(chain) /\ Head(chain) \in Starters
      BY <1>6 DEF Initializes, StoresSuffix, Running, OpEnds, Starters
    <3>. QED BY <1>c, <3>1, ChainTail DEF Chain
  <2>. QED BY <1>6, <1>t, <2>1 DEF Initializes, StoresSuffix, calls, resumes, entry
<1>7. CASE StoresBatch
  <2>1. chain # <<>> /\ chain' = Tail(chain) /\ ~Queues(chain', {"write"})
    BY <1>7, <1>c, ChainTail DEF StoresBatch, Running, OpEnds, Chain
  <2>. QED BY <1>7, <1>t, <2>1 DEF StoresBatch, calls, resumes, entry
<1>8. CASE Retire
  BY <1>8, <1>u DEF Retire, record, resumes, entry, Ready
<1>9. CASE RetireQueues
  <2>1. ~Queues(chain, {"retire"}) /\ retiring # "queued"
    BY <1>9 DEF RetireQueues, Chain
  <2>2. CASE retiring' = "queued" /\ chain' = Append(chain, "retire")
    BY <1>9, <1>a, <2>1, <2>2 DEF RetireQueues, record, resumes, entry, Ops, Starters
  <2>3. CASE UNCHANGED chain
    BY <1>9, <1>u, <2>1, <2>3 DEF RetireQueues, record, resumes, entry
  <2>. QED BY <1>9, <2>2, <2>3 DEF RetireQueues
<1>10. CASE Retires
  <2>1. chain # <<>> /\ chain' = Tail(chain) /\ ~Queues(chain', {"retire"})
    BY <1>10, <1>c, ChainTail DEF Retires, Running, OpEnds, Chain
  <2>2. init = "ok" /\ writing = "no"
    BY <1>10, RunningQueued DEF Retires, Chain, Ready
  <2>3. request # "queued" /\ init # "pending"
    BY <2>2 DEF Controlled
  <2>. QED BY <1>10, <1>t, <2>1, <2>3 DEF Retires, resumes, entry
<1>11. CASE Trim
  BY <1>11, <1>a DEF Trim, Ops, Starters, record, resumes, entry
<1>12. CASE TrimGivesUp \/ \E cut \in 1..MaxLog : TrimCuts(cut)
  BY <1>12, <1>t DEF TrimGivesUp, TrimCuts, Running, OpEnds, Invalidates, EntryRemoved, record,
     resumes, entry
<1>13. CASE TeardownBegins
  BY <1>13, <1>u DEF TeardownBegins, record, calls, resumes, entry
<1>14. CASE TeardownEnds \/ Crash
  BY <1>14, <1>e DEF TeardownEnds, Drained, Crash
<1>15. CASE Reload
  <2>1. CASE session = "live"
    BY <1>15, <1>i, <2>1 DEF Reload, calls, resumes, entry
  <2>2. CASE session # "live"
    BY <1>15, <1>u, <2>2 DEF Reload, calls, resumes, entry
  <2>. QED BY <2>1, <2>2
<1>16. CASE Inspects \/ \E r \in Resumers : Reserves(r)
  BY <1>16, <1>p DEF Inspects, Reserves, record, calls
<1>17. CASE Prepares
  <2>1. chain # <<>> /\ chain' = Tail(chain)
    BY <1>17 DEF Prepares, Running, OpEnds
  <2>2. phase' = phase \/ ~Queues(chain', {"prepare"})
    <3>1. CASE phase # "loading" \/ Contains(Tail(chain), "prepare")
      BY <1>17, <3>1 DEF Prepares, entry
    <3>2. CASE ~Contains(Tail(chain), "prepare")
      BY <1>c, <2>1, <3>2, LenProperties DEF Contains, Queues
    <3>. QED BY <3>1, <3>2
  <2>. QED BY <1>17, <1>t, <2>1, <2>2 DEF Prepares, record, calls
<1>18. ASSUME NEW r \in Resumers, TakesReady(r) PROVE Chain'
  <2>1. phase = "ready" /\ session = "none" /\ init = "none" /\ request # "queued"
    BY <1>18 DEF TakesReady, Entry, Ready
  <2>2. ~Queues(chain, Starters) /\ ~Queues(chain, {"write"}) /\ ~Queues(chain, {"prepare"})
    BY <2>1 DEF Chain
  <2>3. ~Queues(chain, AfterCommit)
    BY <2>2 DEF Queues, AfterCommit, Starters
  <2>. QED BY <1>18, <1>a, <2>1, <2>3 DEF TakesReady, record, calls, Ops, Starters
<1>19. ASSUME NEW r \in Resumers, Commits(r) PROVE Chain'
  <2>1. chain # <<>> /\ chain' = Tail(chain) /\ UNCHANGED <<init, request, retiring>>
    BY <1>19 DEF Commits, Running, OpEnds, calls
  <2>2. phase' = phase \/ phase' = "none" \/ phase = "committing"
    BY <1>19 DEF Commits, CommitRetries, CommitFails, CommitSucceeds, RemovesOwn, EntryRemoved,
       entry, Entry
  <2>. QED BY <1>t, <2>1, <2>2
<1>20. ASSUME NEW r \in Resumers, ResumeAborts(r) PROVE Chain'
  <2>1. UNCHANGED <<init, request, retiring>> /\ (phase' = phase \/ phase' = "none")
    BY <1>20 DEF ResumeAborts, RemovesOwn, EntryRemoved, entry, record, calls
  <2>2. UNCHANGED chain \/ Thins(chain, chain')
    BY <1>20, <1>c, ChainRemoves DEF ResumeAborts
  <2>. QED BY <1>u, <1>h, <2>1, <2>2
<1>21. ASSUME NEW r \in Resumers, Releases(r) \/ PublishRefused(r) \/ ReserveRefused(r) PROVE Chain'
  <2>1. phase' = phase \/ phase' = "none" \/ phase = "reserved"
    BY <1>21 DEF Releases, PublishRefused, ReserveRefused, RemovesOwn, EntryRemoved, entry, Entry
  <2>. QED BY <1>21, <1>u, <2>1 DEF Releases, PublishRefused, ReserveRefused, record, calls
<1>22. ASSUME NEW r \in Resumers, Publishes(r) PROVE Chain'
  <2>1. init = "none" /\ request = "none" /\ retiring # "queued"
    BY <1>22 DEF Publishes, Ready, Controlled
  <2>2. phase' = phase \/ phase' = "none"
    BY <1>22 DEF Publishes, RemovesOwn, EntryRemoved, entry
  <2>3. CASE UNCHANGED chain
    BY <1>22, <1>u, <2>1, <2>2, <2>3
  <2>4. CASE init' = "pending" /\ (chain' = Append(chain, "init") \/ chain' = Append(chain, "suffix"))
    BY <1>a, <1>n, <2>1, <2>2, <2>4 DEF Ops
  <2>. QED BY <1>22, <2>3, <2>4 DEF Publishes
<1>23. CASE Evicts
  BY <1>23, <1>u DEF Evicts, EntryRemoved, record, calls
<1>24. ASSUME NEW c \in Flushers, FlushRefused(c) PROVE Chain'
  BY <1>24, <1>u DEF FlushRefused, record, calls, resumes, entry
<1>. HIDE DEF Keeps
<1>. QED BY <1>1, <1>2, <1>3, <1>4, <1>5, <1>6, <1>7, <1>8, <1>9, <1>10, <1>11, <1>12, <1>13,
            <1>14, <1>15,
            <1>16, <1>17, <1>18, <1>19, <1>20, <1>21, <1>22, <1>23, <1>24
         DEF Next, Chained, Calls, Resume, Drives, Flushers

-----------------------------------------------------------------------------
(* The entry and the logs in memory *)

\* Every step keeps the id's entry to one reservation, and to no live session.
LEMMA EntryStep == ASSUME Typed, Controlled, Ready, Chain, Entry, Next, Typed' PROVE Entry'
<1>. DEFINE C == {"commit"}
<1>c. chain \in Seq(Ops) /\ chain' \in Seq(Ops) /\ resume \in [Resumers -> {"no", "waiting", "committing", "held", "over"}]
  BY DEF Typed
<1>. HIDE DEF C
<1>a. ASSUME NEW op \in Ops, chain' = Append(chain, op) PROVE Queues(chain', C) <=> Queues(chain, C) \/ op = "commit"
  BY <1>a, <1>c, ChainAppends DEF C
<1>t. ASSUME chain # <<>>, chain' = Tail(chain), Head(chain) # "commit", Queues(chain, C) PROVE Queues(chain', C)
  BY <1>c, <1>t, ChainTail DEF C
<1>u. ASSUME UNCHANGED <<phase, own, resume>>, phase # "none" => session' = session,
             Queues(chain, C) => Queues(chain', C)
      PROVE  Entry'
  BY <1>u DEF Entry, Committing, C
<1>r. ASSUME phase' = "none", own' = {}, \A r \in Resumers : resume'[r] = "committing" => resume[r] = "committing",
             Queues(chain, C) => Queues(chain', C)
      PROVE  Entry'
  BY <1>r DEF Entry, Committing, C
<1>h. /\ phase # "none" => session = "none"
      /\ \A r \in own : /\ phase # "none"
                        /\ resume[r] = "committing" => phase = "committing"
                        /\ resume[r] = "held" => phase = "reserved"
      /\ \A r, s \in own : resume[r] = "held" /\ resume[s] = "held" => r = s
      /\ \A r, s \in Resumers : resume[r] = "committing" /\ resume[s] = "committing" => r = s
      /\ \A r \in Resumers : resume[r] = "committing" => Queues(chain, C) /\ phase \notin {"ready", "reserved"}
      /\ own \subseteq Resumers
  BY DEF Entry, Committing, Typed, C
<1>g. ASSUME phase' # "none" => session' = "none",
             \A r \in own' : /\ phase' # "none"
                             /\ resume'[r] = "committing" => phase' = "committing"
                             /\ resume'[r] = "held" => phase' = "reserved",
             \A r, s \in own' : resume'[r] = "held" /\ resume'[s] = "held" => r = s,
             \A r, s \in Resumers : resume'[r] = "committing" /\ resume'[s] = "committing" => r = s,
             \A r \in Resumers : resume'[r] = "committing" => Queues(chain', C) /\ phase' \notin {"ready", "reserved"}
      PROVE  Entry'
  BY <1>g DEF Entry, Committing, C
<1>i. ASSUME NEW events, InitFor(events) PROVE Queues(chain, C) => Queues(chain', C)
  BY <1>i, <1>a DEF InitFor, Ops
<1>1. CASE Drives
  BY <1>1, <1>u, DriveSettles DEF life, resumes, entry
<1>2. CASE Created \/ UserFlush
  BY <1>2, <1>u, <1>i DEF Created, UserFlush, life, resumes, entry
<1>3. CASE Emit
  <2>1. Queues(chain, C) => Queues(chain', C)
    BY <1>3, <1>i DEF Emit
  <2>. QED BY <1>3, <1>u, <2>1 DEF Emit, resumes, entry
<1>4. CASE WriteQueues \/ RetireQueues \/ Trim
  <2>1. Queues(chain, C) => Queues(chain', C)
    BY <1>4, <1>a DEF WriteQueues, RetireQueues, Trim, Ops
  <2>. QED BY <1>4, <1>u, <2>1 DEF WriteQueues, RetireQueues, Trim, life, resumes, entry
<1>5. CASE WriteSettles \/ Retire \/ TeardownBegins \/ \E c \in Flushers : FlushRefused(c)
  BY <1>5, <1>u DEF WriteSettles, Retire, TeardownBegins, FlushRefused, life, resumes, entry, Entry
<1>6. CASE Initializes \/ StoresSuffix \/ StoresBatch \/ TrimGivesUp
  <2>1. Queues(chain, C) => Queues(chain', C)
    BY <1>6, <1>t DEF Initializes, StoresSuffix, StoresBatch, TrimGivesUp, Running, OpEnds
  <2>. QED BY <1>6, <1>u, <2>1 DEF Initializes, StoresSuffix, StoresBatch, TrimGivesUp, life,
              resumes, entry
<1>7. CASE Retires
  <2>1. Queues(chain, C) => Queues(chain', C)
    BY <1>7, <1>t DEF Retires, Running, OpEnds
  <2>2. phase = "none"
    BY <1>7, RunningQueued DEF Retires, Chain, Ready, Entry
  <2>. QED BY <1>7, <1>u, <2>1, <2>2 DEF Retires, resumes, entry
<1>8. ASSUME NEW cut \in 1..MaxLog, TrimCuts(cut) PROVE Entry'
  <2>1. Queues(chain, C) => Queues(chain', C)
    BY <1>8, <1>t DEF TrimCuts, Running, OpEnds
  <2>. QED BY <1>8, <1>u, <1>r, <2>1 DEF TrimCuts, Invalidates, EntryRemoved, life, entry
<1>9. CASE TeardownEnds \/ Crash
  <2>1. phase' = "none" /\ own' = {} /\ \A r \in Resumers : resume'[r] # "committing"
    BY <1>9, <1>c DEF TeardownEnds, Crash, EntryRemoved
  <2>. QED BY <2>1 DEF Entry, Committing
<1>10. CASE Reload
  BY <1>10, <1>u, <1>i DEF Reload, resumes, entry
<1>p. ASSUME EntryFor
      PROVE  /\ Queues(chain, C) => Queues(chain', C)
             /\ phase' = IF phase = "none" THEN "loading" ELSE phase
  BY <1>p, <1>a DEF EntryFor, Ops
<1>11. CASE Inspects
  BY <1>11, <1>p, <1>g, <1>h DEF Inspects, Absent, life
<1>12. ASSUME NEW r \in Resumers, Reserves(r) PROVE Entry'
  <2>1. /\ Queues(chain, C) => Queues(chain', C)
        /\ phase' = IF phase = "none" THEN "loading" ELSE phase
        /\ session' = "none" /\ own' = own \cup {r}
        /\ \A s \in Resumers : resume'[s] = IF s = r THEN "waiting" ELSE resume[s]
    BY <1>12, <1>p, <1>c DEF Reserves, Absent, life
  <2>. QED BY <1>g, <1>h, <2>1
<1>13. ASSUME NEW r \in Resumers, ReserveRefused(r) PROVE Entry'
  <2>1. /\ UNCHANGED <<session, chain, phase, own>>
        /\ \A s \in Resumers : resume'[s] = IF s = r THEN "over" ELSE resume[s]
    BY <1>13, <1>c DEF ReserveRefused, life, entry
  <2>. QED BY <1>g, <1>h, <2>1
<1>14. CASE Prepares
  <2>1. Queues(chain, C) => Queues(chain', C)
    BY <1>14, <1>t DEF Prepares, Running, OpEnds
  <2>2. Committing = {}
    <3>1. chain # <<>> /\ Head(chain) \in AfterCommit
      BY <1>14 DEF Prepares, Running, AfterCommit
    <3>2. ~Queues(chain, C)
      BY <1>c, <3>1, ChainTail DEF Chain, C
    <3>. QED BY <3>2 DEF Entry, C
  <2>3. UNCHANGED session
    BY <1>14 DEF Prepares, life
  <2>4. CASE UNCHANGED <<entry, resume>>
    BY <1>u, <2>1, <2>3, <2>4 DEF entry
  <2>5. CASE phase = "loading" /\ phase' = "ready" /\ UNCHANGED <<own, resume>>
    BY <2>2, <2>3, <2>5 DEF Entry, Committing
  <2>6. CASE EntryRemoved /\ resume' = [r \in Resumers |-> IF r \in own THEN "over" ELSE resume[r]]
    <3>1. \A r \in Resumers : resume'[r] = "committing" => resume[r] = "committing"
      BY <2>6
    <3>. QED BY <1>r, <2>1, <2>6, <3>1 DEF EntryRemoved
  <2>. QED BY <1>14, <2>4, <2>5, <2>6 DEF Prepares
<1>15. ASSUME NEW r \in Resumers, TakesReady(r) PROVE Entry'
  <2>1. /\ Queues(chain', C) /\ phase = "ready" /\ phase' = "committing" /\ UNCHANGED <<session, own>> /\ r \in own
        /\ \A s \in Resumers : resume'[s] = IF s = r THEN "committing" ELSE resume[s]
    BY <1>15, <1>a, <1>c DEF TakesReady, Waiting, Ops, life
  <2>. QED BY <1>g, <1>h, <2>1
<1>16. ASSUME NEW r \in Resumers, Commits(r) PROVE Entry'
  <2>1. Committing = {r} /\ UNCHANGED session
    BY <1>16 DEF Commits, Entry, Committing, life
  <2>2. \A s \in Resumers : resume'[s] # "committing" /\ (s # r => resume'[s] = resume[s])
    BY <1>16, <1>c, <2>1 DEF Commits, CommitRetries, CommitFails, CommitSucceeds, Committing
  <2>3. CASE EntryRemoved
    BY <2>2, <2>3 DEF EntryRemoved, Entry, Committing
  <2>4. CASE UNCHANGED entry /\ r \notin own
    BY <1>g, <1>h, <2>1, <2>2, <2>4 DEF entry
  <2>5. CASE r \in own /\ phase' = "reserved" /\ UNCHANGED own
    BY <1>16, <1>g, <1>h, <2>1, <2>2, <2>5 DEF Commits
  <2>6. CASE r \in own /\ phase' = "ready" /\ own' = own \ {r}
    BY <1>16, <1>g, <1>h, <2>1, <2>2, <2>6 DEF Commits
  <2>. QED BY <1>16, <2>3, <2>4, <2>5, <2>6 DEF Commits, CommitRetries, CommitFails,
              CommitSucceeds, RemovesOwn
<1>17. ASSUME NEW r \in Resumers, ResumeAborts(r) PROVE Entry'
  <2>1. UNCHANGED session /\ \A s \in Resumers : resume'[s] = IF s = r THEN "over" ELSE resume[s]
    BY <1>17, <1>c DEF ResumeAborts, life
  <2>2. CASE resume[r] = "waiting" /\ own' = own \ {r} /\ UNCHANGED <<chain, phase>>
    BY <1>g, <1>h, <2>1, <2>2
  <2>3. CASE resume[r] = "committing" /\ RemovesOwn(r)
    <3>1. \A s \in Resumers : resume'[s] # "committing"
      BY <1>h, <2>1, <2>3
    <3>2. CASE EntryRemoved
      BY <1>g, <3>1, <3>2 DEF EntryRemoved
    <3>3. CASE UNCHANGED entry /\ r \notin own
      BY <1>g, <1>h, <2>1, <3>1, <3>3 DEF entry
    <3>. QED BY <2>3, <3>2, <3>3 DEF RemovesOwn
  <2>. QED BY <1>17, <2>2, <2>3 DEF ResumeAborts
<1>18. ASSUME NEW r \in Resumers, Releases(r) \/ PublishRefused(r) PROVE Entry'
  <2>1. /\ UNCHANGED <<session, chain>> /\ resume[r] = "held"
        /\ \A s \in Resumers : resume'[s] = IF s = r THEN "over" ELSE resume[s]
    BY <1>18, <1>c DEF Releases, PublishRefused, life
  <2>2. CASE RemovesOwn(r)
    <3>1. CASE EntryRemoved
      BY <1>g, <1>h, <2>1, <3>1 DEF EntryRemoved
    <3>2. CASE UNCHANGED entry /\ r \notin own
      BY <1>g, <1>h, <2>1, <3>2 DEF entry
    <3>. QED BY <2>2, <3>1, <3>2 DEF RemovesOwn
  <2>3. CASE r \in own /\ phase' = "ready" /\ own' = own \ {r}
    <3>1. \A s \in own : resume[s] = "held" => s = r
      BY <1>h, <2>1, <2>3
    <3>. QED BY <1>g, <1>h, <2>1, <2>3, <3>1
  <2>. QED BY <1>18, <2>2, <2>3 DEF Releases, PublishRefused
<1>19. ASSUME NEW r \in Resumers, Publishes(r) PROVE Entry'
  <2>1. Queues(chain, C) => Queues(chain', C)
    BY <1>19, <1>a DEF Publishes, Ops
  <2>2. \A s \in Resumers : resume'[s] = IF s = r THEN "over" ELSE resume[s]
    BY <1>19, <1>c DEF Publishes
  <2>3. phase' = "none" /\ own' = {}
    BY <1>19 DEF Publishes, RemovesOwn, EntryRemoved, entry, Entry
  <2>. QED BY <1>r, <2>1, <2>2, <2>3
<1>20. CASE Evicts
  BY <1>20, <1>r DEF Evicts, EntryRemoved
<1>. QED BY <1>1, <1>2, <1>3, <1>4, <1>5, <1>6, <1>7, <1>8, <1>9, <1>10, <1>11, <1>12, <1>13,
            <1>14, <1>15,
            <1>16, <1>17, <1>18, <1>19, <1>20
         DEF Next, Chained, Calls, Resume, Drives, Flushers

\* Every step keeps the logs in memory legal.
LEMMA GrammarStep == ASSUME Typed, Controlled, Grammar, Durable, Next PROVE Grammar'
<1>e. <<>> \in Logs /\ Len(<<>>) = 0 /\ Legal(<<>>) /\ ~Open(<<>>) /\ 0 <= MaxLog /\ IsPrefix(<<>>, <<>>)
  <2>1. <<>> \in Logs /\ Len(<<>>) = 0
    BY EmptySeq DEF Logs
  <2>2. Legal(<<>>)
    BY DEF Legal
  <2>3. ~Open(<<>>)
    BY DEF Open
  <2>. QED BY <2>1, <2>2, <2>3, PrefixItself, BoundsAssumption
<1>p. \A s \in Logs : IsPrefix(s, s) /\ IsPrefix(<<>>, s)
  BY PrefixItself
<1>u. ASSUME UNCHANGED <<log, source, draft, resume>>, seed' = seed \/ seed' = log \/ seed' = <<>> PROVE Grammar'
  BY <1>e, <1>p, <1>u DEF Grammar
<1>d. ASSUME UNCHANGED <<log, seed>> \/ (log' = <<>> /\ seed' = <<>>) \/ (UNCHANGED log /\ seed' = <<>>),
             UNCHANGED source \/ source' = <<>>,
             draft' \in [Resumers -> Logs],
             \A r \in Resumers : draft'[r] = <<>> \/ (draft'[r] = draft[r] /\ (resume'[r] = "held" => resume[r] = "held"))
      PROVE  Grammar'
  BY <1>e, <1>p, <1>d DEF Grammar
<1>x. ASSUME NEW r \in Resumers, draft' = [draft EXCEPT ![r] = <<>>]
      PROVE  /\ draft' \in [Resumers -> Logs]
             /\ \A s \in Resumers : draft'[s] = IF s = r THEN <<>> ELSE draft[s]
  BY <1>e, <1>x DEF Grammar
<1>i. ASSUME NEW events, InitFor(events) PROVE seed' = seed \/ seed' = events
  BY <1>i DEF InitFor
<1>1. CASE Drives
  BY <1>1, <1>u, DriveSettles DEF life, record, resumes, entry
<1>2. CASE Created \/ UserFlush
  BY <1>2, <1>u, <1>i DEF Created, UserFlush, life, resumes, entry
<1>3. CASE Emit
  <2>1. seed' = seed \/ seed' = log'
    BY <1>3, <1>i DEF Emit
  <2>. QED BY <1>3, <1>p, <2>1, EmitGrows DEF Emit, resumes, entry, Grammar
<1>4. CASE \/ WriteQueues \/ RetireQueues \/ Trim \/ WriteSettles \/ Retire \/ TeardownBegins
           \/ \E c \in Flushers : FlushRefused(c)
  BY <1>4, <1>u DEF WriteQueues, RetireQueues, Trim, WriteSettles, Retire, TeardownBegins,
     FlushRefused,
                    life, record, resumes, entry
<1>5. CASE Initializes \/ StoresSuffix \/ StoresBatch \/ TrimGivesUp
  BY <1>5, <1>u DEF Initializes, StoresSuffix, StoresBatch, TrimGivesUp, life, record, resumes,
     entry
<1>6. CASE Retires
  BY <1>6, <1>d DEF Retires, resumes, entry, Grammar
<1>7. ASSUME NEW cut \in 1..MaxLog, TrimCuts(cut) PROVE Grammar'
  BY <1>7, <1>d DEF TrimCuts, Invalidates, EntryRemoved, life, entry, Grammar
<1>8. CASE TeardownEnds
  <2>1. \A r \in Resumers : draft'[r] = IF resume[r] = "held" THEN draft[r] ELSE <<>>
    BY <1>8 DEF TeardownEnds
  <2>2. draft' \in [Resumers -> Logs]
    BY <1>8, <1>e DEF TeardownEnds, Grammar
  <2>. QED BY <1>8, <1>d, <2>1, <2>2 DEF TeardownEnds, EntryRemoved
<1>9. CASE Crash
  BY <1>9, <1>d, <1>e DEF Crash, EntryRemoved
<1>10. CASE Reload
  BY <1>10, <1>u, <1>i DEF Reload, resumes, entry
<1>11. CASE Inspects
  BY <1>11, <1>u DEF Inspects, life, record
<1>12. ASSUME NEW r \in Resumers, Reserves(r) \/ ReserveRefused(r) PROVE Grammar'
  <2>1. \A s \in Resumers : resume'[s] = "held" => resume[s] = "held"
    BY <1>12 DEF Reserves, ReserveRefused, Typed
  <2>. QED BY <1>12, <1>d, <2>1 DEF Reserves, ReserveRefused, life, record, entry, Grammar
<1>13. CASE Prepares
  <2>1. \A s \in Resumers : resume'[s] = "held" => resume[s] = "held"
    BY <1>13 DEF Prepares
  <2>2. UNCHANGED <<log, seed, draft>>
    BY <1>13 DEF Prepares, life, record
  <2>3. UNCHANGED source \/ source' = <<>> \/ (source' = stored /\ Legal(stored))
    BY <1>13 DEF Prepares, Preparable, EntryRemoved, entry
  <2>. QED BY <1>e, <2>1, <2>2, <2>3 DEF Grammar, Durable
<1>14. ASSUME NEW r \in Resumers, TakesReady(r) PROVE Grammar'
  <2>1. /\ UNCHANGED <<log, seed, source>> /\ draft' \in [Resumers -> Logs]
        /\ \A s \in Resumers : draft'[s] = IF s = r THEN source ELSE draft[s]
        /\ \A s \in Resumers : resume'[s] = IF s = r THEN "committing" ELSE resume[s]
    BY <1>14 DEF TakesReady, life, record, Grammar, Typed
  <2>. QED BY <2>1 DEF Grammar
<1>15. ASSUME NEW r \in Resumers, Commits(r) PROVE Grammar'
  <2>1. UNCHANGED <<log, seed>> /\ (UNCHANGED source \/ source' = <<>>)
    BY <1>15 DEF Commits, CommitRetries, CommitFails, CommitSucceeds, RemovesOwn, EntryRemoved,
       entry, life
  <2>2. \A s \in Resumers : s # r => resume'[s] = resume[s]
    BY <1>15 DEF Commits, CommitRetries, CommitFails, CommitSucceeds, Typed
  <2>3. CASE draft' = [draft EXCEPT ![r] = <<>>]
    BY <1>d, <1>x, <2>1, <2>2, <2>3
  <2>4. CASE UNCHANGED draft /\ stored = draft[r] /\ ~Open(stored)
    BY <1>e, <2>1, <2>2, <2>4 DEF Grammar
  <2>. QED BY <1>15, <2>3, <2>4 DEF Commits, CommitRetries, CommitFails, CommitSucceeds
<1>16. ASSUME NEW r \in Resumers, ResumeAborts(r) \/ Releases(r) \/ PublishRefused(r) PROVE Grammar'
  <2>1. /\ UNCHANGED <<log, seed>> /\ (UNCHANGED source \/ source' = <<>>)
        /\ resume' = [resume EXCEPT ![r] = "over"] /\ draft' = [draft EXCEPT ![r] = <<>>]
    BY <1>16 DEF ResumeAborts, Releases, PublishRefused, RemovesOwn, EntryRemoved, entry, life,
       record
  <2>2. \A s \in Resumers : resume'[s] = "held" => resume[s] = "held"
    BY <2>1 DEF Typed
  <2>. QED BY <1>d, <1>x, <2>1, <2>2
<1>17. ASSUME NEW r \in Resumers, Publishes(r) PROVE Grammar'
  <2>1. /\ log' \in {draft[r], Append(draft[r], "start")} /\ Len(log') <= MaxLog /\ seed' = log'
        /\ (UNCHANGED source \/ source' = <<>>)
        /\ resume' = [resume EXCEPT ![r] = "over"] /\ draft' = [draft EXCEPT ![r] = <<>>] /\ resume[r] = "held"
    BY <1>17 DEF Publishes, RemovesOwn, EntryRemoved, entry
  <2>2. log' \in Logs /\ Legal(log')
    BY <2>1, LegalAppends DEF Grammar
  <2>3. \A s \in Resumers : resume'[s] = "held" => resume[s] = "held"
    BY <2>1 DEF Typed
  <2>. QED BY <1>e, <1>p, <1>x, <2>1, <2>2, <2>3 DEF Grammar
<1>18. CASE Evicts
  BY <1>18, <1>d DEF Evicts, EntryRemoved, life, record, Grammar
<1>. QED BY <1>1, <1>2, <1>3, <1>4, <1>5, <1>6, <1>7, <1>8, <1>9, <1>10, <1>11, <1>12, <1>13,
            <1>14, <1>15,
            <1>16, <1>17, <1>18
         DEF Next, Chained, Calls, Resume, Drives, Flushers

-----------------------------------------------------------------------------
(* The stored log and the cursor *)

\* What an append adopts is a log, and the cursor a position in one.
LEMMA AdoptedTyped ==
    ASSUME Durable
    PROVE  /\ Adopted \in Logs /\ Base \in Nat /\ Cursor \in Nat /\ Tracked \in Nat /\ Len(stored) \in Nat
           /\ None \notin Nat
<1>1. Repaired(stored) \in Logs /\ stored \in Logs
  BY AppendProperties DEF Durable, Repaired, Logs
<1>2. Len(stored) \in Nat /\ Len(Repaired(stored)) \in Nat /\ None \notin Nat
  BY <1>1, LenProperties DEF Logs, None
<1>. QED BY <1>1, <1>2 DEF Adopted, Base, Cursor, Tracked, Durable

\* Unless a trim has cut it, it is a stored log, and the cursor its length.
LEMMA AdoptedIs ==
    ASSUME Durable, Store, ~stale
    PROVE  /\ Storable(Adopted) /\ Base = Len(Adopted)
           /\ state # None => Adopted = stored /\ state = Len(stored) /\ Cursor = Len(stored)
           /\ Cursor <= Base /\ Tracked = Len(stored)
<1>1. Storable(stored) /\ (state = None \/ state = Len(stored))
  BY DEF Store
<1>2. Storable(Repaired(stored))
  BY <1>1, RepairIsStorable
<1>3. Len(stored) \in Nat /\ Len(Repaired(stored)) \in Nat
  BY <1>1, <1>2, LenProperties DEF Storable, Logs
<1>. QED BY <1>1, <1>2, <1>3 DEF Adopted, Base, Cursor, Tracked

\* Initialization leaves the seed stored.
LEMMA SeedStored ==
    ASSUME Grammar, Durable, Store, ~stale, Covers
    PROVE  stored \o Rest = seed /\ Storable(seed)
<1>1. Tracked = Len(stored) /\ stored \in Logs /\ seed \in Logs
  BY AdoptedIs DEF Durable, Grammar
<1>2. SubSeq(stored, 1, Len(stored)) = stored
  BY <1>1, SubSeqFull DEF Logs
<1>3. stored \o Rest = seed
  BY <1>1, <1>2, PrefixAndRest DEF Covers, Rest
<1>. QED BY <1>3, PrefixIsLegal, LenProperties, BoundsAssumption DEF Grammar, Storable, Logs

\* The positions the next append stores: what the batch holds beyond the cursor.
LEMMA FreshIs ==
    ASSUME Typed, Grammar, Durable, Queue
    PROVE  /\ Fresh \in Positions
           /\ \E end \in Int :
                 /\ Consecutive(Fresh, end) /\ end <= Len(log)
                 /\ Serving => end = Len(log) - Len(pending)
                 /\ Fresh = <<>> => Len(batch) = 0 \/ end <= Cursor
<1>t. /\ pending \in Positions /\ batch \in Positions
      /\ Len(pending) \in Nat /\ Len(batch) \in Nat /\ Len(log) \in Nat
  BY LenProperties DEF Typed, WB!TypeOK, Positions, Grammar, Logs
<1>1. PICK last \in 0..Len(log) : Consecutive(batch, last - Len(pending)) /\ (Serving => last = Len(log))
  BY DEF Queue
<1>2. last - Len(pending) \in Int /\ last - Len(pending) <= Len(log) /\ Cursor \in Nat
  BY <1>t, AdoptedTyped
<1>3. /\ Fresh \in Positions /\ Consecutive(Fresh, last - Len(pending))
      /\ Len(Fresh) = IF last - Len(pending) <= Cursor THEN 0
                      ELSE IF (last - Len(pending)) - Cursor <= Len(batch) THEN (last - Len(pending)) - Cursor
                      ELSE Len(batch)
  BY <1>t, <1>1, <1>2, BeyondIs DEF Fresh
<1>4. Fresh = <<>> => Len(batch) = 0 \/ last - Len(pending) <= Cursor
  <2>1. SUFFICES ASSUME Fresh = <<>>, ~(last - Len(pending) <= Cursor) PROVE Len(batch) = 0
    OBVIOUS
  <2>2. Len(Fresh) = 0
    BY <2>1, EmptySeq
  <2>. QED BY <1>t, <1>2, <1>3, <2>1, <2>2
<1>. QED BY <1>1, <1>2, <1>3, <1>4

\* They are positions of events in the session's log.
LEMMA EventsTyped ==
    ASSUME Typed, Grammar, Durable, Queue
    PROVE  Events(Fresh) \in Logs
<1>1. PICK end \in Int : Consecutive(Fresh, end) /\ end <= Len(log) /\ Fresh \in Positions
  BY FreshIs
<1>. DEFINE n == Len(Fresh)  l == Len(log)
<1>2. /\ n \in Nat /\ DOMAIN Fresh = 1..n /\ l \in Nat /\ DOMAIN log = 1..l
      /\ \A i \in 1..n : Fresh[i] \in Nat /\ Fresh[i] >= 1 /\ Fresh[i] + n = end + i
      /\ \A i \in 1..l : log[i] \in {"start", "end", "closer"}
  BY <1>1, LenProperties, ElementOfSeq, BoundsAssumption DEF Positions, Grammar, Logs, Consecutive
<1>3. \A i \in 1..n : Fresh[i] \in 1..l
  <2>1. SUFFICES ASSUME NEW i \in 1..n PROVE Fresh[i] \in 1..l
    OBVIOUS
  <2>. DEFINE x == Fresh[i]
  <2>2. x \in Nat /\ x >= 1 /\ x + n = end + i /\ n \in Nat /\ l \in Nat /\ end \in Int /\ end <= l /\ i <= n
    BY <1>1, <1>2, <2>1
  <2>. HIDE DEF x, n, l
  <2>3. x \in 1..l
    BY <2>2
  <2>. QED BY <2>3 DEF x
<1>4. Events(Fresh) = [i \in 1..n |-> log[Fresh[i]]]
  BY <1>2 DEF Events
<1>. HIDE DEF n, l
<1>. QED BY <1>2, <1>3, <1>4 DEF Logs

\* An append that follows what is stored copies the next events of the log.
LEMMA AppendFollows ==
    ASSUME Typed, Grammar, Durable, Store, Queue, ~stale, Fresh # <<>>, Follows,
           NEW stored1, stored1 = Adopted \o Events(Fresh)
    PROVE  /\ Storable(stored1) /\ Len(stored1) = Base + Len(Fresh) /\ Len(stored1) <= Len(log)
           /\ Serving => Len(stored1) + Len(pending) = Len(log)
           /\ IsPrefix(Adopted, log) => IsPrefix(stored1, log)
<1>1. PICK end \in Int : /\ Consecutive(Fresh, end) /\ end <= Len(log)
                         /\ Serving => end = Len(log) - Len(pending)
  BY FreshIs
<1>. DEFINE n == Len(Fresh)  b == Len(Adopted)  l == Len(log)  added == Events(Fresh)
<1>2. /\ Fresh \in Positions /\ n \in Nat /\ n # 0 /\ DOMAIN Fresh = 1..n
      /\ \A i \in 1..n : Fresh[i] \in Nat
      /\ l \in Nat /\ DOMAIN log = 1..l /\ Len(pending) \in Nat
      /\ b \in Nat /\ DOMAIN Adopted = 1..b /\ Base = b
      /\ Adopted \in Logs /\ Legal(Adopted) /\ log \in Logs /\ Legal(log)
      /\ \A i \in 1..l : log[i] \in {"start", "end", "closer"}
  <2>1. Fresh \in Positions /\ Storable(Adopted) /\ Base = b
    BY FreshIs, AdoptedIs
  <2>2. n \in Nat /\ n # 0 /\ DOMAIN Fresh = 1..n /\ \A i \in 1..n : Fresh[i] \in Nat
    BY <2>1, LenProperties, EmptySeq, ElementOfSeq, BoundsAssumption DEF Positions
  <2>3. l \in Nat /\ DOMAIN log = 1..l /\ \A i \in 1..l : log[i] \in {"start", "end", "closer"}
    BY LenProperties, ElementOfSeq DEF Grammar, Logs
  <2>. QED BY <2>1, <2>2, <2>3, LenProperties DEF Grammar, Logs, Storable, Typed, WB!TypeOK
<1>3. \A i \in 1..n : Fresh[i] + n = end + i
  BY <1>1, <1>2 DEF Consecutive
<1>4. end = b + n /\ b + n <= l
  <2>1. Head(Fresh) = Fresh[1]
    OBVIOUS
  <2>2. 1 \in 1..n
    BY <1>2
  <2>3. Fresh[1] = b + 1
    BY <1>2, <2>1 DEF Follows
  <2>4. (b + 1) + n = end + 1
    BY <1>3, <2>2, <2>3
  <2>5. end <= l /\ end \in Int /\ n \in Nat /\ b \in Nat /\ l \in Nat
    BY <1>1, <1>2
  <2>. HIDE DEF n, b, l
  <2>. QED BY <2>4, <2>5
<1>5. \A i \in 1..n : Fresh[i] = b + i /\ b + i \in 1..l
  <2>1. SUFFICES ASSUME NEW i \in 1..n PROVE Fresh[i] = b + i /\ b + i \in 1..l
    OBVIOUS
  <2>. DEFINE x == Fresh[i]
  <2>2. x + n = (b + n) + i /\ x \in Nat /\ n \in Nat /\ b \in Nat /\ l \in Nat /\ b + n <= l
    BY <1>2, <1>3, <1>4
  <2>. HIDE DEF x, n, b, l
  <2>3. x = b + i /\ b + i \in 1..l
    BY <2>2
  <2>. QED BY <2>3 DEF x
<1>6. added = [i \in 1..n |-> log[b + i]]
  BY <1>2, <1>5 DEF Events
<1>7. added \in Logs /\ Len(added) = n
  BY <1>2, <1>5, <1>6 DEF Logs
<1>. HIDE DEF added, n, b, l
<1>8. /\ stored1 \in Logs /\ Len(stored1) = b + n
      /\ \A i \in 1..(b + n) : stored1[i] = IF i <= b THEN Adopted[i] ELSE added[i - b]
  BY <1>2, <1>7, ConcatProperties DEF Logs, added, b
<1>9. \A i \in (b + 1)..(b + n) : stored1[i] = log[i]
  <2>1. SUFFICES ASSUME NEW i \in (b + 1)..(b + n) PROVE stored1[i] = log[i]
    OBVIOUS
  <2>2. i - b \in 1..n /\ b + (i - b) = i /\ i \in 1..(b + n) /\ ~(i <= b)
    BY <1>2
  <2>. QED BY <1>6, <1>8, <2>2
<1>10. \A i \in 1..(b + n) : stored1[i] = (IF i <= b THEN Adopted[i] ELSE log[i]) /\ i \in 1..l /\ (i <= b => i \in 1..b)
  <2>1. \A i \in 1..(b + n) : i \in 1..l /\ (i <= b => i \in 1..b) /\ (~(i <= b) => i \in (b + 1)..(b + n))
    BY <1>2, <1>4
  <2>. QED BY <1>8, <1>9, <2>1
<1>11. DOMAIN stored1 = 1..(b + n)
  BY <1>8, LenProperties DEF Logs
<1>12. Legal(stored1)
  BY <1>2, <1>10, <1>11 DEF Legal, l
<1>13. b + n <= MaxLog /\ Len(stored1) <= l
  BY <1>2, <1>4, <1>8, BoundsAssumption DEF Grammar, l
<1>14. ASSUME IsPrefix(Adopted, log) PROVE IsPrefix(stored1, log)
  <2>1. \A i \in 1..b : Adopted[i] = log[i]
    BY <1>2, <1>14, PrefixIs DEF b
  <2>2. \A i \in 1..Len(stored1) : stored1[i] = log[i]
    BY <1>8, <1>10, <2>1
  <2>. QED BY <1>2, <1>8, <1>13, <2>2, PrefixIs DEF l
<1>15. Serving => Len(stored1) + Len(pending) = Len(log)
  BY <1>1, <1>2, <1>4, <1>8 DEF l
<1>. QED BY <1>2, <1>8, <1>12, <1>13, <1>14, <1>15 DEF Storable, n, b, l

\* So does the append of a reserved session's suffix.
LEMMA SuffixAppends ==
    ASSUME Typed, Grammar, Durable, Store, ~stale, SuffixFollows
    PROVE  /\ Storable(Append(Adopted, Last(seed))) /\ Len(Append(Adopted, Last(seed))) = Len(seed)
           /\ Len(seed) = Base + 1 /\ Last(seed) = seed[Len(seed)] /\ Last(seed) \in {"start", "end", "closer"}
<1>1. /\ seed \in Logs /\ Legal(seed) /\ Len(seed) <= MaxLog /\ Len(seed) \in Nat /\ DOMAIN seed = 1..Len(seed)
  <2>1. seed \in Logs /\ Legal(seed) /\ Len(seed) <= Len(log)
    BY PrefixIsLegal DEF Grammar
  <2>2. Len(seed) \in Nat /\ DOMAIN seed = 1..Len(seed) /\ Len(log) \in Nat
    BY <2>1, LenProperties DEF Logs, Grammar
  <2>. QED BY <2>1, <2>2, BoundsAssumption DEF Grammar
<1>2. Storable(Adopted) /\ Base = Len(Adopted) /\ Base \in Nat /\ Len(seed) = Base + 1
  BY AdoptedIs, AdoptedTyped DEF SuffixFollows
<1>3. Len(seed) \in 1..Len(seed) /\ Last(seed) = seed[Len(seed)]
  BY <1>1, <1>2 DEF Last
<1>4. Last(seed) \in {"start", "end", "closer"}
  BY <1>1, <1>3, ElementOfSeq DEF Logs
<1>5. Open(Adopted) <=> Len(Adopted) % 2 = 1
  BY <1>2, OpenIsOdd DEF Storable
<1>6. (Last(seed) = "start") <=> Len(seed) % 2 = 1
  BY <1>1, <1>3 DEF Legal
<1>7. (Last(seed) = "start") <=> ~Open(Adopted)
  BY <1>2, <1>5, <1>6
<1>8. /\ Append(Adopted, Last(seed)) \in Logs /\ Legal(Append(Adopted, Last(seed)))
      /\ Len(Append(Adopted, Last(seed))) = Len(Adopted) + 1
  BY <1>2, <1>4, <1>7, LegalAppends DEF Storable
<1>. QED BY <1>1, <1>2, <1>3, <1>4, <1>8 DEF Storable

\* So is whatever a crash may find stored.
LEMMA InFlightStorable ==
    ASSUME Typed, Grammar, Durable, Store, Queue, ~stale, NEW whole \in InFlight
    PROVE  Storable(whole)
<1>1. Covers => Storable(stored \o Rest)
  BY SeedStored
<1>2. Storable(Repaired(stored)) /\ Storable(Adopted)
  BY AdoptedIs, RepairIsStorable DEF Store
<1>. QED BY <1>1, <1>2, SuffixAppends, AppendFollows DEF InFlight

\* The rest of the seed and the end of a suffix are logs.
LEMMA SeedTyped ==
    ASSUME Grammar, Durable
    PROVE  Rest \in Logs /\ (SuffixFollows => Append(Adopted, Last(seed)) \in Logs)
<1>1. seed \in Logs /\ Len(seed) \in Nat /\ Tracked \in Nat /\ Adopted \in Logs /\ Base \in Nat
  BY AdoptedTyped, LenProperties DEF Grammar, Logs
<1>2. \A i \in 1..Len(seed) : seed[i] \in {"start", "end", "closer"}
  BY <1>1, ElementOfSeq DEF Logs
<1>3. Rest \in Logs
  <2>1. \A i \in (Tracked + 1)..Len(seed) : seed[i] \in {"start", "end", "closer"}
    BY <1>1, <1>2
  <2>. QED BY <1>1, <2>1, SubSeqProperties DEF Rest, Logs
<1>4. ASSUME SuffixFollows PROVE Append(Adopted, Last(seed)) \in Logs
  <2>1. Len(seed) \in 1..Len(seed) /\ Last(seed) = seed[Len(seed)]
    BY <1>1, <1>4 DEF Last, SuffixFollows
  <2>. QED BY <1>1, <1>2, <2>1, AppendProperties DEF Logs
<1>. QED BY <1>3, <1>4

\* Every step stores a log and leaves a cursor or none.
LEMMA DurableStep == ASSUME Typed, Controlled, Grammar, Queue, Durable, Next PROVE Durable'
<1>t. /\ Adopted \in Logs /\ Base \in Nat /\ Tracked \in Nat /\ Repaired(stored) \in Logs /\ Len(stored) \in Nat
      /\ Events(Fresh) \in Logs /\ Rest \in Logs /\ stored \in Logs /\ seed \in Logs
      /\ Len(seed) \in Nat /\ Len(Fresh) \in Nat
  BY AdoptedTyped, EventsTyped, SeedTyped, FreshIs, AppendProperties, LenProperties
     DEF Durable, Grammar, Repaired, Logs, Positions
<1>c. \A a, b \in Logs : a \o b \in Logs
  BY ConcatProperties DEF Logs
<1>k. ASSUME NEW whole \in Logs, NEW n \in Nat, n <= Len(whole) PROVE SubSeq(whole, 1, n) \in Logs
  <2>1. Len(whole) \in Nat /\ \A i \in 1..Len(whole) : whole[i] \in {"start", "end", "closer"}
    BY LenProperties, ElementOfSeq DEF Logs
  <2>2. \A i \in 1..n : whole[i] \in {"start", "end", "closer"}
    BY <1>k, <2>1
  <2>. QED BY <2>1, <2>2, SubSeqProperties DEF Logs
<1>u. ASSUME UNCHANGED stored, UNCHANGED state \/ state' = None PROVE Durable'
  BY <1>u DEF Durable
<1>1. CASE Drives
  BY <1>1, <1>u, DriveSettles DEF record
<1>2. CASE \/ Created \/ UserFlush \/ Emit \/ WriteQueues \/ WriteSettles \/ RetireQueues \/ Trim \/ Retire
           \/ TeardownBegins \/ TrimGivesUp \/ Reload \/ Retires \/ TeardownEnds \/ Inspects \/ Prepares
           \/ Evicts \/ \E c \in Flushers : FlushRefused(c)
  BY <1>2, <1>u DEF Created, UserFlush, Emit, WriteQueues, WriteSettles, RetireQueues, Trim, Retire,
     TeardownBegins, TrimGivesUp, Reload, Retires, TeardownEnds, Inspects, Prepares, Evicts, FlushRefused,
     record, resumes
<1>3. CASE Initializes
  BY <1>3, <1>t, <1>c DEF Initializes, Durable
<1>4. CASE StoresSuffix
  <2>1. stored' \in {stored, Adopted} \/ (SuffixFollows /\ stored' = Append(Adopted, Last(seed)))
    BY <1>4 DEF StoresSuffix, AdoptionFails
  <2>2. state' \in {state, Base, Base + 1}
    BY <1>4 DEF StoresSuffix, AdoptionFails
  <2>3. stored' \in Logs
    BY <1>t, <2>1, SeedTyped
  <2>. QED BY <1>t, <2>2, <2>3 DEF Durable
<1>5. CASE StoresBatch
  <2>1. stored' \in {stored, Adopted, Adopted \o Events(Fresh)} /\ state' \in {state, Base, Base + Len(Fresh)}
    BY <1>5 DEF StoresBatch, AdoptionFails
  <2>2. Adopted \o Events(Fresh) \in Logs
    BY <1>t, <1>c
  <2>3. stored' \in Logs
    BY <1>t, <2>1, <2>2
  <2>4. state' \in Nat \cup {None}
    BY <1>t, <2>1 DEF Durable
  <2>. QED BY <2>3, <2>4 DEF Durable
<1>6. ASSUME NEW cut \in 1..MaxLog, TrimCuts(cut) PROVE Durable'
  <2>1. cut \in Nat
    BY BoundsAssumption
  <2>. QED BY <1>6, <1>t, <1>k, <2>1 DEF TrimCuts, DropsCursor, Durable
<1>7. CASE Crash
  <2>1. ASSUME NEW whole \in InFlight PROVE whole \in Logs
    BY <1>t, <1>c, <2>1, SeedTyped DEF InFlight
  <2>2. \A n \in Len(stored)..MaxLog : n \in Nat
    BY <1>t, BoundsAssumption
  <2>3. stored' \in Logs
    BY <1>7, <1>t, <1>k, <2>1, <2>2 DEF Crash
  <2>. QED BY <1>7, <2>3 DEF Crash, Durable
<1>8. ASSUME NEW r \in Resumers,
             \/ Reserves(r) \/ ReserveRefused(r) \/ TakesReady(r) \/ Releases(r)
             \/ PublishRefused(r) \/ ResumeAborts(r) \/ Publishes(r)
      PROVE  Durable'
  BY <1>8, <1>u DEF Reserves, ReserveRefused, TakesReady, Releases, PublishRefused, ResumeAborts, Publishes,
     record
<1>9. ASSUME NEW r \in Resumers, Commits(r) PROVE Durable'
  BY <1>9, <1>t DEF Commits, CommitRetries, CommitFails, CommitSucceeds, Durable
<1>. QED BY <1>1, <1>2, <1>3, <1>4, <1>5, <1>6, <1>7, <1>8, <1>9
         DEF Next, Chained, Calls, Resume, Drives, Flushers

\* A log a trim has cut under a loaded session stays one.
LEMMA StaleStays == ASSUME Typed, Controlled, stale, Next PROVE stale'
<1>. USE DEF Typed
<1>1. CASE Drives
  BY <1>1, DriveSettles
<1>2. CASE \/ Created \/ UserFlush \/ Emit \/ WriteQueues \/ WriteSettles \/ RetireQueues \/ Trim \/ Retire
           \/ TeardownBegins \/ TrimGivesUp \/ Reload \/ Retires \/ TeardownEnds \/ Inspects \/ Prepares
           \/ Evicts \/ Initializes \/ StoresSuffix \/ StoresBatch \/ Crash
           \/ (\E c \in Flushers : FlushRefused(c)) \/ \E cut \in 1..MaxLog : TrimCuts(cut)
  BY <1>2 DEF Created, UserFlush, Emit, WriteQueues, WriteSettles, RetireQueues, Trim, Retire,
     TeardownBegins, TrimGivesUp, Reload, Retires, TeardownEnds, Inspects, Prepares, Evicts, FlushRefused,
     Initializes, StoresSuffix, StoresBatch, Crash, TrimCuts
<1>3. ASSUME NEW r \in Resumers,
             \/ Reserves(r) \/ ReserveRefused(r) \/ TakesReady(r) \/ Releases(r)
             \/ PublishRefused(r) \/ ResumeAborts(r) \/ Publishes(r) \/ Commits(r)
      PROVE  stale'
  BY <1>3 DEF Reserves, ReserveRefused, TakesReady, Releases, PublishRefused, ResumeAborts, Publishes, Commits
<1>. QED BY <1>1, <1>2, <1>3 DEF Next, Chained, Calls, Resume, Drives, Flushers

\* Every step keeps the stored log legal, the cursor its length, and a reservation
\* equal to it.
LEMMA StoreStep ==
    ASSUME Typed, Controlled, Queue, Ready, Chain, Entry, Grammar, Durable, Store, Agree, Next, Typed', Entry'
    PROVE  Store'
<1>z. SUFFICES ASSUME ~stale PROVE Store'
  BY StaleStays DEF Store
<1>h. /\ \A r \in own : resume[r] = "held" =>
            draft[r] = stored /\ state = Len(stored) /\ \A s \in own : resume[s] = "held" => s = r
      /\ (session = "none" \/ \E r \in Resumers : resume[r] = "committing") /\ state # None => ~Open(stored)
      /\ Storable(stored) /\ (state = None \/ state = Len(stored)) /\ Len(stored) # None
  BY <1>z, AdoptedTyped DEF Store, Reserved, Committing
<1>g. ASSUME \A r \in own' : resume'[r] = "held" =>
                 draft'[r] = stored' /\ state' = Len(stored') /\ \A s \in own' : resume'[s] = "held" => s = r,
             (session' = "none" \/ \E r \in Resumers : resume'[r] = "committing") /\ state' # None => ~Open(stored'),
             Storable(stored'), state' = None \/ state' = Len(stored')
      PROVE  Store'
  BY <1>g DEF Store, Reserved, Committing
<1>u. ASSUME UNCHANGED <<stored, state>>,
             \A r \in own' : resume'[r] = "held" => r \in own /\ resume[r] = "held" /\ draft'[r] = draft[r],
             session' = "none" => session = "none",
             \A r \in Resumers : resume'[r] = "committing" => session = "none" \/ resume[r] = "committing"
      PROVE  Store'
  BY <1>g, <1>h, <1>u
<1>n. ASSUME state' = None, Storable(stored'), \A r \in own' : resume'[r] # "held" PROVE Store'
  BY <1>g, <1>n
<1>v. ASSUME UNCHANGED <<stored, state, own, resume, draft>>, session' = "none" => session = "none" PROVE Store'
  BY <1>u, <1>v DEF Typed
\* The operations of a live session run when nobody reserves or commits.
<1>l. ASSUME session # "none", UNCHANGED <<session, own, resume>>, Running("init") \/ Running("suffix") \/ Running("write"),
             Storable(stored'), state' = None \/ state' = Len(stored')
      PROVE  Store'
  <2>1. own = {}
    BY <1>l DEF Entry
  <2>2. \A r \in Resumers : resume[r] # "committing"
    <3>1. chain # <<>> /\ Head(chain) \in AfterCommit
      BY <1>l DEF Running, AfterCommit
    <3>2. ~Queues(chain, {"commit"})
      BY <3>1, ChainTail DEF Chain, Typed
    <3>. QED BY <3>2 DEF Entry, Committing
  <2>. QED BY <1>g, <1>l, <2>1, <2>2
<1>s. Running("init") \/ Running("suffix") \/ Running("write") => session # "none"
  BY RunningQueued DEF Chain, Ready, Starters, Queues
<1>1. CASE Drives
  BY <1>1, <1>v, DriveSettles DEF life, record, resumes, entry
<1>2. CASE \/ Created \/ UserFlush \/ Emit \/ WriteQueues \/ WriteSettles \/ RetireQueues \/ Trim \/ Retire
           \/ TeardownBegins \/ TrimGivesUp \/ Reload \/ \E c \in Flushers : FlushRefused(c)
  <2>1. UNCHANGED <<stored, state, own, resume, draft>> /\ (session' = "none" => session = "none")
    BY <1>2 DEF Created, UserFlush, Emit, WriteQueues, WriteSettles, RetireQueues, Trim, Retire,
                TeardownBegins, TrimGivesUp, Reload, FlushRefused, life, record, resumes, entry
  <2>. QED BY <1>v, <2>1
<1>3. CASE Initializes
  <2>1. Covers => Storable(stored \o Rest) /\ Len(stored \o Rest) = Len(seed) /\ Tracked = Len(stored)
    BY <1>z, SeedStored, AdoptedIs
  <2>2. Storable(stored') /\ (state' = None \/ state' = Len(stored'))
    BY <1>3, <1>h, <2>1 DEF Initializes
  <2>. QED BY <1>3, <1>l, <1>s, <2>2 DEF Initializes, life, resumes, entry
<1>4. CASE StoresSuffix
  <2>1. Storable(stored') /\ (state' = None \/ state' = Len(stored'))
    BY <1>4, <1>h, <1>z, AdoptedIs, SuffixAppends DEF StoresSuffix, AdoptionFails
  <2>. QED BY <1>4, <1>l, <1>s, <2>1 DEF StoresSuffix, life, resumes, entry
<1>5. CASE StoresBatch
  <2>1. Storable(stored') /\ (state' = None \/ state' = Len(stored'))
    BY <1>5, <1>h, <1>z, AdoptedIs, AppendFollows DEF StoresBatch, AdoptionFails
  <2>. QED BY <1>5, <1>l, <1>s, <2>1 DEF StoresBatch, life, resumes, entry
<1>6. CASE Retires
  <2>1. own = {}
    BY <1>6, RunningQueued DEF Retires, Chain, Ready, Entry
  <2>2. owned
    BY <1>6, <1>z, RunningQueued DEF Retires, Chain, Ready, Agree
  <2>. QED BY <1>6, <1>h, <1>n, <2>1, <2>2 DEF Retires, resumes, entry
<1>7. ASSUME NEW cut \in 1..MaxLog, TrimCuts(cut) PROVE Store'
  <2>1. CASE cut <= Len(stored) /\ stored' = SubSeq(stored, 1, cut) /\ DropsCursor /\ Invalidates
    <3>1. Storable(stored')
      BY <1>h, <2>1, PrefixIsStorable, BoundsAssumption
    <3>. QED BY <1>n, <2>1, <3>1 DEF DropsCursor, Invalidates, EntryRemoved
  <2>2. CASE UNCHANGED <<stored, stale, state, owned, entry>>
    BY <1>7, <1>v, <2>2 DEF TrimCuts, life, entry
  <2>. QED BY <1>7, <2>1, <2>2 DEF TrimCuts
<1>8. CASE TeardownEnds
  BY <1>8, <1>h, <1>n DEF TeardownEnds, EntryRemoved
<1>9. CASE Crash
  <2>1. Storable(stored')
    <3>1. CASE UNCHANGED stored
      BY <1>h, <3>1
    <3>2. CASE \E whole \in InFlight, n \in Len(stored)..MaxLog : n <= Len(whole) /\ stored' = SubSeq(whole, 1, n)
      <4>1. PICK whole \in InFlight, n \in Len(stored)..MaxLog : n <= Len(whole) /\ stored' = SubSeq(whole, 1, n)
        BY <3>2
      <4>2. Storable(whole) /\ n \in Nat
        BY <1>z, InFlightStorable, AdoptedTyped, BoundsAssumption
      <4>. QED BY <4>1, <4>2, PrefixIsStorable
    <3>. QED BY <1>9, <3>1, <3>2 DEF Crash
  <2>. QED BY <1>9, <1>n, <2>1 DEF Crash, EntryRemoved
<1>10. CASE Inspects
  BY <1>10, <1>v DEF Inspects, life, record
<1>11. ASSUME NEW r \in Resumers, Reserves(r) \/ ReserveRefused(r) PROVE Store'
  <2>1. /\ UNCHANGED <<stored, state, draft, session>> /\ own' \subseteq own \cup {r}
        /\ resume'[r] \in {"waiting", "over"} /\ \A s \in Resumers : s # r => resume'[s] = resume[s]
    BY <1>11 DEF Reserves, ReserveRefused, Typed, life, record, entry
  <2>. QED BY <1>u, <2>1 DEF Typed
<1>12. CASE Prepares
  <2>1. /\ UNCHANGED <<stored, state, draft, session>> /\ own' \subseteq own
        /\ \A s \in Resumers : resume'[s] = resume[s] \/ resume'[s] = "over"
    BY <1>12 DEF Prepares, EntryRemoved, Typed, life, record, entry
  <2>. QED BY <1>u, <2>1 DEF Typed
<1>13. ASSUME NEW r \in Resumers, TakesReady(r) PROVE Store'
  <2>1. /\ UNCHANGED <<stored, state, session, own>> /\ session = "none"
        /\ resume'[r] = "committing" /\ \A s \in Resumers : s # r => resume'[s] = resume[s] /\ draft'[s] = draft[s]
    BY <1>13 DEF TakesReady, Typed, Grammar, Entry, life, record
  <2>. QED BY <1>u, <2>1 DEF Typed
<1>14. ASSUME NEW r \in Resumers, Commits(r) PROVE Store'
  <2>1. UNCHANGED session /\ resume[r] = "committing"
    BY <1>14 DEF Commits, life
  <2>2. ASSUME UNCHANGED <<stored, state>>, RemovesOwn(r), resume'[r] \in {"waiting", "over"},
               resume' = [resume EXCEPT ![r] = resume'[r]], draft' = [draft EXCEPT ![r] = <<>>]
        PROVE  Store'
    <3>1. /\ own' \subseteq own
          /\ \A s \in Resumers : s # r => resume'[s] = resume[s] /\ draft'[s] = draft[s]
      BY <2>2 DEF RemovesOwn, EntryRemoved, entry, Typed, Grammar
    <3>. QED BY <1>u, <2>1, <2>2, <3>1 DEF Typed
  <2>3. CASE CommitFails(r)
    BY <2>2, <2>3 DEF CommitFails, Typed
  <2>4. CASE CommitRetries(r)
    <3>1. CASE UNCHANGED stored
      BY <2>2, <2>4, <3>1 DEF CommitRetries, Typed
    <3>2. CASE stored = draft[r] /\ Open(stored) /\ stored' = Repaired(stored)
      <4>1. state = None /\ Storable(stored')
        BY <1>h, <2>1, <3>2, RepairIsStorable
      <4>2. own' \subseteq own /\ \A s \in Resumers : s # r => resume'[s] = resume[s]
        BY <2>4 DEF CommitRetries, RemovesOwn, EntryRemoved, entry, Typed
      <4>3. \A s \in own' : resume'[s] # "held"
        BY <1>h, <2>4, <4>1, <4>2 DEF CommitRetries, Typed
      <4>. QED BY <1>n, <2>4, <4>1, <4>3 DEF CommitRetries
    <3>. QED BY <2>4, <3>1, <3>2 DEF CommitRetries
  <2>5. CASE CommitSucceeds(r)
    <3>1. /\ stored = draft[r] /\ ~Open(stored) /\ state' = Len(stored) /\ UNCHANGED stored /\ own' \subseteq own
          /\ \A s \in Resumers : s # r => resume'[s] = resume[s] /\ draft'[s] = draft[s]
          /\ resume'[r] = "held" => r \in own /\ draft'[r] = draft[r]
          /\ resume'[r] # "committing"
      BY <2>5 DEF CommitSucceeds, entry, Typed, Grammar
    <3>2. \A s \in own' : resume'[s] = "held" =>
              draft'[s] = stored' /\ state' = Len(stored') /\ \A t \in own' : resume'[t] = "held" => t = s
      <4>1. r \in own => \A s \in own : resume[s] # "held"
        BY <2>1 DEF Entry
      <4>. QED BY <1>h, <3>1, <4>1 DEF Typed
    <3>. QED BY <1>g, <1>h, <3>1, <3>2
  <2>. QED BY <1>14, <2>3, <2>4, <2>5 DEF Commits
<1>15. ASSUME NEW r \in Resumers, ResumeAborts(r) \/ Releases(r) \/ PublishRefused(r) PROVE Store'
  <2>1. /\ UNCHANGED <<stored, state, session>> /\ own' \subseteq own /\ resume'[r] = "over"
        /\ \A s \in Resumers : s # r => resume'[s] = resume[s] /\ draft'[s] = draft[s]
    BY <1>15 DEF ResumeAborts, Releases, PublishRefused, RemovesOwn, EntryRemoved, entry, Typed,
       Grammar, life, record
  <2>. QED BY <1>u, <2>1 DEF Typed
<1>16. ASSUME NEW r \in Resumers, Publishes(r) PROVE Store'
  <2>1. /\ UNCHANGED <<stored, state>> /\ session' = "live" /\ own' \subseteq own /\ resume'[r] = "over"
        /\ \A s \in Resumers : s # r => resume'[s] = resume[s] /\ draft'[s] = draft[s]
    BY <1>16 DEF Publishes, RemovesOwn, EntryRemoved, entry, Typed, Grammar
  <2>. QED BY <1>u, <2>1 DEF Typed
<1>17. CASE Evicts
  BY <1>17, <1>u DEF Evicts, EntryRemoved, life, record
<1>. QED BY <1>1, <1>2, <1>3, <1>4, <1>5, <1>6, <1>7, <1>8, <1>9, <1>10, <1>11, <1>12, <1>13,
            <1>14, <1>15,
            <1>16, <1>17
         DEF Next, Chained, Calls, Resume, Drives, Flushers

-----------------------------------------------------------------------------
(* The stored log and the session's *)

\* Every step keeps the session's log equal to what is stored and what is queued.
LEMMA AgreeStep ==
    ASSUME Typed, Controlled, Queue, Ready, Chain, Entry, Grammar, Durable, Store, Agree, Next, Typed', Grammar'
    PROVE  Agree'
<1>. DEFINE S == {"suffix"}
<1>t. /\ chain \in Seq(Ops) /\ pending \in Positions /\ batch \in Positions /\ Len(pending) \in Nat /\ Len(batch) \in Nat
      /\ Len(log) \in Nat /\ Len(seed) \in Nat /\ Len(stored) \in Nat
      /\ seed \in Logs /\ log \in Logs /\ stored \in Logs
      /\ Len(log') \in Nat /\ Unstored \in Nat /\ None \notin Nat
  <2>1. chain \in Seq(Ops) /\ pending \in Positions /\ batch \in Positions
    BY DEF Typed, WB!TypeOK, Positions
  <2>2. seed \in Logs /\ log \in Logs /\ stored \in Logs /\ log' \in Logs
    BY DEF Grammar, Durable
  <2>3. Len(pending) \in Nat /\ Len(batch) \in Nat
    BY <2>1, LenProperties DEF Positions
  <2>4. Len(log) \in Nat /\ Len(seed) \in Nat /\ Len(stored) \in Nat /\ Len(log') \in Nat
    BY <2>2, LenProperties DEF Logs
  <2>5. Unstored \in Nat /\ None \notin Nat
    BY <2>3, AdoptedTyped DEF Unstored
  <2>. QED BY <2>1, <2>2, <2>3, <2>4, <2>5
<1>m. Len(pending') \in Nat /\ Len(batch') \in Nat /\ Unstored' \in Nat
  BY LenProperties DEF Typed, WB!TypeOK, Unstored
<1>0. Len(<<>>) = 0
  BY EmptySeq
<1>h. ~stale =>
        /\ init = "ok" => state # None /\ owned
        /\ Queues(chain, S) => state # None /\ owned /\ seed # <<>> /\ stored = SubSeq(seed, 1, Len(seed) - 1)
        /\ Serving /\ init = "ok" => IsPrefix(stored, log) /\ Len(log) <= Len(stored) + Unstored
        /\ Serving /\ init = "pending" => Len(log) <= Len(seed) + Unstored
  BY DEF Agree, Position
<1>g. ASSUME ~stale' =>
               /\ init' = "ok" => state' # None /\ owned'
               /\ Queues(chain', S) => state' # None /\ owned' /\ seed' # <<>> /\ stored' = SubSeq(seed', 1, Len(seed') - 1)
               /\ Serving' /\ init' = "ok" => IsPrefix(stored', log') /\ Len(log') <= Len(stored') + Unstored'
               /\ Serving' /\ init' = "pending" => Len(log') <= Len(seed') + Unstored'
      PROVE  Agree'
  BY <1>g DEF Agree, Position
<1>. HIDE DEF S
<1>n. init # "pending" => ~Queues(chain, S)
  BY DEF Chain, Queues, Starters, S
<1>a. ASSUME NEW op \in Ops, chain' = Append(chain, op) PROVE Queues(chain', S) <=> Queues(chain, S) \/ op = "suffix"
  BY <1>a, <1>t, ChainAppends DEF S
<1>k. ASSUME chain # <<>>, chain' = Tail(chain), Queues(chain', S) PROVE Queues(chain, S)
  BY <1>k, <1>t, ChainTail, ChainThins DEF S
<1>u. ASSUME UNCHANGED <<log, init, seed, state, owned, stored>>, Queues(chain', S) => Queues(chain, S),
             Serving' => Serving, Unstored' = Unstored, ~stale' => ~stale
      PROVE  Agree'
  BY <1>g, <1>h, <1>u
<1>q. UNCHANGED <<pending, batch, request>> => Unstored' = Unstored
  BY DEF Unstored
<1>x. ASSUME init' \notin {"pending", "ok"}, ~Queues(chain', S) PROVE Agree'
  BY <1>g, <1>x
<1>i. ASSUME init = "none", InitFor(log), UNCHANGED log PROVE Agree'
  <2>1. init' = "pending" /\ seed' = log' /\ ~Queues(chain', S)
    BY <1>a, <1>i, <1>n DEF InitFor, Ops
  <2>. QED BY <1>g, <1>m, <1>t, <2>1
<1>j. ASSUME InitFor(log), UNCHANGED <<log, state, owned, stored>>, Serving' => Serving, Unstored' = Unstored, ~stale' => ~stale
      PROVE  Agree'
  <2>1. CASE init = "none"
    BY <1>i, <1>j, <2>1
  <2>2. CASE init # "none"
    BY <1>j, <1>u, <2>2 DEF InitFor
  <2>. QED BY <2>1, <2>2
<1>1. CASE Drives
  <2>1. UNCHANGED <<session, log, plugin, init, seed, state, owned, chain, stored, stale>> /\ (Starts \/ Rests)
    BY <1>1, DriveSettles DEF Driven, life, record
  <2>2. Unstored' = Unstored
    <3>1. CASE Rests
      BY <3>1 DEF Rests, Unstored
    <3>2. CASE Starts
      <4>1. Len(batch) = 0 /\ Len(pending') = 0 /\ Len(batch') = Len(pending) /\ request # "resolved" /\ request' # "resolved"
        BY <1>0, <3>2 DEF Starts, Controlled
      <4>. QED BY <1>t, <4>1 DEF Unstored
    <3>. QED BY <2>1, <3>1, <3>2
  <2>. QED BY <1>u, <2>1, <2>2 DEF Serving
<1>2. CASE Created \/ UserFlush
  <2>1. UNCHANGED <<pending, batch, request, log, state, owned, stored, stale, session, plugin>> /\ InitFor(log)
    BY <1>2 DEF Created, UserFlush, controller, life, WB!CancelAutomaticWait, WB!queueVars,
       WB!writeVars
  <2>. QED BY <1>j, <1>q, <2>1 DEF Serving
<1>3. CASE Emit
  <2>1. /\ Len(log') = Len(log) + 1 /\ (\A s \in Logs : IsPrefix(s, log) => IsPrefix(s, log'))
        /\ SeqOfLast(log') \in 1..MaxLog
    BY <1>3, EmitGrows
  <2>2. UNCHANGED <<session, plugin, state, owned, stored, stale>> /\ session = "live"
    BY <1>3 DEF Emit
  <2>3. CASE plugin = "up"
    <3>1. /\ WB!Enqueue(SeqOfLast(log')) /\ Carries /\ Serving
      BY <1>3, <2>2, <2>3 DEF Emit, Serving
    <3>2. /\ Len(pending') = Len(pending) + 1 /\ UNCHANGED <<batch, writing>>
      BY <2>1, <3>1, EnqueueFills DEF WB!Enqueue, WB!writeVars, Typed, WB!TypeOK
    <3>3. request' = "resolved" <=> request = "resolved"
      BY <3>1, <3>2 DEF Carries, Controlled
    <3>4. Unstored' = Unstored + 1
      <4>1. Unstored' = (IF request' = "resolved" THEN 0 ELSE Len(batch')) + Len(pending')
        BY DEF Unstored
      <4>2. Unstored' = (IF request = "resolved" THEN 0 ELSE Len(batch)) + (Len(pending) + 1)
        BY <3>2, <3>3, <4>1
      <4>. DEFINE x == IF request = "resolved" THEN 0 ELSE Len(batch)
                  y == Len(pending)
      <4>3. x \in Nat /\ y \in Nat /\ Unstored' = x + (y + 1) /\ Unstored = x + y
        BY <1>t, <4>2 DEF Unstored
      <4>. HIDE DEF x, y
      <4>. QED BY <4>3
    <3>5. CASE init = "none"
      <4>1. init' = "pending" /\ seed' = log' /\ ~Queues(chain', S)
        BY <1>3, <1>a, <1>n, <2>3, <3>5 DEF Emit, InitFor, Ops
      <4>. QED BY <1>g, <1>m, <1>t, <4>1
    <3>6. CASE init # "none"
      <4>1. UNCHANGED <<init, seed, chain>>
        BY <1>3, <2>3, <3>6 DEF Emit, InitFor
      <4>. QED BY <1>g, <1>h, <1>t, <2>1, <2>2, <3>1, <3>4, <4>1
    <3>. QED BY <3>5, <3>6
  <2>4. CASE plugin # "up"
    <3>1. UNCHANGED <<init, seed, chain>> /\ ~Serving'
      BY <1>3, <2>2, <2>4 DEF Emit, Serving
    <3>. QED BY <1>g, <1>h, <2>2, <3>1
  <2>. QED BY <2>3, <2>4
<1>4. CASE WriteQueues
  <2>1. request = "calling" /\ request' \in {"queued", "rejected"} /\ UNCHANGED <<pending, batch>>
    BY <1>4 DEF WriteQueues, controller
  <2>2. Queues(chain', S) => Queues(chain, S)
    BY <1>4, <1>a DEF WriteQueues, Ops
  <2>3. Unstored' = Unstored
    BY <2>1 DEF Unstored
  <2>. QED BY <1>4, <1>u, <2>2, <2>3 DEF WriteQueues, life, record, Serving
<1>5. CASE WriteSettles
  <2>1. ASSUME request = "resolved", WB!WriteSucceeds PROVE Unstored' = Unstored
    <3>1. UNCHANGED pending /\ batch' = <<>> /\ request' = "none"
      BY <1>5, <2>1 DEF WriteSettles, WB!WriteSucceeds, WB!queueVars, Carries
    <3>. QED BY <1>0, <1>t, <2>1, <3>1 DEF Unstored
  <2>2. ASSUME request = "rejected", WB!WriteFails PROVE Unstored' = Unstored
    <3>1. pending' = batch \o pending /\ batch' = <<>> /\ request' = "none"
      BY <1>5, <2>2 DEF WriteSettles, WB!WriteFails, WB!Retained, Carries
    <3>2. Len(pending') = Len(batch) + Len(pending)
      BY <1>t, <3>1, ConcatProperties DEF Positions
    <3>. QED BY <1>0, <1>t, <2>2, <3>1, <3>2 DEF Unstored
  <2>3. Unstored' = Unstored
    BY <1>5, <2>1, <2>2 DEF WriteSettles
  <2>. QED BY <1>5, <1>u, <2>3 DEF WriteSettles, life, record, Serving
<1>6. CASE Initializes
  <2>1. chain # <<>> /\ chain' = Tail(chain) /\ ~Queues(chain', S) /\ init = "pending"
    <3>1. chain # <<>> /\ chain' = Tail(chain) /\ Head(chain) \in Starters
      BY <1>6 DEF Initializes, Running, OpEnds, Starters
    <3>2. ~Queues(chain', Starters) /\ Queues(chain, Starters)
      BY <1>t, <3>1, ChainTail DEF Chain, Queues
    <3>. QED BY <3>1, <3>2 DEF Chain, Queues, Starters, S
  <2>2. CASE init' = "failed"
    BY <1>x, <2>1, <2>2
  <2>3. CASE Covers /\ stored' = stored \o Rest /\ state' = Len(seed) /\ owned' = TRUE /\ init' = "ok"
    <3>1. UNCHANGED <<session, plugin, log, stale>> /\ Unstored' = Unstored
      BY <1>6, <1>q DEF Initializes, life, controller
    <3>2. SUFFICES ASSUME ~stale PROVE Agree'
      BY <1>g, <3>1
    <3>3. stored' = seed /\ IsPrefix(seed, log)
      BY <2>3, <3>2, SeedStored DEF Grammar
    <3>4. state' # None /\ IsPrefix(stored', log') /\ (Serving' => Serving)
      BY <1>t, <2>3, <3>1, <3>3 DEF Serving
    <3>. QED BY <1>g, <1>h, <2>1, <2>3, <3>1, <3>2, <3>3, <3>4
  <2>. QED BY <1>6, <2>2, <2>3 DEF Initializes
<1>7. CASE StoresSuffix
  <2>1. /\ chain # <<>> /\ chain' = Tail(chain) /\ ~Queues(chain', S) /\ init = "pending" /\ Queues(chain, S)
    <3>1. chain # <<>> /\ chain' = Tail(chain) /\ Head(chain) = "suffix"
      BY <1>7 DEF StoresSuffix, Running, OpEnds
    <3>2. Once(chain, Starters) /\ Head(chain) \in Starters
      BY <3>1 DEF Chain, Starters
    <3>3. ~Queues(chain', Starters) /\ Queues(chain, S)
      BY <1>t, <3>1, <3>2, ChainTail DEF S
    <3>. QED BY <3>1, <3>3 DEF Chain, Queues, Starters, S
  <2>2. CASE init' = "failed"
    BY <1>x, <2>1, <2>2
  <2>3. CASE SuffixFollows /\ stored' = Append(Adopted, Last(seed)) /\ state' = Base + 1 /\ init' = "ok"
    <3>1. UNCHANGED <<session, plugin, log, owned, stale>> /\ Unstored' = Unstored
      BY <1>7, <1>q DEF StoresSuffix, life, controller
    <3>2. SUFFICES ASSUME ~stale PROVE Agree'
      BY <1>g, <3>1
    <3>3. stored' = seed
      <4>1. state # None /\ owned /\ seed # <<>> /\ stored = SubSeq(seed, 1, Len(seed) - 1)
        BY <1>h, <2>1, <3>2
      <4>2. Adopted = SubSeq(seed, 1, Len(seed) - 1)
        BY <3>2, <4>1, AdoptedIs
      <4>3. "start" \in {"start", "end", "closer"}
        OBVIOUS
      <4>. QED BY <1>t, <2>3, <4>1, <4>2, <4>3, FrontAndLast
    <3>4. state' # None /\ owned' /\ IsPrefix(stored', log') /\ (Serving' => Serving)
      <4>1. IsPrefix(seed, log) /\ Base + 1 \in Nat /\ owned
        BY <1>h, <2>1, <3>2, AdoptedTyped DEF Grammar
      <4>. QED BY <1>t, <2>3, <3>1, <3>3, <4>1 DEF Serving
    <3>. QED BY <1>g, <1>h, <2>1, <2>3, <3>1, <3>2, <3>3, <3>4
  <2>. QED BY <1>7, <2>2, <2>3 DEF StoresSuffix
<1>8. CASE StoresBatch
  <2>1. /\ chain # <<>> /\ chain' = Tail(chain) /\ request = "queued" /\ init = "ok"
        /\ UNCHANGED <<session, plugin, log, owned, stale, init, seed, batch, pending>>
    BY <1>8, RunningQueued DEF StoresBatch, Running, OpEnds, Chain, Ready, life, controller
  <2>2. SUFFICES ASSUME ~stale PROVE Agree'
    BY <1>g, <2>1
  <2>3. state # None /\ owned /\ Adopted = stored /\ Cursor = Len(stored) /\ Base = Len(stored)
    BY <1>h, <2>1, <2>2, AdoptedIs
  <2>4. ~Queues(chain', S)
    BY <1>k, <1>n, <2>1
  <2>5. Unstored = Len(batch) + Len(pending)
    BY <2>1 DEF Unstored
  <2>6. CASE Fresh = <<>> /\ request' = "resolved" /\ UNCHANGED <<stored, state>>
    <3>1. Unstored' = Len(pending)
      BY <1>t, <2>1, <2>6 DEF Unstored
    <3>2. Serving => Len(log) <= Len(stored) + Len(pending)
      <4>1. PICK end \in Int : /\ Serving => end = Len(log) - Len(pending)
                               /\ Len(batch) = 0 \/ end <= Cursor
        BY <2>6, FreshIs
      <4>2. Serving => Len(log) <= Len(stored) + Unstored
        BY <1>h, <2>1, <2>2
      <4>. QED BY <1>t, <2>3, <2>5, <4>1, <4>2
    <3>. QED BY <1>g, <1>h, <2>1, <2>2, <2>3, <2>4, <2>6, <3>1, <3>2 DEF Serving
  <2>7. CASE /\ Fresh # <<>> /\ Follows /\ request' = "resolved"
             /\ stored' = Adopted \o Events(Fresh) /\ state' = Base + Len(Fresh)
    <3>1. Unstored' = Len(pending)
      BY <1>t, <2>1, <2>7 DEF Unstored
    <3>2. /\ Len(stored') = Base + Len(Fresh) /\ Len(stored') <= Len(log)
          /\ Serving => Len(stored') + Len(pending) = Len(log)
          /\ IsPrefix(Adopted, log) => IsPrefix(stored', log)
      BY <2>2, <2>7, AppendFollows
    <3>3. state' # None
      BY <1>t, <2>7, <3>2, AdoptedTyped, FreshIs, LenProperties DEF Positions
    <3>. QED BY <1>g, <1>h, <1>t, <2>1, <2>2, <2>3, <2>4, <3>1, <3>2, <3>3 DEF Serving
  <2>8. CASE request' = "rejected" /\ stored' \in {stored, Adopted} /\ state' \in {state, Base}
    <3>1. Unstored' = Unstored
      BY <2>1, <2>5, <2>8 DEF Unstored
    <3>2. stored' = stored /\ state' # None
      BY <1>t, <2>3, <2>8
    <3>. QED BY <1>g, <1>h, <1>t, <2>1, <2>2, <2>3, <2>4, <2>8, <3>1, <3>2 DEF Serving
  <2>. QED BY <1>8, <2>6, <2>7, <2>8 DEF StoresBatch, AdoptionFails
<1>9. CASE Retire
  BY <1>9, <1>q, <1>u DEF Retire, record, Serving, WB!CancelAutomaticWait, WB!queueVars,
     WB!writeVars
<1>10. CASE RetireQueues \/ Trim
  <2>1. Queues(chain', S) => Queues(chain, S)
    BY <1>10, <1>a DEF RetireQueues, Trim, Ops
  <2>. QED BY <1>10, <1>q, <1>u, <2>1 DEF RetireQueues, Trim, life, record, controller, Serving
<1>11. CASE Retires
  <2>1. ~Queues(chain, S)
    BY <1>11, <1>n, RunningQueued DEF Retires, Chain, Ready
  <2>. QED BY <1>11, <1>k, <1>x, <2>1 DEF Retires, Running, OpEnds
<1>12. ASSUME NEW cut \in 1..MaxLog, TrimCuts(cut) PROVE Agree'
  <2>1. Queues(chain', S) => Queues(chain, S)
    BY <1>12, <1>k DEF TrimCuts, Running, OpEnds
  <2>2. CASE stale' = (stale \/ CutsUnderSession)
    <3>1. UNCHANGED <<session, plugin, log, init, seed>> /\ Unstored' = Unstored
          /\ chain # <<>> /\ chain' = Tail(chain)
      BY <1>12, <1>q DEF TrimCuts, life, controller, Running, OpEnds
    <3>2. SUFFICES ASSUME ~stale, init = "none" \/ Contains(chain', "init") PROVE Agree'
      BY <1>g, <2>2 DEF CutsUnderSession, Typed
    <3>3. init = "none" \/ (init = "pending" /\ ~Queues(chain, S))
      <4>1. SUFFICES ASSUME Contains(chain', "init") PROVE init = "pending" /\ ~Queues(chain, S)
        BY <3>2
      <4>2. Queues(chain', {"init"})
        BY <4>1 DEF Contains, Queues
      <4>3. Queues(chain, {"init"})
        BY <1>t, <3>1, <4>2, ChainTail, ChainThins
      <4>. QED BY <4>3 DEF Chain, Queues, Once, Starters, S
    <3>4. ~Queues(chain', S)
      BY <1>n, <2>1, <3>3
    <3>. QED BY <1>g, <1>h, <3>1, <3>2, <3>3, <3>4 DEF Serving
  <2>3. CASE UNCHANGED <<stored, stale, state, owned, entry>>
    BY <1>12, <1>q, <1>u, <2>1, <2>3 DEF TrimCuts, life, controller, Serving
  <2>. QED BY <1>12, <2>2, <2>3 DEF TrimCuts
<1>13. CASE TrimGivesUp
  <2>1. Queues(chain', S) => Queues(chain, S)
    BY <1>13, <1>k DEF TrimGivesUp, Running, OpEnds
  <2>. QED BY <1>13, <1>q, <1>u, <2>1 DEF TrimGivesUp, life, record, controller, Serving
<1>14. CASE TeardownBegins
  <2>1. UNCHANGED <<pending, batch>>
    BY <1>14 DEF TeardownBegins, controller, WB!CancelAutomaticWait, WB!queueVars, WB!writeVars
  <2>. QED BY <1>14, <1>q, <1>u, <2>1 DEF TeardownBegins, record, Serving
<1>15. CASE TeardownEnds \/ Crash
  <2>1. chain' = <<>> /\ init' = "none"
    BY <1>15 DEF TeardownEnds, Drained, Crash
  <2>. QED BY <1>x, <2>1 DEF Queues
<1>16. CASE Reload
  <2>1. init = "none"
    BY <1>16 DEF Reload, Ready
  <2>2. CASE session = "live"
    BY <1>16, <1>i, <2>1, <2>2 DEF Reload
  <2>3. CASE session # "live"
    BY <1>16, <1>n, <1>x, <2>1, <2>3 DEF Reload
  <2>. QED BY <2>2, <2>3
<1>17. CASE Inspects \/ \E r \in Resumers : Reserves(r)
  <2>1. Queues(chain', S) => Queues(chain, S)
    BY <1>17, <1>a DEF Inspects, Reserves, EntryFor, Ops
  <2>. QED BY <1>17, <1>q, <1>u, <2>1 DEF Inspects, Reserves, life, record, controller, Serving
<1>18. CASE Prepares
  <2>1. Queues(chain', S) => Queues(chain, S)
    BY <1>18, <1>k DEF Prepares, Running, OpEnds
  <2>. QED BY <1>18, <1>q, <1>u, <2>1 DEF Prepares, life, record, controller, Serving
<1>19. ASSUME NEW r \in Resumers,
              ReserveRefused(r) \/ Releases(r) \/ PublishRefused(r) \/ TakesReady(r) \/ ResumeAborts(r)
       PROVE  Agree'
  <2>1. Queues(chain', S) => Queues(chain, S)
    <3>1. CASE TakesReady(r)
      BY <1>a, <3>1 DEF TakesReady, Ops
    <3>2. CASE ResumeAborts(r)
      BY <1>t, <3>2, ChainRemoves, ChainThins DEF ResumeAborts
    <3>. QED BY <1>19, <3>1, <3>2 DEF ReserveRefused, Releases, PublishRefused
  <2>2. UNCHANGED <<controller, life, record, request, stored, stale>>
    BY <1>19 DEF ReserveRefused, Releases, PublishRefused, TakesReady, ResumeAborts
  <2>. QED BY <1>q, <1>u, <2>1, <2>2 DEF life, record, controller, Serving
<1>20. ASSUME NEW r \in Resumers, Commits(r) PROVE Agree'
  <2>1. /\ UNCHANGED <<session, log, plugin, init, seed, owned, stale, controller, request>> /\ resume[r] = "committing"
        /\ Queues(chain', S) => Queues(chain, S)
    BY <1>20, <1>k DEF Commits, Running, OpEnds, life
  <2>2. Unstored' = Unstored /\ (Serving' <=> Serving)
    BY <1>q, <2>1 DEF controller, Serving
  <2>3. ~stale /\ Open(stored) => state = None
    BY <2>1 DEF Store, Committing
  <2>4. CASE UNCHANGED stored /\ (UNCHANGED state \/ state' = Len(stored))
    BY <1>g, <1>h, <1>t, <2>1, <2>2, <2>4
  <2>5. CASE Open(stored) /\ UNCHANGED state
    BY <1>g, <1>h, <2>1, <2>2, <2>3, <2>5
  <2>. QED BY <1>20, <2>4, <2>5 DEF Commits, CommitRetries, CommitFails, CommitSucceeds
<1>21. ASSUME NEW r \in Resumers, Publishes(r) PROVE Agree'
  <2>1. /\ init = "none" /\ ~Queues(chain, S) /\ seed' = log' /\ UNCHANGED <<state, stored, stale>> /\ owned' = (r \in own)
        /\ resume[r] = "held" /\ draft[r] \in Logs /\ log' \in {draft[r], Append(draft[r], "start")}
    BY <1>21, <1>n DEF Publishes, Ready, Grammar
  <2>2. CASE init' = "pending" /\ chain' = Append(chain, "init")
    <3>1. ~Queues(chain', S)
      BY <1>a, <2>1, <2>2 DEF Ops
    <3>. QED BY <1>g, <1>m, <1>t, <2>1, <2>2, <3>1
  <2>3. ASSUME r \in own, ~stale PROVE stored = draft[r] /\ state = Len(stored) /\ state # None
    BY <1>t, <2>1, <2>3 DEF Store, Reserved
  <2>0. CASE stale
    BY <1>g, <2>0, <2>1
  <2>4. CASE ~stale /\ r \in own /\ log' = draft[r] /\ init' = "ok" /\ UNCHANGED chain
    <3>1. IsPrefix(stored', log') /\ Len(log') = Len(stored')
      BY <1>t, <2>1, <2>3, <2>4, PrefixItself
    <3>3. owned'
      BY <2>1, <2>4, Zenon
    <3>4. state' # None /\ ~stale
      BY <2>1, <2>3, <2>4
    <3>. QED BY <1>g, <1>m, <1>t, <2>1, <2>3, <2>4, <3>1, <3>3, <3>4
  <2>5. CASE ~stale /\ r \in own /\ log' # draft[r] /\ init' = "pending" /\ chain' = Append(chain, "suffix")
    <3>1. log' = Append(draft[r], "start") /\ "start" \in {"start", "end", "closer"}
      BY <2>1, <2>5
    <3>2. seed' # <<>> /\ stored' = SubSeq(seed', 1, Len(seed') - 1)
      BY <2>1, <2>3, <2>5, <3>1, FrontAndLast
    <3>3. owned'
      BY <2>1, <2>5, Zenon
    <3>4. state' # None /\ ~stale
      BY <2>1, <2>3, <2>5
    <3>. QED BY <1>g, <1>m, <1>t, <2>1, <2>3, <2>5, <3>2, <3>3, <3>4
  <2>. QED BY <1>21, <2>0, <2>2, <2>4, <2>5 DEF Publishes
<1>22. CASE Evicts
  BY <1>22, <1>q, <1>u DEF Evicts, life, record, controller, Serving
<1>23. ASSUME NEW c \in Flushers, FlushRefused(c) PROVE Agree'
  BY <1>23, <1>q, <1>u DEF FlushRefused, life, record, Serving
<1>. QED BY <1>1, <1>2, <1>3, <1>4, <1>5, <1>6, <1>7, <1>8, <1>9, <1>10, <1>11, <1>12, <1>13,
            <1>14, <1>15,
            <1>16, <1>17, <1>18, <1>19, <1>20, <1>21, <1>22, <1>23
         DEF Next, Chained, Calls, Resume, Drives, Flushers

-----------------------------------------------------------------------------
(* The theorems *)

\* A closed turn is a legal log.
LEMMA PairIsLegal ==
    ASSUME NEW e \in {"end", "closer"}
    PROVE  /\ <<"start", e>> \in Logs /\ Legal(<<"start", e>>) /\ ~Open(<<"start", e>>)
           /\ Len(<<"start", e>>) = 2
<1>. DEFINE s == <<"start", e>>
<1>1. s \in Logs /\ Len(s) = 2 /\ DOMAIN s = 1..2
  BY DEF Logs
<1>2. s[1] = "start" /\ s[2] = e /\ e # "start"
  OBVIOUS
<1>. HIDE DEF s
<1>3. 1 % 2 = 1 /\ 2 % 2 = 0 /\ \A i \in 1..2 : i = 1 \/ i = 2
  OBVIOUS
<1>4. Legal(s)
  BY <1>1, <1>2, <1>3 DEF Legal
<1>5. ~Open(s)
  BY <1>1, <1>2, <1>3, <1>4, OpenIsOdd
<1>. QED BY <1>1, <1>4, <1>5 DEF s

\* The invariant holds initially.
LEMMA IInvInit == ASSUME Init PROVE IInv
<1>e. <<>> \in Seq(1..MaxLog) /\ <<>> \in Seq(Ops) /\ <<>> \in Logs /\ Len(<<>>) = 0
  BY EmptySeq DEF Logs
<1>1. Typed
  BY <1>e DEF Init, Typed, WB!TypeOK, WB!Init, WB!Stages, WB!CallStates
<1>2. Controlled /\ Ready
  BY DEF Init, WB!Init, Controlled, Ready, Flushers, Caller
<1>3. Chain /\ Entry
  BY DEF Init, Chain, Entry, Committing, Queues, Once, Ordered
<1>4. \A s \in {<<>>, <<"start", "end">>, <<"start", "closer">>} :
          s \in Logs /\ Legal(s) /\ ~Open(s) /\ Len(s) \in {0, 2} /\ IsPrefix(<<>>, s)
  <2>1. <<>> \in Logs /\ Legal(<<>>) /\ ~Open(<<>>) /\ IsPrefix(<<>>, <<>>)
    BY <1>e, PrefixItself DEF Legal, Open
  <2>. QED BY <1>e, <2>1, PairIsLegal, PrefixItself
<1>5. Grammar
  <2>1. log \in Logs /\ Legal(log) /\ Len(log) \in {0, 2} /\ IsPrefix(<<>>, log)
    BY <1>4 DEF Init
  <2>2. Len(log) <= MaxLog
    BY <2>1, BoundsAssumption
  <2>. QED BY <1>e, <1>4, <2>1, <2>2 DEF Init, Grammar
<1>6. Durable /\ Store
  <2>1. stored \in Logs /\ Legal(stored) /\ ~Open(stored) /\ Len(stored) \in {0, 2}
    BY <1>4 DEF Init
  <2>2. Len(stored) <= MaxLog
    <3>1. Len(stored) = 0 \/ Len(stored) = 2
      BY <2>1
    <3>2. 0 <= MaxLog /\ 2 <= MaxLog
      BY BoundsAssumption
    <3>. QED BY <3>1, <3>2
  <2>3. Storable(stored)
    BY <2>1, <2>2 DEF Storable
  <2>. QED BY <2>1, <2>3 DEF Init, Durable, Store, Reserved, Committing
<1>7. Queue
  <2>1. Consecutive(<<>>, Len(log)) /\ Consecutive(<<>>, Len(log) - 0)
    BY DEF Consecutive
  <2>2. Len(log) \in Nat
    BY <1>5, LenProperties DEF Grammar, Logs
  <2>. QED BY <1>e, <2>1, <2>2 DEF Init, WB!Init, Queue
<1>8. Agree
  BY DEF Init, Agree, Queues
<1>. QED BY <1>1, <1>2, <1>3, <1>5, <1>6, <1>7, <1>8 DEF IInv

\* Every step keeps the invariant.
LEMMA IInvNext == ASSUME IInv, [Next]_vars PROVE IInv'
<1>1. CASE Next
  <2>1. Typed' /\ Controlled' /\ Grammar' /\ Ready'
    BY <1>1, TypedStep, ControlledStep, GrammarStep, ReadyStep DEF IInv
  <2>2. Queue' /\ Chain' /\ Entry'
    BY <1>1, <2>1, QueueStep, ChainStep, EntryStep DEF IInv
  <2>3. Durable' /\ Store' /\ Agree'
    BY <1>1, <2>1, <2>2, DurableStep, StoreStep, AgreeStep DEF IInv
  <2>. QED BY <2>1, <2>2, <2>3 DEF IInv
<1>2. CASE UNCHANGED vars
  <2>. USE <1>2 DEF vars, controller, life, record, calls, entry, resumes, counters, IInv
  <2>1. Typed'
    BY DEF Typed, WB!TypeOK
  <2>2. Controlled'
    BY DEF Controlled
  <2>3. Queue'
    BY DEF Queue, Serving
  <2>4. Ready'
    BY DEF Ready
  <2>5. Chain'
    BY DEF Chain
  <2>6. Entry'
    BY DEF Entry, Committing
  <2>7. Grammar'
    BY DEF Grammar
  <2>8. Durable' /\ Store'
    BY DEF Durable, Store, Reserved, Committing
  <2>9. Agree'
    BY DEF Agree, Position, Unstored, Serving
  <2>. QED BY <2>1, <2>2, <2>3, <2>4, <2>5, <2>6, <2>7, <2>8, <2>9
<1>. QED BY <1>1, <1>2

\* The invariant holds in every reachable state.
THEOREM Invariant == Spec => []IInv
BY IInvInit, IInvNext, PTL DEF Spec

\* The queue holds positions in ascending order, which is what Beyond relies on,
\* and every other variable has its type.
LEMMA IInvTypes == IInv => TypeOK
<1>. SUFFICES ASSUME IInv PROVE TypeOK
  OBVIOUS
<1>1. \A i \in 2..Len(batch) : batch[i] > batch[i - 1]
  <2>1. PICK last \in 0..Len(log) : Consecutive(batch, last - Len(pending))
    BY DEF IInv, Queue
  <2>2. batch \in Positions /\ last - Len(pending) \in Int
    BY LenProperties DEF IInv, Typed, WB!TypeOK, Positions, Grammar, Logs
  <2>. QED BY <2>1, <2>2, ConsecutiveAscends
<1>. QED BY <1>1 DEF IInv, Typed, Grammar, Durable, Logs, TypeOK

\* Every variable of the coordinator always has its type.
THEOREM TypeCorrect == Spec => []TypeOK
BY Invariant, IInvTypes, PTL

\* The part about the stored log is the property.
LEMMA IInvLegal == IInv => StoredLegal
BY DEF IInv, Store, Storable, StoredLegal

\* Until a trim cuts the log under a loaded session, and whatever is initialized,
\* written, repaired, trimmed, evicted or crashed before, the stored log stays
\* legal, the cursor is its length, and a reservation that is still the id's is
\* the only one and names exactly what is stored.
THEOREM StoredAlwaysLegal == Spec => []StoredLegal
BY Invariant, IInvLegal, PTL

\* What the session's log has beyond the stored log is what the controller holds.
LEMMA IInvNothingLost == IInv => NothingLost
<1>. SUFFICES ASSUME IInv, session # "none", plugin = "up", init \in {"pending", "ok"}, ~stale
              PROVE  /\ init = "ok" => IsPrefix(stored, log)
                     /\ Beyond(Held, Position) = [i \in 1..(Len(log) - Position) |-> Position + i]
  BY DEF NothingLost
<1>1. Serving
  BY DEF Serving
<1>2. /\ init = "ok" => IsPrefix(stored, log)
      /\ Len(log) <= Position + Unstored
  BY <1>1 DEF IInv, Agree
<1>3. PICK last \in 0..Len(log) : /\ Consecutive(pending, last) /\ Consecutive(batch, last - Len(pending))
                                  /\ last = Len(log)
  BY <1>1 DEF IInv, Queue
<1>4. /\ pending \in Positions /\ batch \in Positions
      /\ Len(pending) \in Nat /\ Len(batch) \in Nat /\ Len(log) \in Nat /\ Position \in Nat
  <2>1. pending \in Positions /\ batch \in Positions /\ seed \in Logs /\ stored \in Logs /\ log \in Logs
    BY DEF IInv, Typed, WB!TypeOK, Positions, Grammar, Durable
  <2>2. Len(pending) \in Nat /\ Len(batch) \in Nat
    BY <2>1, LenProperties DEF Positions
  <2>3. Len(log) \in Nat /\ Len(seed) \in Nat /\ Len(stored) \in Nat
    BY <2>1, LenProperties DEF Logs
  <2>. QED BY <2>1, <2>2, <2>3 DEF Position
<1>5. Held \in Positions /\ Len(Held) = Unstored /\ Consecutive(Held, Len(log))
  <2>1. CASE request = "resolved"
    <3>1. Held = pending
      BY <1>4, <2>1, ConcatEmptySeq DEF Held, Positions
    <3>2. Unstored = Len(pending)
      BY <1>4, <2>1 DEF Unstored
    <3>. QED BY <1>3, <1>4, <3>1, <3>2
  <2>2. CASE request # "resolved"
    <3>1. Held = batch \o pending /\ Unstored = Len(batch) + Len(pending)
      BY <2>2 DEF Held, Unstored
    <3>. QED BY <1>3, <1>4, <3>1, ConsecutiveJoins
  <2>. QED BY <2>1, <2>2
<1>. DEFINE t == Beyond(Held, Position)
<1>6. t \in Positions /\ Consecutive(t, Len(log)) /\ Len(t) = IF Len(log) <= Position THEN 0 ELSE Len(log) - Position
  <2>1. /\ t \in Positions /\ Consecutive(t, Len(log))
        /\ Len(t) = IF Len(log) <= Position THEN 0
                    ELSE IF Len(log) - Position <= Len(Held) THEN Len(log) - Position ELSE Len(Held)
    BY <1>4, <1>5, BeyondIs
  <2>2. Len(log) - Position <= Len(Held)
    BY <1>2, <1>4, <1>5 DEF Unstored
  <2>. QED BY <2>1, <2>2
<1>. HIDE DEF t
<1>. DEFINE n == Len(log) - Position
<1>7. DOMAIN t = 1..n /\ \A i \in 1..n : t[i] = Position + i
  <2>1. DOMAIN t = 1..Len(t) /\ \A i \in 1..Len(t) : t[i] \in Nat
    BY <1>6, LenProperties, ElementOfSeq, BoundsAssumption DEF Positions
  <2>2. 1..Len(t) = 1..n
    BY <1>4, <1>6
  <2>3. SUFFICES ASSUME NEW i \in 1..n PROVE t[i] = Position + i
    BY <2>1, <2>2
  <2>4. t[i] + Len(t) = Len(log) + i /\ t[i] \in Nat /\ Len(t) = n
    BY <1>4, <1>6, <2>1, <2>2 DEF Consecutive
  <2>. DEFINE x == t[i]  l == Len(log)  p == Position
  <2>5. x \in Nat /\ l \in Nat /\ p \in Nat /\ i \in Int /\ x + (l - p) = l + i
    BY <1>4, <2>4
  <2>. HIDE DEF x, l, p
  <2>6. x = p + i
    BY <2>5
  <2>. QED BY <2>6 DEF x, p
<1>8. t = [i \in 1..n |-> Position + i]
  <2>1. t = [i \in DOMAIN t |-> t[i]]
    BY <1>6, LenProperties DEF Positions
  <2>. QED BY <1>7, <2>1
<1>. QED BY <1>2, <1>8 DEF t

\* Over overlapping seeds, failed and retried writes, flushes, reloads, crashes
\* and resumes, a served session's log is what is stored and then what the
\* controller still holds: nothing is lost, doubled or reordered.
THEOREM NothingEverLost == Spec => []NothingLost
BY Invariant, IInvNothingLost, PTL

\* When nothing is queued or written, everything is stored.
LEMMA QuietIsStored ==
    ASSUME IInv, Serving, init = "ok", ~stale, pending = <<>>, writing = "no"
    PROVE  stored = log
<1>1. IsPrefix(stored, log) /\ Len(log) <= Len(stored) + Unstored
  BY DEF IInv, Agree, Position
<1>2. Unstored = 0
  BY EmptySeq DEF IInv, Controlled, Unstored
<1>3. stored \in Logs /\ log \in Logs /\ Len(stored) \in Nat /\ Len(log) \in Nat
  BY LenProperties DEF IInv, Durable, Grammar, Logs
<1>4. Len(stored) = Len(log) /\ \A i \in 1..Len(stored) : stored[i] = log[i]
  BY <1>1, <1>2, <1>3, PrefixIs
<1>. QED BY <1>3, <1>4, SeqEqual DEF Logs

\* A step that resolves a flush leaves the session's whole log stored.
LEMMA FlushStep ==
    ASSUME IInv, [Next]_vars, FlushResolves, plugin = "up", ~stale
    PROVE  stored' = log
<1>u. "user" \in Caller /\ "user" \in Flushers /\ call \in [Caller -> WB!CallStates]
  BY DEF Caller, Flushers, IInv, Typed, WB!TypeOK
<1>1. CASE Drives
  <2>1. pending = <<>> /\ writing = "no" /\ (call["user"] = "joined" \/ init = "ok") /\ UNCHANGED stored
    BY <1>1, <1>u, DriveSettles DEF IInv, Driven, Settled, FlushResolves
  <2>2. init = "ok"
    BY <1>u, <2>1 DEF IInv, Ready
  <2>3. Serving
    BY <2>2 DEF IInv, Ready, Serving
  <2>. QED BY <2>1, <2>2, <2>3, QuietIsStored
<1>2. CASE ~Drives
  <2>1. UNCHANGED call \/ call'["user"] # "done" \/ call'["user"] = call["user"]
    BY <1>2, <1>u DEF Drives, Next, Chained, Calls, Resume, Flushers, vars,
       Created, Emit, UserFlush, FlushRefused, WriteQueues, WriteSettles, Initializes,
       StoresSuffix, StoresBatch,
       Retire, RetireQueues, Retires, Trim, TrimCuts, TrimGivesUp, TeardownBegins, TeardownEnds,
       Reload, Crash,
       Inspects, Reserves, ReserveRefused, Prepares, TakesReady, Commits, ResumeAborts, Releases,
       Publishes,
       PublishRefused, Evicts, FreshController, WB!Enqueue, WB!CancelAutomaticWait,
       WB!WriteSucceeds, WB!WriteFails,
       WB!callVars, controller
  <2>. QED BY <2>1 DEF FlushResolves
<1>. QED BY <1>1, <1>2

\* A flush resolves with everything the session ever emitted stored.
THEOREM FlushAlwaysQuiescent == Spec => FlushIsQuiescent
<1>1. IInv /\ [Next]_vars => [FlushResolves /\ plugin = "up" /\ ~stale => stored' = log]_vars
  BY FlushStep
<1>. QED BY <1>1, Invariant, PTL DEF Spec, FlushIsQuiescent

\* A step that releases a disposed session finds its whole log stored.
LEMMA ReleaseStep ==
    ASSUME IInv, [Next]_vars, retiring = "queued", retiring' = "no", crashes' = crashes, plugin' = plugin, ~stale
    PROVE  stored = log
<1>1. call["retire"] = "done" /\ session = "disposed"
  BY DEF IInv, Ready
<1>2. Serving /\ init = "ok" /\ pending = <<>> /\ writing = "no"
  BY <1>1 DEF IInv, Ready, Serving
<1>. QED BY <1>2, QuietIsStored

\* A disposed session is released only when its whole log is stored.
THEOREM ReleasedAlwaysStored == Spec => ReleasedWhenStored
<1>1. IInv /\ [Next]_vars => [retiring = "queued" /\ retiring' = "no" /\ crashes' = crashes /\ plugin' = plugin
                                /\ ~stale => stored = log]_vars
  BY ReleaseStep
<1>. QED BY <1>1, Invariant, PTL DEF Spec, ReleasedWhenStored

=============================================================================
