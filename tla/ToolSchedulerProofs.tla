------------------------ MODULE ToolSchedulerProofs ------------------------
(***************************************************************************)
(* Proofs about ToolScheduler for every number of calls, every pool and    *)
(* every sequence of reclassifications.                                    *)
(***************************************************************************)
EXTENDS ToolScheduler, FiniteSetTheorems, TLAPS

\* The call just started is still with the policy pipeline.
Preparing == pc \in {"appended", "preparing", "prepared"}
Untouched(c) == stage[c] = "idle" /\ slots[c] = NoSlot /\ c \notin invoked

\* The cursors are ordered; a group is left, and the next one formed, only with
\* every started call committed and none in the race.
Cursors ==
    /\ base <= committed /\ committed <= started
    /\ pc # "classify" => started <= groupEnd /\ (groupMode = "exclusive" => groupEnd = base + 1)
    /\ pc \in {"classify", "leaving"} => committed = started /\ inFlight = {}
    /\ pc = "classify" => started < NumCalls
    /\ Preparing => committed < started

\* Whatever runs is in the race, the race holds calls of this group only, and a
\* call being prepared has its place in the pool kept.
Fleet ==
    /\ Running \subseteq inFlight /\ inFlight \subseteq (base + 1)..started
    /\ Cardinality(inFlight) <= MaxParallel
    /\ Preparing => Cardinality(inFlight) < MaxParallel
    /\ \A c \in Calls : c > started \/ (Preparing /\ c = started) => Untouched(c)

\* Where the scheduler may stand with or without a failure, and what it knows.
Control ==
    /\ pc \in {"classify", "filling", "appended", "leaving", "returned"} => ~failure
    /\ pc = "draining" => failure
    /\ pc = "thrown" => failure \/ aborted
    /\ pc \in FinalPcs => Running = {}
    /\ pc = "filling" /\ signal => aborted
    /\ pc = "prepared" => /\ verdict.kind # "none"
                          /\ verdict.kind # "dispatch" => verdict.outcome \in {"error", "unstarted"}

\* A slot is filled once its call is over, and tells the truth about its body.
SlotsTrue ==
    \A c \in Calls :
        /\ c \in Running => slots[c] = NoSlot
        /\ stage[c] \in {"idle", "wrapped"} => c \notin invoked
        /\ slots[c].outcome = "unstarted" => c \notin invoked
        /\ slots[c].outcome \in {"aborted", "concluding"} => c \in invoked

\* A started call that is not committed runs, has settled or is being prepared.
NoneForgotten ==
    ~failure =>
        \A c \in (committed + 1)..started :
            c \in Running \/ slots[c].kind # "none" \/ (Preparing /\ c = started)

\* Behind the last commit the race still holds the next call to commit, and a
\* call is finalized for its model-order turn only.
TurnKept ==
    /\ pc \in {"committed", "filling"} /\ ~failure /\ committed < started => committed + 1 \in inFlight
    /\ pc = "finalizing" => Ready("post")

Accounts == SlotsTrue /\ NoneForgotten /\ TurnKept

\* The transcript against the cursors and the slots.
CallsLogged == \A c \in 1..started : callSeq[c] \in DOMAIN log /\ log[callSeq[c]] = CallEvent(c)
LogBounded == \A j \in DOMAIN log : log[j].call <= started \/ pc \in FinalPcs
ResultsKept ==
    \A j \in DOMAIN log : log[j].kind = "result" =>
        /\ log[j].call <= committed \/ pc \in {"draining"} \cup FinalPcs
        /\ slots[log[j].call].kind = "final" \/ (pc \in FinalPcs /\ ~failure)
CommittedAnswered ==
    \A c \in 1..committed : \E j \in DOMAIN log : log[j].kind = "result" /\ log[j].call = c
ConcludedTrue == ~failure => (concluded <=> \E j \in DOMAIN log : log[j].outcome = "concluding")

Transcript == CallsLogged /\ LogBounded /\ ResultsKept /\ CommittedAnswered /\ ConcludedTrue

Ledger ==
    /\ Cursors /\ Fleet /\ Control /\ Accounts /\ Transcript
    /\ ModelOrder /\ HonestOutcome /\ AllAnswered

-----------------------------------------------------------------------------
\* The skipped calls are the last ones of the message, each with its two events.
LEMMA SkippedEventsShape ==
    ASSUME TypeOK
    PROVE  /\ Cardinality(Skipped) = NumCalls - started
           /\ SkippedEvents \in Seq(Event)
           /\ Len(SkippedEvents) = 2 * (NumCalls - started)
           /\ \A k \in 1..(NumCalls - started) :
                 /\ SkippedEvents[2 * k - 1] = CallEvent(started + k)
                 /\ SkippedEvents[2 * k] = ResultEvent(started + k, "unstarted", Len(log) + 2 * k - 1)
<1>. DEFINE n == NumCalls - started
            e(k) == LET c == started + (k + 1) \div 2
                    IN  IF k % 2 = 1 THEN CallEvent(c)
                        ELSE ResultEvent(c, "unstarted", Len(log) + k - 1)
<1>1. started \in Nat /\ NumCalls \in Nat /\ n \in Nat /\ started + n = NumCalls
  BY SchedulerAssumption DEF TypeOK
<1>2. Cardinality(Skipped) = n
  <2>1. IF started + 1 > NumCalls THEN Cardinality(Skipped) = 0
        ELSE Cardinality(Skipped) = NumCalls - (started + 1) + 1
    BY <1>1, FS_Interval DEF Skipped
  <2>. QED BY <1>1, <2>1
<1>3. SkippedEvents = [k \in 1..(2 * n) |-> e(k)]
  BY <1>2 DEF SkippedEvents
<1>4. \A k \in 1..(2 * n) : e(k) \in Event
  <2>. SUFFICES ASSUME NEW k \in 1..(2 * n) PROVE e(k) \in Event
    OBVIOUS
  <2>1. started + (k + 1) \div 2 \in Calls
    BY <1>1 DEF Calls
  <2>2. Len(log) + k - 1 \in Nat
    BY <1>1 DEF TypeOK
  <2>. QED BY <2>1, <2>2 DEF Event, CallEvent, ResultEvent, Told, Outcomes
<1>5. Len(SkippedEvents) = 2 * n /\ SkippedEvents \in Seq(Event)
  BY <1>1, <1>3, <1>4
<1>6. ASSUME NEW k \in 1..n
      PROVE  /\ SkippedEvents[2 * k - 1] = CallEvent(started + k)
             /\ SkippedEvents[2 * k] = ResultEvent(started + k, "unstarted", Len(log) + 2 * k - 1)
  <2>1. 2 * k - 1 \in 1..(2 * n) /\ 2 * k \in 1..(2 * n)
    BY <1>1
  <2>2. ((2 * k - 1) + 1) \div 2 = k /\ (2 * k - 1) % 2 = 1
    BY <1>1
  <2>3. (2 * k + 1) \div 2 = k /\ (2 * k) % 2 # 1
    BY <1>1
  <2>4. SkippedEvents[2 * k - 1] = e(2 * k - 1) /\ SkippedEvents[2 * k] = e(2 * k)
    BY <1>3, <2>1
  <2>5. e(2 * k - 1) = CallEvent(started + k)
    BY <2>2
  <2>6. e(2 * k) = ResultEvent(started + k, "unstarted", Len(log) + 2 * k - 1)
    BY <2>3
  <2>. QED BY <2>4, <2>5, <2>6
<1>. QED BY <1>2, <1>5, <1>6

-----------------------------------------------------------------------------
\* Typing.

\* The initial states are well typed.
LEMMA TypeInit == Init => TypeOK
<1>. SUFFICES ASSUME Init PROVE TypeOK
  OBVIOUS
<1>1. NoSlot \in Slot /\ NoSlot \in Verdict
  BY DEF NoSlot, Slot, Verdict
<1>2. pc \in SyncPcs \cup AwaitPcs \cup FinalPcs /\ groupMode \in Modes /\ stage \in [Calls -> Stages]
  BY DEF Init, AwaitPcs, Modes, Stages
<1>3. log \in Seq(Event)
  BY DEF Init
<1>4. slots \in [Calls -> Slot] /\ verdict \in Verdict /\ callSeq \in [Calls -> Nat]
  BY <1>1 DEF Init
<1>5. flips \in 0..MaxFlips /\ 0 \in 0..NumCalls
  BY SchedulerAssumption DEF Init
<1>. QED BY <1>2, <1>3, <1>4, <1>5 DEF Init, TypeOK

\* An outcome told in the log, and the slot it was kept in, stay in their types.
LEMMA OutcomeTypes ==
    /\ \A c \in Calls : CallEvent(c) \in Event
    /\ \A c \in Calls, outcome \in Outcomes \cup {"none"}, n \in Nat : ResultEvent(c, outcome, n) \in Event
    /\ \A c \in Calls : CancelledOutcome(c) \in Outcomes
    /\ \A c \in Calls, outcome \in Outcomes \cup {"none"} : AfterCancel(c, outcome) \in Outcomes \cup {"none"}
BY DEF CallEvent, ResultEvent, Event, Told, CancelledOutcome, AfterCancel, Outcomes

\* A call to commit is one of the message, and a slot keeps its fields' types.
LEMMA SlotTypes ==
    ASSUME TypeOK
    PROVE  /\ NextToCommit \in Nat /\ (NextToCommit <= groupEnd => NextToCommit \in Calls)
           /\ \A c \in Calls : /\ slots[c].kind \in {"none", "post", "final"}
                               /\ slots[c].outcome \in Outcomes \cup {"none"}
           /\ \A c \in Calls : [slots[c] EXCEPT !.outcome = "none"] \in Slot
           /\ \A kind \in {"none", "post", "final"}, outcome \in Outcomes \cup {"none"} :
                 [kind |-> kind, outcome |-> outcome] \in Slot
           /\ \A v \in Verdict : v.kind # "dispatch" => v \in Slot
<1>1. NextToCommit \in Nat /\ (NextToCommit <= groupEnd => NextToCommit \in Calls)
  BY SchedulerAssumption DEF NextToCommit, TypeOK, Calls
<1>2. \A c \in Calls : slots[c] \in Slot
  BY DEF TypeOK
<1>3. \A s \in Slot : s.kind \in {"none", "post", "final"} /\ s.outcome \in Outcomes \cup {"none"}
  BY DEF Slot
<1>4. \A s \in Slot : [s EXCEPT !.outcome = "none"] \in Slot
  BY DEF Slot
<1>5. \A v \in Verdict : v.kind # "dispatch" => v \in Slot
  BY DEF Verdict, Slot
<1>6. \A kind \in {"none", "post", "final"}, outcome \in Outcomes \cup {"none"} :
         [kind |-> kind, outcome |-> outcome] \in Slot
  BY DEF Slot
<1>. QED BY <1>1, <1>2, <1>3, <1>4, <1>5, <1>6

\* Each step keeps the state well typed.
LEMMA TypeStep == TypeOK /\ Cursors /\ Accounts /\ [Next]_vars => TypeOK'
<1>. SUFFICES ASSUME TypeOK, Cursors, Accounts, [Next]_vars PROVE TypeOK'
  OBVIOUS
<1>. USE SchedulerAssumption, OutcomeTypes
     DEF TypeOK, Calls, SyncPcs, AwaitPcs, FinalPcs, Stages, group, registry, tools
<1>1. CASE Classify
  BY <1>1 DEF Classify, GroupEnd, Cursors, Modes
<1>2. CASE StartCall
  BY <1>2 DEF StartCall, MayStart
<1>3. CASE CallRefused
  BY <1>3 DEF CallRefused, Fail
<1>4. CASE PoolFilled
  BY <1>4 DEF PoolFilled
<1>5. CASE PrepareBegins
  BY <1>5 DEF PrepareBegins, Verdict, Outcomes
<1>6. CASE PrepareSettles
  BY <1>6 DEF PrepareSettles, Verdict, Outcomes
<1>7. CASE PrepareRejects
  BY <1>7 DEF PrepareRejects, Fail
<1>8. CASE Prepared
  <2>1. NoSlot \in Verdict
    BY DEF NoSlot, Verdict, Slot
  <2>2. started \in Calls
    BY <1>8 DEF Prepared, Cursors, Preparing
  <2>3. CASE failure /\ Fail /\ UNCHANGED <<verdict, slots, inFlight, stage>>
    BY <1>8, <2>3 DEF Prepared, Fail
  <2>4. CASE ~failure /\ TakeVerdict
    <3>1. slots' \in [Calls -> Slot]
      BY <2>4, SlotTypes DEF TakeVerdict
    <3>2. stage' \in [Calls -> Stages] /\ inFlight' \in SUBSET Calls
      BY <2>2, <2>4 DEF TakeVerdict
    <3>. QED BY <1>8, <2>1, <2>4, <3>1, <3>2 DEF Prepared, TakeVerdict
  <2>. QED BY <1>8, <2>3, <2>4 DEF Prepared
<1>9. CASE StartDone
  BY <1>9 DEF StartDone
<1>10. CASE CommitResult
  <2>1. NextToCommit \in Calls /\ committed' = NextToCommit
    BY <1>10, SlotTypes DEF CommitResult, Ready, NextToCommit
  <2>2. ResultEvent(NextToCommit, slots[NextToCommit].outcome, callSeq[NextToCommit]) \in Event
    BY <2>1, SlotTypes
  <2>3. slots' \in [Calls -> Slot]
    <3>1. slots' = [slots EXCEPT ![NextToCommit] = [slots[NextToCommit] EXCEPT !.outcome = "none"]]
      BY <1>10, Zenon DEF CommitResult
    <3>2. [slots[NextToCommit] EXCEPT !.outcome = "none"] \in Slot
      BY <2>1, SlotTypes
    <3>. DEFINE emptied == [slots[NextToCommit] EXCEPT !.outcome = "none"]
    <3>. HIDE DEF emptied
    <3>3. slots' = [slots EXCEPT ![NextToCommit] = emptied] /\ emptied \in Slot
      BY <3>1, <3>2 DEF emptied
    <3>. QED BY <3>3
  <2>4. concluded' \in BOOLEAN
    BY <1>10 DEF CommitResult
  <2>5. log' \in Seq(Event)
    BY <1>10, <2>2 DEF CommitResult
  <2>6. UNCHANGED <<registry, signal, pc, group, started, aborted, failure, verdict, callSeq, inFlight, tools>>
    BY <1>10, Zenon DEF CommitResult
  <2>7. committed' \in 0..NumCalls
    BY <2>1
  <2>. QED BY <2>3, <2>4, <2>5, <2>6, <2>7
<1>11. CASE ResultRefused
  <2>. DEFINE e == ResultEvent(NextToCommit, slots[NextToCommit].outcome, callSeq[NextToCommit])
  <2>1. NextToCommit \in Calls
    BY <1>11, SlotTypes DEF ResultRefused, Ready
  <2>2. e \in Event
    BY <2>1, SlotTypes
  <2>3. log' = log \/ log' = Append(log, e)
    BY <1>11, Zenon DEF ResultRefused
  <2>4. log' \in Seq(Event)
    <3>1. CASE log' = log
      BY <3>1
    <3>2. CASE log' = Append(log, e)
      BY <2>2, <3>2
    <3>. QED BY <2>3, <3>1, <3>2, Zenon
  <2>. QED BY <1>11, <2>4 DEF ResultRefused, Fail
<1>12. CASE FinalizeBegins
  BY <1>12 DEF FinalizeBegins
<1>13. CASE FinalizeSettles
  <2>1. PICK outcome \in {slots[NextToCommit].outcome, "error"} :
           slots' = [slots EXCEPT ![NextToCommit] =
                        [kind |-> "final", outcome |-> AfterCancel(NextToCommit, outcome)]]
    BY <1>13 DEF FinalizeSettles
  <2>2. NextToCommit \in Calls /\ outcome \in Outcomes \cup {"none"}
    BY <1>13, <2>1, SlotTypes DEF FinalizeSettles, Accounts, TurnKept, Ready, Outcomes
  <2>3. [kind |-> "final", outcome |-> AfterCancel(NextToCommit, outcome)] \in Slot
    BY <2>2, SlotTypes
  <2>4. slots' \in [Calls -> Slot]
    BY <2>1, <2>3
  <2>. QED BY <1>13, <2>4 DEF FinalizeSettles
<1>14. CASE FinalizeRejects
  BY <1>14 DEF FinalizeRejects, Fail
<1>15. CASE NothingReady
  BY <1>15 DEF NothingReady
<1>16. CASE Committed
  BY <1>16 DEF Committed, Refills
<1>17. CASE RaceYields
  BY <1>17 DEF RaceYields, LeavesRace
<1>18. CASE LeavesAborted
  BY <1>18, SkippedEventsShape DEF LeavesAborted
<1>19. CASE SkipRefused
  <2>1. PICK k \in 0..(Len(SkippedEvents) - 1) : log' = log \o SubSeq(SkippedEvents, 1, k)
    BY <1>19 DEF SkipRefused
  <2>2. SubSeq(SkippedEvents, 1, k) \in Seq(Event)
    BY SkippedEventsShape
  <2>. QED BY <1>19, <2>1, <2>2 DEF SkipRefused
<1>20. CASE LeavesGroup
  BY <1>20 DEF LeavesGroup
<1>21. CASE Drained
  BY <1>21 DEF Drained
<1>22. ASSUME NEW c \in Calls, BodyStarts(c) PROVE TypeOK'
  BY <1>22 DEF BodyStarts
<1>23. ASSUME NEW c \in Calls, DispatchSettles(c) PROVE TypeOK'
  <2>1. PICK kind \in {"post", "final"}, outcome \in Outcomes \cup {"none"} :
           slots' = [slots EXCEPT ![c] = [kind |-> kind, outcome |-> outcome]]
    <3>1. CASE \E outcome \in {"ok", "concluding", "error", CancelledOutcome(c)} :
                  slots' = [slots EXCEPT ![c] = [kind |-> "post", outcome |-> AfterCancel(c, outcome)]]
      BY <3>1 DEF Outcomes
    <3>2. CASE slots' = [slots EXCEPT ![c] = [kind |-> "final", outcome |-> "error"]]
      BY <3>2 DEF Outcomes
    <3>. QED BY <1>23, <3>1, <3>2, Zenon DEF DispatchSettles
  <2>2. slots' \in [Calls -> Slot]
    BY <2>1, SlotTypes
  <2>3. stage' \in [Calls -> Stages]
    BY <1>23 DEF DispatchSettles
  <2>. QED BY <1>23, <2>2, <2>3 DEF DispatchSettles
<1>24. ASSUME NEW c \in Calls, DispatchRejects(c) PROVE TypeOK'
  BY <1>24 DEF DispatchRejects
<1>25. CASE Abort
  BY <1>25 DEF Abort
<1>26. ASSUME NEW c \in Calls, Reclassify(c) PROVE TypeOK'
  BY <1>26 DEF Reclassify, Modes
<1>27. CASE UNCHANGED vars
  BY <1>27 DEF vars
<1>. QED BY <1>1, <1>2, <1>3, <1>4, <1>5, <1>6, <1>7, <1>8, <1>9, <1>10, <1>11, <1>12,
            <1>13, <1>14, <1>15, <1>16, <1>17, <1>18, <1>19, <1>20, <1>21, <1>22, <1>23,
            <1>24, <1>25, <1>26, <1>27
         DEF Next, Progress

-----------------------------------------------------------------------------
\* Initially the ledger balances.
LEMMA LedgerInit == Init => Ledger
<1>. SUFFICES ASSUME Init PROVE Ledger
  OBVIOUS
<1>1. Running = {} /\ log = <<>> /\ Len(log) = 0 /\ DOMAIN log = {}
  BY DEF Init, Running
<1>2. Cursors
  BY SchedulerAssumption DEF Init, Cursors, Preparing
<1>3. Cardinality(inFlight) = 0
  BY FS_EmptySet DEF Init
<1>4. Fleet
  BY <1>1, <1>3, SchedulerAssumption DEF Init, Fleet, Preparing, Untouched
<1>5. Control
  BY <1>1 DEF Init, Control, FinalPcs
<1>6. Accounts
  BY <1>1 DEF Init, Accounts, SlotsTrue, NoneForgotten, TurnKept, NoSlot
<1>7. Transcript
  BY <1>1 DEF Init, Transcript, CallsLogged, LogBounded, ResultsKept, CommittedAnswered, ConcludedTrue
<1>8. ModelOrder /\ HonestOutcome /\ AllAnswered
  BY <1>1 DEF Init, ModelOrder, HonestOutcome, AllAnswered
<1>. QED BY <1>2, <1>4, <1>5, <1>6, <1>7, <1>8 DEF Ledger

\* The cursors are numbers, and within the message.
LEMMA Numbers ==
    ASSUME TypeOK
    PROVE  /\ base \in Nat /\ groupEnd \in Nat /\ started \in Nat /\ committed \in Nat /\ NumCalls \in Nat
           /\ started <= NumCalls /\ committed <= NumCalls /\ groupEnd <= NumCalls
BY SchedulerAssumption DEF TypeOK

\* Cursors: only a filled slot lets the committed cursor move, and only a pool
\* that found nothing to commit and nothing in the race is left.
LEMMA CursorsStep == TypeOK /\ Ledger /\ [Next]_vars => Cursors'
<1>. SUFFICES ASSUME TypeOK, Ledger, [Next]_vars PROVE Cursors'
  OBVIOUS
<1>. USE Numbers DEF Ledger, Cursors, group, Preparing
<1>1. CASE Classify
  BY <1>1 DEF Classify, GroupEnd, Calls, Modes, TypeOK
<1>2. CASE StartCall
  BY <1>2 DEF StartCall, MayStart
<1>3. CASE CallRefused
  BY <1>3 DEF CallRefused, Fail
<1>4. CASE PoolFilled
  <2>1. inFlight = {} => committed = started
    BY <1>4 DEF PoolFilled, Accounts, TurnKept, Control
  <2>. QED BY <1>4, <2>1 DEF PoolFilled
<1>5. CASE PrepareBegins
  BY <1>5 DEF PrepareBegins
<1>6. CASE PrepareSettles
  BY <1>6 DEF PrepareSettles
<1>7. CASE PrepareRejects
  BY <1>7 DEF PrepareRejects, Fail
<1>8. CASE Prepared
  BY <1>8 DEF Prepared, Fail, TakeVerdict
<1>9. CASE StartDone
  BY <1>9 DEF StartDone
<1>10. CASE CommitResult
  <2>1. committed + 1 <= started
    BY <1>10, SlotTypes DEF CommitResult, Ready, NextToCommit, Fleet, Untouched, NoSlot, Calls
  <2>2. committed' = committed + 1 /\ UNCHANGED <<pc, base, groupEnd, groupMode, started, inFlight>>
    BY <1>10, Zenon DEF CommitResult, group
  <2>3. pc = "committing"
    BY <1>10 DEF CommitResult
  <2>. QED BY <2>1, <2>2, <2>3
<1>11. CASE ResultRefused
  BY <1>11 DEF ResultRefused, Fail
<1>12. CASE FinalizeBegins
  BY <1>12 DEF FinalizeBegins
<1>13. CASE FinalizeSettles
  BY <1>13 DEF FinalizeSettles
<1>14. CASE FinalizeRejects
  BY <1>14 DEF FinalizeRejects, Fail
<1>15. CASE NothingReady
  BY <1>15 DEF NothingReady
<1>16. CASE Committed
  BY <1>16 DEF Committed, Refills
<1>17. CASE RaceYields
  BY <1>17 DEF RaceYields, LeavesRace
<1>18. CASE LeavesAborted
  BY <1>18 DEF LeavesAborted
<1>19. CASE SkipRefused
  BY <1>19 DEF SkipRefused
<1>20. CASE LeavesGroup
  BY <1>20 DEF LeavesGroup
<1>21. CASE Drained
  BY <1>21 DEF Drained
<1>22. ASSUME NEW c \in Calls, BodyStarts(c) PROVE Cursors'
  BY <1>22 DEF BodyStarts
<1>23. ASSUME NEW c \in Calls, DispatchSettles(c) PROVE Cursors'
  BY <1>23 DEF DispatchSettles
<1>24. ASSUME NEW c \in Calls, DispatchRejects(c) PROVE Cursors'
  BY <1>24 DEF DispatchRejects
<1>25. CASE Abort
  BY <1>25 DEF Abort
<1>26. ASSUME NEW c \in Calls, Reclassify(c) PROVE Cursors'
  BY <1>26 DEF Reclassify
<1>27. CASE UNCHANGED vars
  BY <1>27 DEF vars
<1>. QED BY <1>1, <1>2, <1>3, <1>4, <1>5, <1>6, <1>7, <1>8, <1>9, <1>10, <1>11, <1>12,
            <1>13, <1>14, <1>15, <1>16, <1>17, <1>18, <1>19, <1>20, <1>21, <1>22, <1>23,
            <1>24, <1>25, <1>26, <1>27
         DEF Next, Progress

\* Fleet: the race is a finite set.
LEMMA RaceFinite == TypeOK => IsFiniteSet(inFlight) /\ Cardinality(inFlight) \in Nat
<1>1. IsFiniteSet(Calls)
  BY SchedulerAssumption, FS_Interval DEF Calls
<1>. QED BY <1>1, FS_Subset, FS_CardinalityType DEF TypeOK

\* A pool keeps its bound: the race gains a call only where the pool had room for it.
LEMMA FleetStep == TypeOK /\ Ledger /\ [Next]_vars => Fleet'
<1>. SUFFICES ASSUME TypeOK, Ledger, [Next]_vars PROVE Fleet'
  OBVIOUS
<1>. USE Numbers DEF Ledger, Fleet, Preparing, Untouched, Running, group, tools
<1>1. CASE Classify
  BY <1>1 DEF Classify, Cursors
<1>2. CASE StartCall
  BY <1>2, RaceFinite DEF StartCall, MayStart, PoolOpen, Cursors, Calls
<1>3. CASE CallRefused
  BY <1>3 DEF CallRefused, Fail
<1>4. CASE PoolFilled
  BY <1>4 DEF PoolFilled, Calls
<1>5. CASE PrepareBegins
  BY <1>5 DEF PrepareBegins
<1>6. CASE PrepareSettles
  BY <1>6 DEF PrepareSettles
<1>7. CASE PrepareRejects
  BY <1>7 DEF PrepareRejects, Fail
<1>8. CASE Prepared
  <2>1. CASE failure /\ Fail /\ UNCHANGED <<verdict, slots, inFlight, stage>>
    BY <1>8, <2>1 DEF Prepared, Fail
  <2>2. CASE ~failure /\ TakeVerdict
    <3>1. started \in Calls /\ base + 1 <= started /\ pc' = "startDone"
      BY <1>8, <2>2 DEF Prepared, TakeVerdict, Cursors, Calls
    <3>2. UNCHANGED <<base, started, invoked>>
      BY <1>8 DEF Prepared
    <3>3. CASE verdict.kind = "dispatch"
      <4>1. inFlight' = inFlight \cup {started} /\ UNCHANGED slots
        BY <2>2, <3>3 DEF TakeVerdict
      <4>2. stage' = [stage EXCEPT ![started] = "wrapped"]
        BY <2>2, <3>3 DEF TakeVerdict
      <4>3. Cardinality(inFlight') <= Cardinality(inFlight) + 1
        BY <4>1, RaceFinite, FS_AddElement
      <4>4. Cardinality(inFlight') <= MaxParallel
        <5>1. Cardinality(inFlight) < MaxParallel
          BY <1>8 DEF Prepared
        <5>2. Cardinality(inFlight) \in Nat /\ Cardinality(inFlight') \in Nat
          BY <4>1, RaceFinite, FS_AddElement, FS_CardinalityType
        <5>. QED BY <4>3, <5>1, <5>2, SchedulerAssumption
      <4>5. inFlight' \subseteq (base + 1)..started
        <5>1. started \in (base + 1)..started
          BY <3>1
        <5>. QED BY <4>1, <5>1, Zenon
      <4>6. Running' \subseteq inFlight'
        BY <3>1, <4>1, <4>2 DEF TypeOK
      <4>7. \A c \in Calls : c > started => Untouched(c)'
        BY <3>1, <3>2, <4>1, <4>2 DEF TypeOK
      <4>. QED BY <3>1, <3>2, <4>4, <4>5, <4>6, <4>7
    <3>4. CASE verdict.kind # "dispatch"
      <4>1. slots' = [slots EXCEPT ![started] = verdict] /\ UNCHANGED <<inFlight, stage>>
        BY <2>2, <3>4 DEF TakeVerdict
      <4>2. \A c \in Calls : c > started => Untouched(c)'
        BY <3>1, <3>2, <4>1 DEF TypeOK
      <4>. QED BY <3>1, <3>2, <4>1, <4>2
    <3>. QED BY <3>3, <3>4
  <2>. QED BY <1>8, <2>1, <2>2 DEF Prepared
<1>9. CASE StartDone
  BY <1>9 DEF StartDone
<1>10. CASE CommitResult
  <2>1. UNCHANGED <<pc, base, started, inFlight, stage, invoked>>
    BY <1>10, Zenon DEF CommitResult, group, tools
  <2>2. committed + 1 \in Calls /\ committed + 1 <= started
    BY <1>10, SlotTypes DEF CommitResult, Ready, NextToCommit, NoSlot, Calls
  <2>3. \A c \in Calls : c > started => slots'[c] = slots[c]
    <3>1. slots' = [slots EXCEPT ![NextToCommit] = [slots[NextToCommit] EXCEPT !.outcome = "none"]]
      BY <1>10, Zenon DEF CommitResult
    <3>. DEFINE emptied == [slots[NextToCommit] EXCEPT !.outcome = "none"]
    <3>. HIDE DEF emptied
    <3>2. slots' = [slots EXCEPT ![NextToCommit] = emptied]
      BY <3>1 DEF emptied
    <3>. QED BY <2>2, <3>2 DEF NextToCommit, TypeOK
  <2>4. pc = "committing"
    BY <1>10 DEF CommitResult
  <2>. QED BY <2>1, <2>3, <2>4
<1>11. CASE ResultRefused
  BY <1>11 DEF ResultRefused, Fail
<1>12. CASE FinalizeBegins
  BY <1>12 DEF FinalizeBegins
<1>13. CASE FinalizeSettles
  <2>1. committed + 1 \in Calls /\ committed + 1 <= started
    BY <1>13, SlotTypes DEF FinalizeSettles, Accounts, TurnKept, Ready, NextToCommit, NoSlot, Calls
  <2>2. \A c \in Calls : c > started => slots'[c] = slots[c]
    BY <1>13, <2>1 DEF FinalizeSettles, NextToCommit, TypeOK
  <2>. QED BY <1>13, <2>2 DEF FinalizeSettles
<1>14. CASE FinalizeRejects
  BY <1>14 DEF FinalizeRejects, Fail
<1>15. CASE NothingReady
  BY <1>15 DEF NothingReady
<1>16. CASE Committed
  BY <1>16 DEF Committed, Refills
<1>17. CASE RaceYields
  <2>1. PICK c \in inFlight \ Running : inFlight' = inFlight \ {c}
    BY <1>17 DEF RaceYields, LeavesRace
  <2>2. Cardinality(inFlight') <= Cardinality(inFlight)
    <3>1. IsFiniteSet(inFlight) /\ Cardinality(inFlight) \in Nat
      BY RaceFinite
    <3>2. Cardinality(inFlight') = Cardinality(inFlight) - 1
      BY <2>1, <3>1, FS_RemoveElement, Zenon
    <3>. QED BY <3>1, <3>2
  <2>3. Cardinality(inFlight') <= MaxParallel
    <3>1. IsFiniteSet(inFlight)
      BY RaceFinite
    <3>2. Cardinality(inFlight) \in Nat /\ Cardinality(inFlight') \in Nat
      BY <2>1, <3>1, FS_RemoveElement, FS_CardinalityType, Zenon
    <3>. QED BY <2>2, <3>2, SchedulerAssumption
  <2>4. Running' = Running
    BY <1>17 DEF RaceYields
  <2>. QED BY <1>17, <2>1, <2>3, <2>4 DEF RaceYields
<1>18. CASE LeavesAborted
  BY <1>18 DEF LeavesAborted
<1>19. CASE SkipRefused
  BY <1>19 DEF SkipRefused
<1>20. CASE LeavesGroup
  BY <1>20 DEF LeavesGroup
<1>21. CASE Drained
  BY <1>21 DEF Drained
<1>22. ASSUME NEW c \in Calls, BodyStarts(c) PROVE Fleet'
  <2>1. Running' = Running /\ c \in Running
    BY <1>22 DEF BodyStarts, TypeOK
  <2>2. c <= started /\ ~(Preparing /\ c = started)
    BY <2>1 DEF Calls
  <2>3. \A d \in Calls : d # c => (Untouched(d) => Untouched(d)')
    BY <1>22 DEF BodyStarts, TypeOK
  <2>. QED BY <1>22, <2>1, <2>2, <2>3 DEF BodyStarts
<1>23. ASSUME NEW c \in Calls, DispatchSettles(c) PROVE Fleet'
  <2>1. Running' \subseteq Running
    BY <1>23 DEF DispatchSettles, TypeOK
  <2>2. c <= started /\ ~(Preparing /\ c = started)
    BY <1>23 DEF DispatchSettles, Calls
  <2>3. \A d \in Calls : d # c => (Untouched(d) => Untouched(d)')
    BY <1>23 DEF DispatchSettles, TypeOK
  <2>. QED BY <1>23, <2>1, <2>2, <2>3 DEF DispatchSettles
<1>24. ASSUME NEW c \in Calls, DispatchRejects(c) PROVE Fleet'
  <2>1. Running' \subseteq Running
    BY <1>24 DEF DispatchRejects, TypeOK
  <2>2. c <= started /\ ~(Preparing /\ c = started)
    BY <1>24 DEF DispatchRejects, Calls
  <2>3. \A d \in Calls : d # c => (Untouched(d) => Untouched(d)')
    BY <1>24 DEF DispatchRejects, TypeOK
  <2>. QED BY <1>24, <2>1, <2>2, <2>3 DEF DispatchRejects
<1>25. CASE Abort
  BY <1>25 DEF Abort
<1>26. ASSUME NEW c \in Calls, Reclassify(c) PROVE Fleet'
  BY <1>26 DEF Reclassify
<1>27. CASE UNCHANGED vars
  BY <1>27 DEF vars
<1>. QED BY <1>1, <1>2, <1>3, <1>4, <1>5, <1>6, <1>7, <1>8, <1>9, <1>10, <1>11, <1>12,
            <1>13, <1>14, <1>15, <1>16, <1>17, <1>18, <1>19, <1>20, <1>21, <1>22, <1>23,
            <1>24, <1>25, <1>26, <1>27
         DEF Next, Progress

\* Control, and what a commit leaves of a slot: nobody reads its outcome again.
LEMMA SlotEmptied ==
    ASSUME TypeOK, CommitResult
    PROVE  \A c \in Calls :
              /\ slots'[c].kind = slots[c].kind
              /\ slots'[c] = slots[c] \/ (c = NextToCommit /\ slots'[c].outcome = "none")
<1>. DEFINE emptied == [slots[NextToCommit] EXCEPT !.outcome = "none"]
<1>1. NextToCommit \in Calls
  BY SlotTypes DEF CommitResult, Ready
<1>2. emptied.outcome = "none" /\ emptied.kind = slots[NextToCommit].kind
  <2>1. \A s \in Slot : [s EXCEPT !.outcome = "none"].outcome = "none" /\ [s EXCEPT !.outcome = "none"].kind = s.kind
    BY DEF Slot
  <2>2. slots[NextToCommit] \in Slot
    BY <1>1 DEF TypeOK
  <2>. QED BY <2>1, <2>2
<1>3. slots' = [slots EXCEPT ![NextToCommit] = emptied]
  BY Zenon DEF CommitResult
<1>. HIDE DEF emptied
<1>4. slots'[NextToCommit] = emptied
  BY <1>1, <1>3 DEF TypeOK
<1>5. \A c \in Calls : c # NextToCommit => slots'[c] = slots[c]
  BY <1>1, <1>3 DEF TypeOK
<1>. SUFFICES ASSUME NEW c \in Calls
              PROVE  /\ slots'[c].kind = slots[c].kind
                     /\ slots'[c] = slots[c] \/ (c = NextToCommit /\ slots'[c].outcome = "none")
  OBVIOUS
<1>6. CASE c = NextToCommit
  BY <1>2, <1>4, <1>6, Zenon
<1>7. CASE c # NextToCommit
  BY <1>5, <1>7
<1>. QED BY <1>6, <1>7

\* A failure is always noticed before the scheduler refills, and what
\* ends the step leaves nothing running.
LEMMA ControlStep == TypeOK /\ Ledger /\ [Next]_vars => Control'
<1>. SUFFICES ASSUME TypeOK, Ledger, [Next]_vars PROVE Control'
  OBVIOUS
<1>. USE Numbers DEF Ledger, Control, FinalPcs, group, tools
<1>1. CASE Classify
  BY <1>1 DEF Classify
<1>2. CASE StartCall
  BY <1>2 DEF StartCall, MayStart
<1>3. CASE CallRefused
  BY <1>3 DEF CallRefused, Fail
<1>4. CASE PoolFilled
  BY <1>4 DEF PoolFilled
<1>5. CASE PrepareBegins
  BY <1>5 DEF PrepareBegins
<1>6. CASE PrepareSettles
  BY <1>6 DEF PrepareSettles
<1>7. CASE PrepareRejects
  BY <1>7 DEF PrepareRejects, Fail
<1>8. CASE Prepared
  <2>1. pc' \in {"startDone", "draining"} /\ (pc' = "draining" => failure')
    BY <1>8 DEF Prepared, TakeVerdict, Fail
  <2>. QED BY <2>1
<1>9. CASE StartDone
  BY <1>9 DEF StartDone
<1>10. CASE CommitResult
  <2>1. UNCHANGED <<pc, signal, aborted, failure, verdict>> /\ pc = "committing"
    BY <1>10, Zenon DEF CommitResult
  <2>. QED BY <2>1
<1>11. CASE ResultRefused
  BY <1>11 DEF ResultRefused, Fail
<1>12. CASE FinalizeBegins
  BY <1>12 DEF FinalizeBegins
<1>13. CASE FinalizeSettles
  BY <1>13 DEF FinalizeSettles
<1>14. CASE FinalizeRejects
  BY <1>14 DEF FinalizeRejects, Fail
<1>15. CASE NothingReady
  BY <1>15 DEF NothingReady
<1>16. CASE Committed
  BY <1>16 DEF Committed, Refills
<1>17. CASE RaceYields
  BY <1>17 DEF RaceYields, LeavesRace
<1>18. CASE LeavesAborted
  BY <1>18 DEF LeavesAborted, Cursors, Fleet, Running
<1>19. CASE SkipRefused
  BY <1>19 DEF SkipRefused, Cursors, Fleet, Running
<1>20. CASE LeavesGroup
  BY <1>20 DEF LeavesGroup, Cursors, Fleet, Running
<1>21. CASE Drained
  BY <1>21 DEF Drained, AllSettled, Fleet, Running
<1>22. ASSUME NEW c \in Calls, BodyStarts(c) PROVE Control'
  <2>1. c \in Running
    BY <1>22 DEF BodyStarts, Running
  <2>. QED BY <1>22, <2>1 DEF BodyStarts
<1>23. ASSUME NEW c \in Calls, DispatchSettles(c) PROVE Control'
  <2>1. c \in Running /\ Running' \subseteq Running
    BY <1>23 DEF DispatchSettles, Running, TypeOK
  <2>. QED BY <1>23, <2>1 DEF DispatchSettles
<1>24. ASSUME NEW c \in Calls, DispatchRejects(c) PROVE Control'
  <2>1. c \in Running /\ Running' \subseteq Running
    BY <1>24 DEF DispatchRejects, Running, TypeOK
  <2>2. pc \notin {"classify", "leaving"} /\ pc \notin FinalPcs
    BY <2>1 DEF Cursors, Fleet
  <2>. QED BY <1>24, <2>1, <2>2 DEF DispatchRejects, Yielded, SyncPcs
<1>25. CASE Abort
  BY <1>25 DEF Abort
<1>26. ASSUME NEW c \in Calls, Reclassify(c) PROVE Control'
  BY <1>26 DEF Reclassify
<1>27. CASE UNCHANGED vars
  BY <1>27 DEF vars, Running
<1>. QED BY <1>1, <1>2, <1>3, <1>4, <1>5, <1>6, <1>7, <1>8, <1>9, <1>10, <1>11, <1>12,
            <1>13, <1>14, <1>15, <1>16, <1>17, <1>18, <1>19, <1>20, <1>21, <1>22, <1>23,
            <1>24, <1>25, <1>26, <1>27
         DEF Next, Progress

\* Accounts: a call gets a slot when its dispatch or its preparation is over,
\* and the race lets nothing go that has not settled.
LEMMA AccountsStep == TypeOK /\ Ledger /\ [Next]_vars => Accounts'
<1>. SUFFICES ASSUME TypeOK, Ledger, [Next]_vars PROVE Accounts'
  OBVIOUS
<1>. USE Numbers DEF Ledger, Accounts, SlotsTrue, NoneForgotten, TurnKept, Preparing, Running, group, tools
<1>1. CASE Classify
  BY <1>1 DEF Classify, Cursors
<1>2. CASE StartCall
  <2>1. started + 1 \in Calls
    BY <1>2 DEF StartCall, MayStart, Calls
  <2>2. ~failure /\ pc' = "appended" /\ started' = started + 1
    BY <1>2 DEF StartCall, Control
  <2>. QED BY <1>2, <2>1, <2>2 DEF StartCall
<1>3. CASE CallRefused
  BY <1>3 DEF CallRefused, Fail
<1>4. CASE PoolFilled
  BY <1>4 DEF PoolFilled
<1>5. CASE PrepareBegins
  BY <1>5 DEF PrepareBegins
<1>6. CASE PrepareSettles
  BY <1>6 DEF PrepareSettles
<1>7. CASE PrepareRejects
  BY <1>7 DEF PrepareRejects, Fail
<1>8. CASE Prepared
  <2>1. CASE failure /\ Fail /\ UNCHANGED <<verdict, slots, inFlight, stage>>
    BY <1>8, <2>1 DEF Prepared, Fail
  <2>2. CASE ~failure /\ TakeVerdict
    <3>1. started \in Calls /\ pc' = "startDone" /\ Untouched(started)
      BY <1>8, <2>2 DEF Prepared, TakeVerdict, Cursors, Calls, Fleet
    <3>2. UNCHANGED <<started, committed, invoked>> /\ ~failure'
      BY <1>8, <2>2 DEF Prepared, TakeVerdict
    <3>3. CASE verdict.kind = "dispatch"
      <4>1. UNCHANGED slots /\ stage' = [stage EXCEPT ![started] = "wrapped"]
        BY <2>2, <3>3 DEF TakeVerdict
      <4>2. \A c \in Calls : stage'[c] = IF c = started THEN "wrapped" ELSE stage[c]
        BY <3>1, <4>1 DEF TypeOK
      <4>3. SlotsTrue'
        BY <3>1, <3>2, <4>1, <4>2 DEF Untouched
      <4>4. NoneForgotten'
        <5>. SUFFICES ASSUME NEW d \in (committed + 1)..started
                      PROVE  d \in Running' \/ slots'[d].kind # "none"
          BY <3>2
        <5>1. d \in Calls
          BY DEF Calls
        <5>2. d # started => d \in Running \/ slots[d].kind # "none"
          BY <2>2
        <5>. QED BY <3>1, <3>2, <4>2, <4>1, <5>1, <5>2
      <4>. QED BY <3>1, <4>3, <4>4
    <3>4. CASE verdict.kind # "dispatch"
      <4>1. slots' = [slots EXCEPT ![started] = verdict] /\ UNCHANGED <<inFlight, stage>>
        BY <2>2, <3>4 DEF TakeVerdict
      <4>2. verdict.kind # "none" /\ verdict.outcome \in {"error", "unstarted"}
        BY <1>8, <3>4 DEF Prepared, Control
      <4>3. slots'[started] = verdict /\ \A c \in Calls : c # started => slots'[c] = slots[c]
        BY <3>1, <4>1 DEF TypeOK
      <4>4. SlotsTrue'
        BY <3>1, <3>2, <4>1, <4>2, <4>3 DEF Untouched
      <4>5. NoneForgotten'
        <5>. SUFFICES ASSUME NEW d \in (committed + 1)..started
                      PROVE  d \in Running' \/ slots'[d].kind # "none"
          BY <3>2
        <5>1. d \in Calls
          BY DEF Calls
        <5>2. d # started => d \in Running \/ slots[d].kind # "none"
          BY <2>2
        <5>. QED BY <3>1, <3>2, <4>1, <4>2, <4>3, <5>1, <5>2
      <4>. QED BY <3>1, <4>4, <4>5
    <3>. QED BY <3>3, <3>4
  <2>. QED BY <1>8, <2>1, <2>2 DEF Prepared
<1>9. CASE StartDone
  BY <1>9 DEF StartDone
<1>10. CASE CommitResult
  <2>1. committed + 1 \in Calls /\ slots[committed + 1].kind = "final" /\ committed' = committed + 1
    BY <1>10, SlotTypes, Zenon DEF CommitResult, Ready, NextToCommit
  <2>2. UNCHANGED <<pc, started, failure, inFlight, stage, invoked>> /\ pc = "committing"
    BY <1>10, Zenon DEF CommitResult
  <2>3. \A c \in Calls : /\ slots'[c].kind = slots[c].kind
                         /\ slots'[c] = slots[c] \/ (c = committed + 1 /\ slots'[c].outcome = "none")
    BY <1>10, SlotEmptied DEF NextToCommit
  <2>4. SlotsTrue'
    BY <2>1, <2>2, <2>3 DEF NoSlot
  <2>5. NoneForgotten'
    BY <2>1, <2>2, <2>3 DEF Calls
  <2>. QED BY <2>2, <2>4, <2>5
<1>11. CASE ResultRefused
  BY <1>11 DEF ResultRefused, Fail
<1>12. CASE FinalizeBegins
  BY <1>12 DEF FinalizeBegins, Ready, NextToCommit
<1>13. CASE FinalizeSettles
  <2>1. PICK outcome \in {slots[NextToCommit].outcome, "error"} :
           slots' = [slots EXCEPT ![NextToCommit] =
                        [kind |-> "final", outcome |-> AfterCancel(NextToCommit, outcome)]]
    BY <1>13 DEF FinalizeSettles
  <2>2. NextToCommit \in Calls /\ slots[NextToCommit].kind = "post"
    BY <1>13, SlotTypes DEF FinalizeSettles, Ready
  <2>3. \A c \in Calls : c # NextToCommit => slots'[c] = slots[c]
    BY <2>1, <2>2 DEF TypeOK
  <2>4. slots'[NextToCommit] = [kind |-> "final", outcome |-> AfterCancel(NextToCommit, outcome)]
    BY <2>1, <2>2 DEF TypeOK
  <2>5. /\ AfterCancel(NextToCommit, outcome) = "unstarted" => NextToCommit \notin invoked
        /\ AfterCancel(NextToCommit, outcome) \in {"aborted", "concluding"} => NextToCommit \in invoked
    BY <2>1, <2>2 DEF AfterCancel, CancelledOutcome
  <2>6. NextToCommit \notin Running
    BY <2>2 DEF NoSlot
  <2>7. UNCHANGED <<started, committed, failure, inFlight, stage, invoked>> /\ pc' = "committing" /\ pc = "finalizing"
    BY <1>13 DEF FinalizeSettles
  <2>8. SlotsTrue'
    BY <2>2, <2>3, <2>4, <2>5, <2>6, <2>7
  <2>9. NoneForgotten'
    BY <2>2, <2>3, <2>4, <2>7 DEF Calls
  <2>. QED BY <2>7, <2>8, <2>9
<1>14. CASE FinalizeRejects
  BY <1>14 DEF FinalizeRejects, Fail
<1>15. CASE NothingReady
  <2>1. committed < started => committed + 1 \in Calls /\ committed + 1 <= groupEnd /\ pc = "committing"
    BY <1>15 DEF NothingReady, Cursors, Calls
  <2>2. ~failure /\ committed < started => committed + 1 \in inFlight
    BY <1>15, <2>1 DEF NothingReady, NextToCommit, Fleet
  <2>. QED BY <1>15, <2>2 DEF NothingReady
<1>16. CASE Committed
  BY <1>16 DEF Committed, Refills
<1>17. CASE RaceYields
  BY <1>17 DEF RaceYields, LeavesRace
<1>18. CASE LeavesAborted
  BY <1>18 DEF LeavesAborted
<1>19. CASE SkipRefused
  BY <1>19 DEF SkipRefused
<1>20. CASE LeavesGroup
  BY <1>20 DEF LeavesGroup
<1>21. CASE Drained
  BY <1>21 DEF Drained
<1>22. ASSUME NEW c \in Calls, BodyStarts(c) PROVE Accounts'
  <2>1. c \in Running /\ Running' = Running
    BY <1>22 DEF BodyStarts, TypeOK
  <2>2. slots[c].outcome = "none"
    BY <2>1 DEF NoSlot
  <2>3. \A d \in Calls : stage'[d] = IF d = c THEN "body" ELSE stage[d]
    BY <1>22 DEF BodyStarts, TypeOK
  <2>4. SlotsTrue'
    BY <1>22, <2>1, <2>2, <2>3 DEF BodyStarts
  <2>5. NoneForgotten'
    BY <1>22, <2>1 DEF BodyStarts
  <2>6. TurnKept'
    BY <1>22 DEF BodyStarts, Ready, NextToCommit
  <2>. QED BY <2>4, <2>5, <2>6
<1>23. ASSUME NEW c \in Calls, DispatchSettles(c) PROVE Accounts'
  <2>1. PICK kind \in {"post", "final"}, outcome \in Outcomes :
           /\ slots' = [slots EXCEPT ![c] = [kind |-> kind, outcome |-> outcome]]
           /\ outcome = "unstarted" => c \notin invoked
           /\ outcome \in {"aborted", "concluding"} => c \in invoked
    <3>1. CASE slots' = [slots EXCEPT ![c] = [kind |-> "final", outcome |-> "error"]]
      BY <3>1 DEF Outcomes
    <3>2. ASSUME NEW outcome \in {"ok", "concluding", "error", CancelledOutcome(c)},
                 outcome = "concluding" => c \in invoked,
                 slots' = [slots EXCEPT ![c] = [kind |-> "post", outcome |-> AfterCancel(c, outcome)]]
          PROVE  \E kind \in {"post", "final"}, o \in Outcomes :
                    /\ slots' = [slots EXCEPT ![c] = [kind |-> kind, outcome |-> o]]
                    /\ o = "unstarted" => c \notin invoked
                    /\ o \in {"aborted", "concluding"} => c \in invoked
      <4>1. /\ AfterCancel(c, outcome) \in Outcomes
            /\ AfterCancel(c, outcome) = "unstarted" => c \notin invoked
            /\ AfterCancel(c, outcome) \in {"aborted", "concluding"} => c \in invoked
        BY <3>2 DEF AfterCancel, CancelledOutcome, Outcomes
      <4>. QED BY <3>2, <4>1
    <3>. QED BY <1>23, <3>1, <3>2, Zenon DEF DispatchSettles
  <2>2. slots'[c] = [kind |-> kind, outcome |-> outcome] /\ (\A d \in Calls : d # c => slots'[d] = slots[d])
    BY <2>1 DEF TypeOK
  <2>3. \A d \in Calls : stage'[d] = IF d = c THEN "done" ELSE stage[d]
    BY <1>23 DEF DispatchSettles, TypeOK
  <2>4. c \in Running /\ slots[c].kind = "none"
    BY <1>23 DEF DispatchSettles, NoSlot
  <2>5. UNCHANGED <<pc, started, committed, failure, inFlight, invoked>>
    BY <1>23 DEF DispatchSettles
  <2>6. ~(pc = "finalizing" /\ c = NextToCommit)
    BY <2>4 DEF Ready
  <2>7. pc = "finalizing" => NextToCommit \in Calls /\ Ready("post")
    BY SlotTypes DEF Ready
  <2>8. pc' = "finalizing" => Ready("post")'
    BY <1>23, <2>2, <2>5, <2>6, <2>7 DEF Ready, NextToCommit, DispatchSettles
  <2>9. \A d \in Calls : d \in Running' => d \in Running /\ d # c
    BY <2>3
  <2>10. \A d \in Calls :
           /\ d \in Running' => slots'[d] = NoSlot
           /\ stage'[d] \in {"idle", "wrapped"} => d \notin invoked'
           /\ slots'[d].outcome = "unstarted" => d \notin invoked'
           /\ slots'[d].outcome \in {"aborted", "concluding"} => d \in invoked'
    BY <2>1, <2>2, <2>3, <2>5, <2>9
  <2>11. \A d \in (committed + 1)..started :
           (d \in Running \/ slots[d].kind # "none") => (d \in Running' \/ slots'[d].kind # "none")
    BY <2>2, <2>3, <2>4 DEF Calls
  <2>. QED BY <2>5, <2>8, <2>10, <2>11
<1>24. ASSUME NEW c \in Calls, DispatchRejects(c) PROVE Accounts'
  <2>1. \A d \in Calls : stage'[d] = IF d = c THEN "done" ELSE stage[d]
    BY <1>24 DEF DispatchRejects, TypeOK
  <2>2. pc' = "finalizing" => Ready("post")'
    BY <1>24 DEF DispatchRejects, Ready, NextToCommit
  <2>. QED BY <1>24, <2>1, <2>2 DEF DispatchRejects
<1>25. CASE Abort
  BY <1>25 DEF Abort, Ready, NextToCommit
<1>26. ASSUME NEW c \in Calls, Reclassify(c) PROVE Accounts'
  BY <1>26 DEF Reclassify, Ready, NextToCommit
<1>27. CASE UNCHANGED vars
  BY <1>27 DEF vars, Ready, NextToCommit
<1>. QED BY <1>1, <1>2, <1>3, <1>4, <1>5, <1>6, <1>7, <1>8, <1>9, <1>10, <1>11, <1>12,
            <1>13, <1>14, <1>15, <1>16, <1>17, <1>18, <1>19, <1>20, <1>21, <1>22, <1>23,
            <1>24, <1>25, <1>26, <1>27
         DEF Next, Progress

-----------------------------------------------------------------------------
\* Transcript: what a step that appends nothing owes to it.
LogKept ==
    /\ UNCHANGED <<log, started, committed, callSeq, concluded>>
    /\ pc \in FinalPcs => UNCHANGED <<pc, failure>>
    /\ pc = "draining" => pc' \in {"draining", "thrown"}
    /\ failure => failure'
    /\ \A c \in Calls : slots[c].kind = "final" => slots'[c].kind = "final"

Appends == StartCall \/ CommitResult \/ ResultRefused \/ LeavesAborted \/ SkipRefused

\* The events' fields are typed.
LEMMA EventTypes ==
    TypeOK => \A j \in DOMAIN log : /\ j \in Nat \ {0} /\ log[j] \in Event /\ log[j].call \in Calls
                                     /\ log[j].kind \in {"call", "result"} /\ log[j].cites \in Nat
<1>. SUFFICES ASSUME TypeOK, NEW j \in DOMAIN log
              PROVE  /\ j \in Nat \ {0} /\ log[j] \in Event /\ log[j].call \in Calls
                     /\ log[j].kind \in {"call", "result"} /\ log[j].cites \in Nat
  OBVIOUS
<1>1. j \in Nat \ {0} /\ log[j] \in Event
  BY DEF TypeOK
<1>. QED BY <1>1 DEF Event

\* A step that appends nothing keeps final slots final and final places final.
LEMMA Quiet == TypeOK /\ Ledger /\ [Next]_vars /\ ~Appends => LogKept
<1>. SUFFICES ASSUME TypeOK, Ledger, [Next]_vars, ~Appends PROVE LogKept
  OBVIOUS
<1>. USE Numbers DEF LogKept, FinalPcs, Appends, group, tools, registry
<1>1. CASE Classify
  BY <1>1 DEF Classify
<1>2. CASE CallRefused
  BY <1>2 DEF CallRefused, Fail
<1>3. CASE PoolFilled
  BY <1>3 DEF PoolFilled
<1>4. CASE PrepareBegins
  BY <1>4 DEF PrepareBegins
<1>5. CASE PrepareSettles
  BY <1>5 DEF PrepareSettles
<1>6. CASE PrepareRejects
  BY <1>6 DEF PrepareRejects, Fail
<1>7. CASE Prepared
  <2>1. CASE failure /\ Fail /\ UNCHANGED <<verdict, slots, inFlight, stage>>
    BY <1>7, <2>1 DEF Prepared, Fail
  <2>2. CASE ~failure /\ TakeVerdict
    <3>1. started \in Calls /\ slots[started].kind = "none"
      BY <1>7 DEF Prepared, Ledger, Cursors, Fleet, Preparing, Untouched, NoSlot, Calls
    <3>2. \A c \in Calls : c # started => slots'[c] = slots[c]
      BY <2>2 DEF TakeVerdict, TypeOK
    <3>. QED BY <1>7, <2>2, <3>1, <3>2 DEF Prepared, TakeVerdict
  <2>. QED BY <1>7, <2>1, <2>2 DEF Prepared
<1>8. CASE StartDone
  BY <1>8 DEF StartDone
<1>9. CASE FinalizeBegins
  BY <1>9 DEF FinalizeBegins
<1>10. CASE FinalizeSettles
  <2>1. NextToCommit \in Calls /\ slots[NextToCommit].kind = "post"
    BY <1>10, SlotTypes DEF FinalizeSettles, Ledger, Accounts, TurnKept, Ready
  <2>2. \A c \in Calls : c # NextToCommit => slots'[c] = slots[c]
    BY <1>10, <2>1 DEF FinalizeSettles, TypeOK
  <2>. QED BY <1>10, <2>1, <2>2 DEF FinalizeSettles
<1>11. CASE FinalizeRejects
  BY <1>11 DEF FinalizeRejects, Fail
<1>12. CASE NothingReady
  BY <1>12 DEF NothingReady
<1>13. CASE Committed
  BY <1>13 DEF Committed, Refills
<1>14. CASE RaceYields
  BY <1>14 DEF RaceYields, LeavesRace
<1>15. CASE LeavesGroup
  BY <1>15 DEF LeavesGroup
<1>16. CASE Drained
  BY <1>16 DEF Drained
<1>17. ASSUME NEW c \in Calls, BodyStarts(c) PROVE LogKept
  BY <1>17 DEF BodyStarts
<1>18. ASSUME NEW c \in Calls, DispatchSettles(c) PROVE LogKept
  <2>1. slots[c].kind = "none"
    BY <1>18 DEF DispatchSettles, Ledger, Accounts, SlotsTrue, NoSlot
  <2>2. \A d \in Calls : d # c => slots'[d] = slots[d]
    BY <1>18 DEF DispatchSettles, TypeOK
  <2>. QED BY <1>18, <2>1, <2>2 DEF DispatchSettles
<1>19. ASSUME NEW c \in Calls, DispatchRejects(c) PROVE LogKept
  <2>1. pc \notin FinalPcs
    BY <1>19 DEF DispatchRejects, Ledger, Control
  <2>. QED BY <1>19, <2>1 DEF DispatchRejects
<1>20. CASE Abort
  BY <1>20 DEF Abort
<1>21. ASSUME NEW c \in Calls, Reclassify(c) PROVE LogKept
  BY <1>21 DEF Reclassify
<1>22. CASE UNCHANGED vars
  BY <1>22 DEF vars
<1>. QED BY <1>1, <1>2, <1>3, <1>4, <1>5, <1>6, <1>7, <1>8, <1>9, <1>10, <1>11, <1>12,
            <1>13, <1>14, <1>15, <1>16, <1>17, <1>18, <1>19, <1>20, <1>21, <1>22
         DEF Next, Progress

\* The transcript is kept by a step that appends nothing.
LEMMA TranscriptQuiet == TypeOK /\ Ledger /\ LogKept => Transcript' /\ ModelOrder'
<1>. SUFFICES ASSUME TypeOK, Ledger, LogKept PROVE Transcript' /\ ModelOrder'
  OBVIOUS
<1>. USE DEF LogKept, Ledger, Transcript
<1>1. CallsLogged'
  BY DEF CallsLogged
<1>2. LogBounded'
  BY DEF LogBounded
<1>3. ResultsKept'
  BY EventTypes DEF ResultsKept, FinalPcs
<1>4. CommittedAnswered'
  BY DEF CommittedAnswered
<1>5. ConcludedTrue'
  BY DEF ConcludedTrue
<1>6. ModelOrder'
  BY DEF ModelOrder
<1>. QED BY <1>1, <1>2, <1>3, <1>4, <1>5, <1>6

\* A recorded call is over: no body will run that was reported not to have run.
LEMMA RecordedOver ==
    TypeOK /\ Ledger => \A j \in DOMAIN log : log[j].kind = "result" => log[j].call \notin Running
<1>. SUFFICES ASSUME TypeOK, Ledger, NEW j \in DOMAIN log, log[j].kind = "result"
              PROVE  log[j].call \notin Running
  OBVIOUS
<1>1. CASE slots[log[j].call].kind = "final"
  BY <1>1, EventTypes DEF Ledger, Accounts, SlotsTrue, NoSlot
<1>2. CASE pc \in FinalPcs
  BY <1>2 DEF Ledger, Control
<1>. QED BY <1>1, <1>2 DEF Ledger, Transcript, ResultsKept

\* Only a body that starts adds to the bodies that ran.
LEMMA InvokedStep ==
    TypeOK /\ [Next]_vars => invoked' = invoked \/ \E c \in Running : invoked' = invoked \cup {c}
<1>. SUFFICES ASSUME TypeOK, [Next]_vars
              PROVE  invoked' = invoked \/ \E c \in Running : invoked' = invoked \cup {c}
  OBVIOUS
<1>1. ASSUME NEW c \in Calls, BodyStarts(c) PROVE c \in Running /\ invoked' = invoked \cup {c}
  BY <1>1 DEF BodyStarts, Running
<1>2. CASE CommitResult
  BY <1>2, Zenon DEF CommitResult, tools
<1>3. CASE ResultRefused
  BY <1>3, Zenon DEF ResultRefused, tools
<1>4. ASSUME NEW c \in Calls, DispatchSettles(c) \/ DispatchRejects(c) \/ Reclassify(c) PROVE invoked' = invoked
  BY <1>4 DEF DispatchSettles, DispatchRejects, Reclassify, tools
<1>5. CASE Classify \/ StartCall \/ CallRefused \/ PoolFilled \/ PrepareBegins \/ PrepareSettles \/ PrepareRejects \/ Prepared
  BY <1>5 DEF Classify, StartCall, CallRefused, PoolFilled, PrepareBegins, PrepareSettles, PrepareRejects, Prepared, tools
<1>6. CASE StartDone \/ FinalizeBegins \/ FinalizeSettles \/ FinalizeRejects \/ NothingReady \/ Committed \/ RaceYields
  BY <1>6 DEF StartDone, FinalizeBegins, FinalizeSettles, FinalizeRejects, NothingReady, Committed, RaceYields, tools
<1>7. CASE LeavesAborted \/ SkipRefused \/ LeavesGroup \/ Drained \/ Abort \/ UNCHANGED vars
  BY <1>7 DEF LeavesAborted, SkipRefused, LeavesGroup, Drained, Abort, tools, vars
<1>. QED BY <1>1, <1>2, <1>3, <1>4, <1>5, <1>6, <1>7 DEF Next, Progress

\* Honest outcomes survive a step that appends nothing.
LEMMA HonestQuiet == TypeOK /\ Ledger /\ [Next]_vars /\ LogKept => HonestOutcome'
<1>. SUFFICES ASSUME TypeOK, Ledger, [Next]_vars, LogKept PROVE HonestOutcome'
  OBVIOUS
<1>1. \A j \in DOMAIN log : log[j].kind = "result" => (log[j].call \in invoked' <=> log[j].call \in invoked)
  BY RecordedOver, InvokedStep
<1>. QED BY <1>1 DEF LogKept, Ledger, HonestOutcome

\* The step returns from its last group, or aborted.
LEMMA ReturnStep ==
    TypeOK /\ [Next]_vars /\ pc' = "returned" =>
        \/ pc = "returned"
        \/ LeavesAborted
        \/ pc = "leaving" /\ committed = started /\ started = NumCalls
<1>. SUFFICES ASSUME TypeOK, [Next]_vars, pc' = "returned", pc # "returned", ~LeavesAborted
              PROVE  pc = "leaving" /\ committed = started /\ started = NumCalls
  BY Zenon
<1>1. CASE CommitResult
  BY <1>1, Zenon DEF CommitResult
<1>2. CASE LeavesGroup
  BY <1>2 DEF LeavesGroup
<1>3. ASSUME NEW c \in Calls, BodyStarts(c) \/ DispatchSettles(c) \/ DispatchRejects(c) \/ Reclassify(c) PROVE FALSE
  BY <1>3 DEF BodyStarts, DispatchSettles, DispatchRejects, Reclassify
<1>4. CASE Classify \/ StartCall \/ CallRefused \/ PoolFilled \/ PrepareBegins \/ PrepareSettles \/ PrepareRejects
  BY <1>4 DEF Classify, StartCall, CallRefused, PoolFilled, PrepareBegins, PrepareSettles, PrepareRejects, Fail
<1>5. CASE Prepared \/ StartDone \/ ResultRefused \/ FinalizeBegins \/ FinalizeSettles \/ FinalizeRejects \/ NothingReady
  BY <1>5 DEF Prepared, TakeVerdict, StartDone, ResultRefused, FinalizeBegins, FinalizeSettles, FinalizeRejects, NothingReady, Fail
<1>6. CASE Committed \/ RaceYields \/ SkipRefused \/ Drained \/ Abort \/ UNCHANGED vars
  BY <1>6 DEF Committed, Refills, RaceYields, SkipRefused, Drained, Abort, vars
<1>. QED BY <1>1, <1>2, <1>3, <1>4, <1>5, <1>6 DEF Next, Progress

\* What a step that appends nothing leaves answered: the last group returns with
\* every call committed, and a scheduler that returned does nothing more.
LEMMA AnsweredQuiet == TypeOK /\ Ledger /\ Control' /\ [Next]_vars /\ ~LeavesAborted /\ LogKept => AllAnswered'
<1>. SUFFICES ASSUME TypeOK, Ledger, Control', [Next]_vars, ~LeavesAborted, LogKept, pc' = "returned"
              PROVE  AllAnswered'
  BY DEF AllAnswered
<1>1. Running' = {} /\ log' = log /\ concluded' = concluded /\ ~failure'
  BY DEF Control, FinalPcs, LogKept
<1>2. CASE pc = "returned"
  BY <1>1, <1>2 DEF Ledger, AllAnswered
<1>3. CASE pc # "returned"
  <2>1. CASE pc = "leaving" /\ committed = started /\ started = NumCalls
    BY <1>1, <2>1 DEF Ledger, Control, Transcript, CommittedAnswered, ConcludedTrue, AllAnswered, Calls
  <2>. QED BY <1>3, <2>1, ReturnStep
<1>. QED BY <1>2, <1>3

-----------------------------------------------------------------------------
\* Appending: the log and its new last event.
LEMMA AppendFacts ==
    ASSUME TypeOK, NEW e \in Event, log' = Append(log, e)
    PROVE  /\ Len(log) \in Nat /\ DOMAIN log = 1..Len(log) /\ DOMAIN log' = 1..(Len(log) + 1)
           /\ \A j \in DOMAIN log : log'[j] = log[j]
           /\ log'[Len(log) + 1] = e
BY DEF TypeOK

\* One event more keeps the model order if it is the last of its kind and, a
\* result, cites its call.
LEMMA OrderAppend ==
    ASSUME TypeOK, ModelOrder, NEW e \in Event, log' = Append(log, e),
           \A j \in DOMAIN log : log[j].kind = e.kind => log[j].call < e.call,
           e.kind = "result" => e.cites \in DOMAIN log /\ log[e.cites] = CallEvent(e.call)
    PROVE  ModelOrder'
<1>. DEFINE n == Len(log)
<1>1. n \in Nat /\ DOMAIN log = 1..n /\ DOMAIN log' = 1..(n + 1) /\ log'[n + 1] = e
  BY AppendFacts
<1>2. \A j \in 1..n : log'[j] = log[j]
  BY AppendFacts
<1>. HIDE DEF n
<1>3. ASSUME NEW i \in DOMAIN log', NEW j \in DOMAIN log', i < j, log'[i].kind = log'[j].kind
      PROVE  log'[i].call < log'[j].call
  <2>1. CASE j = n + 1
    BY <1>1, <1>2, <1>3, <2>1
  <2>2. CASE j \in 1..n
    BY <1>1, <1>2, <1>3, <2>2 DEF ModelOrder
  <2>. QED BY <1>1, <2>1, <2>2
<1>4. ASSUME NEW j \in DOMAIN log', log'[j].kind = "result"
      PROVE  log'[j].cites \in 1..(j - 1) /\ log'[log'[j].cites] = CallEvent(log'[j].call)
  <2>1. CASE j = n + 1
    BY <1>1, <1>2, <1>4, <2>1
  <2>2. CASE j \in 1..n
    <3>1. log'[j] = log[j] /\ log[j].cites \in 1..(j - 1) /\ log[log[j].cites] = CallEvent(log[j].call)
      BY <1>1, <1>2, <1>4, <2>2 DEF ModelOrder
    <3>2. log[j].cites \in 1..n
      BY <1>1, <2>2, <3>1
    <3>. QED BY <1>2, <3>1, <3>2
  <2>. QED BY <1>1, <2>1, <2>2
<1>. QED BY <1>3, <1>4 DEF ModelOrder, CallEvent

\* A started call is the last one called.
LEMMA TranscriptStart ==
    TypeOK /\ Ledger /\ StartCall => Transcript' /\ ModelOrder' /\ HonestOutcome' /\ AllAnswered'
<1>. SUFFICES ASSUME TypeOK, Ledger, StartCall
              PROVE  Transcript' /\ ModelOrder' /\ HonestOutcome' /\ AllAnswered'
  OBVIOUS
<1>. DEFINE c == started + 1
            e == CallEvent(c)
<1>1. c \in Calls /\ c \in Nat /\ started \in Nat /\ committed \in Nat /\ committed <= started
  BY Numbers DEF StartCall, MayStart, Calls, Ledger, Cursors
<1>2. e \in Event /\ e.kind = "call" /\ e.call = c /\ e.outcome = "none"
  BY <1>1, OutcomeTypes DEF CallEvent
<1>3. log' = Append(log, e) /\ started' = c /\ pc = "filling" /\ pc' = "appended"
  BY DEF StartCall
<1>4. callSeq' = [callSeq EXCEPT ![c] = Len(log) + 1]
  BY DEF StartCall
<1>5. UNCHANGED <<committed, failure, concluded, slots, invoked>>
  BY DEF StartCall, tools
<1>. HIDE DEF e
<1>6. /\ Len(log) \in Nat /\ DOMAIN log = 1..Len(log) /\ DOMAIN log' = 1..(Len(log) + 1)
      /\ \A j \in DOMAIN log : log'[j] = log[j]
      /\ log'[Len(log) + 1] = e
  BY <1>2, <1>3, AppendFacts
<1>7. \A j \in DOMAIN log : log[j].call \in Nat /\ log[j].call <= started
  BY <1>3, EventTypes DEF Ledger, Transcript, LogBounded, FinalPcs, Calls
<1>8. CallsLogged'
  <2>1. callSeq'[c] = Len(log) + 1 /\ \A d \in 1..started : callSeq'[d] = callSeq[d]
    BY <1>1, <1>4, Numbers DEF TypeOK, Calls
  <2>2. \A d \in 1..started : callSeq[d] \in DOMAIN log /\ log[callSeq[d]] = CallEvent(d)
    BY DEF Ledger, Transcript, CallsLogged
  <2>3. e = CallEvent(c)
    BY DEF e
  <2>. SUFFICES ASSUME NEW d \in 1..c PROVE callSeq'[d] \in DOMAIN log' /\ log'[callSeq'[d]] = CallEvent(d)
    BY <1>3 DEF CallsLogged, CallEvent
  <2>4. CASE d = c
    BY <1>6, <2>1, <2>3, <2>4
  <2>5. CASE d \in 1..started
    BY <1>6, <2>1, <2>2, <2>5
  <2>. QED BY <1>1, <2>4, <2>5
<1>9. LogBounded'
  BY <1>1, <1>2, <1>3, <1>6, <1>7 DEF LogBounded
<1>10. ResultsKept'
  BY <1>2, <1>3, <1>5, <1>6 DEF ResultsKept, Ledger, Transcript, FinalPcs
<1>11. CommittedAnswered'
  BY <1>5, <1>6 DEF CommittedAnswered, Ledger, Transcript
<1>12. ConcludedTrue'
  BY <1>2, <1>5, <1>6 DEF ConcludedTrue, Ledger, Transcript
<1>13. ModelOrder'
  BY <1>1, <1>2, <1>3, <1>7, OrderAppend DEF Ledger
<1>14. HonestOutcome'
  BY <1>2, <1>5, <1>6 DEF HonestOutcome, Ledger
<1>15. AllAnswered'
  BY <1>3 DEF AllAnswered
<1>. QED BY <1>8, <1>9, <1>10, <1>11, <1>12, <1>13, <1>14, <1>15 DEF Transcript

\* Committing: the result that is due.
Due == ResultEvent(NextToCommit, slots[NextToCommit].outcome, callSeq[NextToCommit])

\* It is of a started call, comes after every result so far, cites its own call
\* and tells what became of the body.
LEMMA DueFacts ==
    ASSUME TypeOK, Ledger, pc = "committing", Ready("final")
    PROVE  /\ NextToCommit \in Calls /\ NextToCommit <= started /\ NextToCommit = committed + 1
           /\ Due \in Event /\ Due.kind = "result" /\ Due.call = NextToCommit
           /\ Due.cites \in DOMAIN log /\ log[Due.cites] = CallEvent(Due.call)
           /\ Due.outcome = "unstarted" => NextToCommit \notin invoked
           /\ Due.outcome \in {"aborted", "concluding"} => NextToCommit \in invoked
           /\ Due.outcome = "concluding" <=> slots[NextToCommit].outcome = "concluding"
           /\ \A j \in DOMAIN log : log[j].kind = "result" => log[j].call < NextToCommit
<1>1. NextToCommit \in Calls /\ NextToCommit = committed + 1 /\ slots[NextToCommit].kind = "final"
  BY SlotTypes DEF Ready, NextToCommit
<1>2. NextToCommit <= started
  BY <1>1, Numbers DEF Ledger, Fleet, Untouched, NoSlot, Calls
<1>3. Due \in Event
  BY <1>1, SlotTypes, OutcomeTypes DEF Due, TypeOK
<1>4. Due.kind = "result" /\ Due.call = NextToCommit /\ Due.cites = callSeq[NextToCommit]
      /\ Due.outcome = Told(slots[NextToCommit].outcome)
  BY DEF Due, ResultEvent
<1>5. callSeq[NextToCommit] \in DOMAIN log /\ log[callSeq[NextToCommit]] = CallEvent(NextToCommit)
  BY <1>1, <1>2, Numbers DEF Ledger, Transcript, CallsLogged, Calls
<1>6. /\ Due.outcome = "unstarted" => NextToCommit \notin invoked
      /\ Due.outcome \in {"aborted", "concluding"} => NextToCommit \in invoked
      /\ Due.outcome = "concluding" <=> slots[NextToCommit].outcome = "concluding"
  BY <1>1, <1>4 DEF Told, Ledger, Accounts, SlotsTrue
<1>7. \A j \in DOMAIN log : log[j].kind = "result" => log[j].call < NextToCommit
  BY <1>1, EventTypes, Numbers DEF Ledger, Transcript, ResultsKept, FinalPcs, Calls
<1>. QED BY <1>1, <1>2, <1>3, <1>4, <1>5, <1>6, <1>7

\* What the appended result keeps, whether or not the append is then refused.
LEMMA DueAppended ==
    ASSUME TypeOK, Ledger, pc = "committing", Ready("final"), log' = Append(log, Due),
           UNCHANGED <<started, callSeq, invoked>>, pc' \in {"committing", "draining"}
    PROVE  CallsLogged' /\ LogBounded' /\ ModelOrder' /\ HonestOutcome' /\ AllAnswered'
<1>1. /\ Len(log) \in Nat /\ DOMAIN log = 1..Len(log) /\ DOMAIN log' = 1..(Len(log) + 1)
      /\ \A j \in DOMAIN log : log'[j] = log[j]
      /\ log'[Len(log) + 1] = Due
  BY DueFacts, AppendFacts
<1>2. CallsLogged'
  <2>1. \A c \in 1..started : callSeq[c] \in DOMAIN log /\ log[callSeq[c]] = CallEvent(c)
    BY DEF CallsLogged, Ledger, Transcript
  <2>2. \A c \in 1..started : callSeq'[c] \in DOMAIN log' /\ log'[callSeq'[c]] = CallEvent(c)
    BY <1>1, <2>1
  <2>. QED BY <2>2 DEF CallsLogged, CallEvent
<1>3. LogBounded'
  BY <1>1, DueFacts DEF LogBounded, FinalPcs, Ledger, Transcript
<1>4. ModelOrder'
  BY DueFacts, OrderAppend DEF Ledger
<1>5. HonestOutcome'
  BY <1>1, DueFacts DEF HonestOutcome, Ledger
<1>6. AllAnswered'
  BY DEF AllAnswered
<1>. QED BY <1>2, <1>3, <1>4, <1>5, <1>6

\* The committed result is the last one, and concludes the turn as its slot says.
LEMMA TranscriptCommit ==
    TypeOK /\ Ledger /\ CommitResult => Transcript' /\ ModelOrder' /\ HonestOutcome' /\ AllAnswered'
<1>. SUFFICES ASSUME TypeOK, Ledger, CommitResult
              PROVE  Transcript' /\ ModelOrder' /\ HonestOutcome' /\ AllAnswered'
  OBVIOUS
<1>1. pc = "committing" /\ Ready("final")
  BY DEF CommitResult
<1>2. log' = Append(log, Due) /\ committed' = committed + 1
      /\ concluded' = (concluded \/ slots[NextToCommit].outcome = "concluding")
  BY Zenon DEF CommitResult, Due
<1>3. UNCHANGED <<pc, started, failure, callSeq, invoked>>
  BY Zenon DEF CommitResult, tools
<1>4. CallsLogged' /\ LogBounded' /\ ModelOrder' /\ HonestOutcome' /\ AllAnswered'
  BY <1>1, <1>2, <1>3, DueAppended
<1>5. /\ Len(log) \in Nat /\ DOMAIN log = 1..Len(log) /\ DOMAIN log' = 1..(Len(log) + 1)
      /\ \A j \in DOMAIN log : log'[j] = log[j]
      /\ log'[Len(log) + 1] = Due
  BY <1>1, <1>2, DueFacts, AppendFacts
<1>6. \A c \in Calls : slots'[c].kind = slots[c].kind
  BY SlotEmptied
<1>7. ResultsKept'
  <2>. SUFFICES ASSUME NEW j \in DOMAIN log', log'[j].kind = "result"
                PROVE  log'[j].call <= committed' /\ slots'[log'[j].call].kind = "final"
    BY DEF ResultsKept
  <2>1. CASE j = Len(log) + 1
    BY <1>1, <1>2, <1>5, <1>6, <2>1, DueFacts, Numbers DEF Ready
  <2>2. CASE j \in DOMAIN log
    BY <1>1, <1>2, <1>5, <1>6, <2>2, EventTypes, Numbers DEF Ledger, Transcript, ResultsKept, FinalPcs, Calls
  <2>. QED BY <1>5, <2>1, <2>2
<1>8. CommittedAnswered'
  <2>. SUFFICES ASSUME NEW c \in 1..(committed + 1)
                PROVE  \E j \in DOMAIN log' : log'[j].kind = "result" /\ log'[j].call = c
    BY <1>2 DEF CommittedAnswered
  <2>1. CASE c = committed + 1
    BY <1>1, <1>5, <2>1, DueFacts
  <2>2. CASE c \in 1..committed
    BY <1>5, <2>2 DEF Ledger, Transcript, CommittedAnswered
  <2>. QED BY <2>1, <2>2, Numbers
<1>9. ConcludedTrue'
  <2>. SUFFICES ASSUME ~failure
                PROVE  concluded' <=> \E j \in DOMAIN log' : log'[j].outcome = "concluding"
    BY <1>3 DEF ConcludedTrue
  <2>1. concluded <=> \E j \in DOMAIN log : log[j].outcome = "concluding"
    BY DEF Ledger, Transcript, ConcludedTrue
  <2>2. concluded' <=> (concluded \/ Due.outcome = "concluding")
    BY <1>1, <1>2, DueFacts
  <2>3. (\E j \in DOMAIN log' : log'[j].outcome = "concluding") <=>
           (\E j \in DOMAIN log : log[j].outcome = "concluding") \/ Due.outcome = "concluding"
    BY <1>5
  <2>. QED BY <2>1, <2>2, <2>3
<1>. QED BY <1>4, <1>7, <1>8, <1>9 DEF Transcript

\* A refused commit leaves the transcript as it is, or its result on it.
LEMMA TranscriptRefused ==
    TypeOK /\ Ledger /\ ResultRefused => Transcript' /\ ModelOrder' /\ HonestOutcome' /\ AllAnswered'
<1>. SUFFICES ASSUME TypeOK, Ledger, ResultRefused
              PROVE  Transcript' /\ ModelOrder' /\ HonestOutcome' /\ AllAnswered'
  OBVIOUS
<1>1. pc = "committing" /\ Ready("final") /\ pc' = "draining" /\ failure'
  BY DEF ResultRefused, Fail
<1>2. log' = log \/ log' = Append(log, Due)
  BY Zenon DEF ResultRefused, Due
<1>3. UNCHANGED <<started, committed, concluded, slots, callSeq, invoked>>
  BY DEF ResultRefused, tools
<1>4. CASE log' = log
  <2>1. LogKept
    BY <1>1, <1>3, <1>4 DEF LogKept, FinalPcs
  <2>2. HonestOutcome' /\ AllAnswered'
    BY <1>1, <1>3, <1>4 DEF HonestOutcome, AllAnswered, Ledger
  <2>. QED BY <2>1, <2>2, TranscriptQuiet
<1>5. CASE log' = Append(log, Due)
  <2>1. CallsLogged' /\ LogBounded' /\ ModelOrder' /\ HonestOutcome' /\ AllAnswered'
    BY <1>1, <1>3, <1>5, DueAppended
  <2>2. /\ Len(log) \in Nat /\ DOMAIN log = 1..Len(log) /\ DOMAIN log' = 1..(Len(log) + 1)
        /\ \A j \in DOMAIN log : log'[j] = log[j]
        /\ log'[Len(log) + 1] = Due
    BY <1>1, <1>5, DueFacts, AppendFacts
  <2>3. ResultsKept'
    <3>. SUFFICES ASSUME NEW j \in DOMAIN log', log'[j].kind = "result"
                  PROVE  slots'[log'[j].call].kind = "final"
      BY <1>1 DEF ResultsKept
    <3>1. CASE j = Len(log) + 1
      BY <1>1, <1>3, <2>2, <3>1, DueFacts DEF Ready
    <3>2. CASE j \in DOMAIN log
      BY <1>1, <1>3, <2>2, <3>2 DEF Ledger, Transcript, ResultsKept, FinalPcs
    <3>. QED BY <2>2, <3>1, <3>2
  <2>4. CommittedAnswered'
    BY <1>3, <2>2 DEF Ledger, Transcript, CommittedAnswered
  <2>5. ConcludedTrue'
    BY <1>1 DEF ConcludedTrue
  <2>. QED BY <2>1, <2>3, <2>4, <2>5 DEF Transcript
<1>. QED BY <1>2, <1>4, <1>5

\* Skipping: the events of the calls never started, one by one.
LEMMA SkippedEntries ==
    ASSUME TypeOK, NEW k \in 1..(2 * (NumCalls - started))
    PROVE  /\ SkippedEvents[k].call \in Calls /\ SkippedEvents[k].call = started + (k + 1) \div 2
           /\ SkippedEvents[k].kind = IF k % 2 = 1 THEN "call" ELSE "result"
           /\ SkippedEvents[k].outcome = IF k % 2 = 1 THEN "none" ELSE "unstarted"
           /\ k % 2 # 1 => /\ SkippedEvents[k].cites = Len(log) + k - 1
                           /\ k - 1 \in 1..(2 * (NumCalls - started))
                           /\ SkippedEvents[k - 1] = CallEvent(SkippedEvents[k].call)
<1>. DEFINE n == NumCalls - started
            m == (k + 1) \div 2
<1>1. n \in Nat /\ started \in Nat /\ NumCalls \in Nat /\ started + n = NumCalls /\ Len(log) \in Nat
  BY Numbers DEF TypeOK
<1>2. \A i \in 1..n : /\ SkippedEvents[2 * i - 1] = CallEvent(started + i)
                      /\ SkippedEvents[2 * i] = ResultEvent(started + i, "unstarted", Len(log) + 2 * i - 1)
  BY SkippedEventsShape
<1>3. m \in 1..n /\ started + m \in Calls
  BY <1>1 DEF Calls
<1>4. CASE k % 2 = 1
  <2>1. k = 2 * m - 1
    BY <1>1, <1>4
  <2>2. SkippedEvents[k] = CallEvent(started + m)
    BY <1>2, <1>3, <2>1
  <2>. QED BY <1>3, <1>4, <2>2 DEF CallEvent
<1>5. CASE k % 2 # 1
  <2>1. k = 2 * m /\ k - 1 = 2 * m - 1
    BY <1>1, <1>5
  <2>2. SkippedEvents[k] = ResultEvent(started + m, "unstarted", Len(log) + k - 1)
    BY <1>2, <1>3, <2>1
  <2>3. SkippedEvents[k - 1] = CallEvent(started + m)
    BY <1>2, <1>3, <2>1
  <2>4. k - 1 \in 1..(2 * n)
    BY <1>1, <1>3, <2>1
  <2>. QED BY <1>3, <1>5, <2>2, <2>3, <2>4 DEF ResultEvent, Told
<1>. QED BY <1>4, <1>5

\* The log followed by the first of those events.
LEMMA SkipFacts ==
    ASSUME TypeOK, NEW k \in 0..(2 * (NumCalls - started)), log' = log \o SubSeq(SkippedEvents, 1, k)
    PROVE  /\ Len(log) \in Nat /\ DOMAIN log = 1..Len(log) /\ DOMAIN log' = 1..(Len(log) + k)
           /\ \A j \in 1..Len(log) : log'[j] = log[j]
           /\ \A i \in 1..k : log'[Len(log) + i] = SkippedEvents[i]
<1>. DEFINE s == SkippedEvents
            t == SubSeq(s, 1, k)
<1>1. s \in Seq(Event) /\ Len(s) = 2 * (NumCalls - started) /\ log \in Seq(Event) /\ k \in Nat
  BY SkippedEventsShape DEF TypeOK
<1>. HIDE DEF s
<1>2. t \in Seq(Event) /\ Len(t) = k /\ \A i \in 1..k : t[i] = s[i]
  BY <1>1
<1>3. log' = log \o t
  BY DEF s
<1>. HIDE DEF t
<1>. QED BY <1>1, <1>2, <1>3 DEF s

\* Of two events of one kind the later one is of a later call.
LEMMA Halves ==
    \A a, b \in Nat : a < b /\ (a % 2 = 1 <=> b % 2 = 1) => (a + 1) \div 2 < (b + 1) \div 2
OBVIOUS

\* The skipped calls, all of them or those before a refusal, come last and in
\* order, and say that nothing ran.
LEMMA SkipOrder ==
    ASSUME TypeOK, Ledger, pc = "leaving", UNCHANGED invoked,
           NEW k \in 0..(2 * (NumCalls - started)), log' = log \o SubSeq(SkippedEvents, 1, k)
    PROVE  ModelOrder' /\ HonestOutcome'
<1>. DEFINE n == Len(log)
<1>1. /\ n \in Nat /\ DOMAIN log = 1..n /\ DOMAIN log' = 1..(n + k)
      /\ \A j \in 1..n : log'[j] = log[j]
  BY SkipFacts
<1>2. \A i \in 1..k : log'[n + i] = SkippedEvents[i]
  BY SkipFacts
<1>3. \A j \in 1..n : log[j].call \in Nat /\ log[j].call <= started
  BY <1>1, EventTypes DEF Ledger, Transcript, LogBounded, FinalPcs, Calls
<1>4. \A i \in 1..k :
         /\ SkippedEvents[i].call \in Calls /\ SkippedEvents[i].call = started + (i + 1) \div 2
         /\ SkippedEvents[i].kind = IF i % 2 = 1 THEN "call" ELSE "result"
         /\ SkippedEvents[i].outcome = IF i % 2 = 1 THEN "none" ELSE "unstarted"
         /\ i % 2 # 1 => /\ SkippedEvents[i].cites = n + (i - 1)
                         /\ i - 1 \in 1..k
                         /\ SkippedEvents[i - 1] = CallEvent(SkippedEvents[i].call)
  <2>. SUFFICES ASSUME NEW i \in 1..k
                PROVE  /\ SkippedEvents[i].call \in Calls /\ SkippedEvents[i].call = started + (i + 1) \div 2
                       /\ SkippedEvents[i].kind = IF i % 2 = 1 THEN "call" ELSE "result"
                       /\ SkippedEvents[i].outcome = IF i % 2 = 1 THEN "none" ELSE "unstarted"
                       /\ i % 2 # 1 => /\ SkippedEvents[i].cites = n + (i - 1)
                                       /\ i - 1 \in 1..k
                                       /\ SkippedEvents[i - 1] = CallEvent(SkippedEvents[i].call)
    OBVIOUS
  <2>1. i \in 1..(2 * (NumCalls - started)) /\ n + i - 1 = n + (i - 1)
    BY <1>1, Numbers
  <2>2. i % 2 # 1 => i - 1 \in 1..k
    OBVIOUS
  <2>. QED BY <2>1, <2>2, SkippedEntries
<1>. HIDE DEF n
<1>5. ASSUME NEW i \in DOMAIN log', NEW j \in DOMAIN log', i < j, log'[i].kind = log'[j].kind
      PROVE  log'[i].call < log'[j].call
  <2>1. CASE j \in 1..n
    BY <1>1, <1>5, <2>1 DEF Ledger, ModelOrder
  <2>2. CASE j \notin 1..n
    <3>1. PICK b \in 1..k : j = n + b /\ log'[j] = SkippedEvents[b]
      <4>1. j - n \in 1..k /\ j = n + (j - n)
        BY <1>1, <2>2
      <4>. QED BY <1>2, <4>1
    <3>2. /\ log'[j].call \in Calls /\ log'[j].call = started + (b + 1) \div 2
          /\ log'[j].kind = IF b % 2 = 1 THEN "call" ELSE "result"
      BY <1>4, <3>1
    <3>3. CASE i \in 1..n
      <4>1. PICK x \in Nat : x = log'[i].call /\ x <= started
        BY <1>1, <1>3, <3>3
      <4>2. PICK q \in Nat : q = (b + 1) \div 2 /\ q >= 1
        OBVIOUS
      <4>3. log'[j].call = started + q
        BY <3>2, <4>2, Zenon
      <4>4. x < started + q
        <5>1. x <= started
          BY <4>1, Zenon
        <5>2. started < started + q
          BY <4>2, Numbers
        <5>. QED BY <5>1, <5>2, Numbers
      <4>. QED BY <4>1, <4>3, <4>4, Zenon
    <3>4. CASE i \notin 1..n
      <4>1. PICK a \in 1..k : i = n + a /\ log'[i] = SkippedEvents[a]
        <5>1. i - n \in 1..k /\ i = n + (i - n)
          BY <1>1, <3>4
        <5>. QED BY <1>2, <5>1
      <4>2. /\ log'[i].call = started + (a + 1) \div 2
            /\ log'[i].kind = IF a % 2 = 1 THEN "call" ELSE "result"
        BY <1>4, <4>1
      <4>3. a < b
        BY <1>1, <1>5, <3>1, <4>1
      <4>4. a % 2 = 1 <=> b % 2 = 1
        BY <1>5, <3>2, <4>2, Zenon
      <4>5. PICK q \in Nat, r \in Nat : q = (a + 1) \div 2 /\ r = (b + 1) \div 2
        OBVIOUS
      <4>6. a \in Nat /\ b \in Nat
        OBVIOUS
      <4>7. q < r
        BY <4>3, <4>4, <4>5, <4>6, Halves, Zenon
      <4>8. log'[i].call = started + q /\ log'[j].call = started + r
        BY <3>2, <4>2, <4>5, Zenon
      <4>9. started + q < started + r
        BY <4>7, Numbers
      <4>. QED BY <4>8, <4>9, Zenon
    <3>. QED BY <3>3, <3>4
  <2>. QED BY <2>1, <2>2
<1>6. ASSUME NEW j \in DOMAIN log', log'[j].kind = "result"
      PROVE  log'[j].cites \in 1..(j - 1) /\ log'[log'[j].cites] = CallEvent(log'[j].call)
  <2>1. CASE j \in 1..n
    <3>1. log'[j] = log[j] /\ log[j].cites \in 1..(j - 1) /\ log[log[j].cites] = CallEvent(log[j].call)
      BY <1>1, <1>6, <2>1 DEF Ledger, ModelOrder
    <3>2. log[j].cites \in 1..n
      BY <1>1, <2>1, <3>1
    <3>. QED BY <1>1, <3>1, <3>2
  <2>2. CASE j \notin 1..n
    <3>1. PICK b \in 1..k : j = n + b /\ log'[j] = SkippedEvents[b]
      <4>1. j - n \in 1..k /\ j = n + (j - n)
        BY <1>1, <2>2
      <4>. QED BY <1>2, <4>1
    <3>2. b % 2 # 1
      BY <1>4, <1>6, <3>1, Zenon
    <3>3. log'[j].cites = n + (b - 1) /\ b - 1 \in 1..k /\ SkippedEvents[b - 1] = CallEvent(log'[j].call)
      BY <1>4, <3>1, <3>2, Zenon
    <3>4. log'[n + (b - 1)] = SkippedEvents[b - 1]
      BY <1>2, <3>3
    <3>5. n + (b - 1) \in 1..(j - 1)
      BY <1>1, <3>1, <3>3
    <3>. QED BY <3>3, <3>4, <3>5, Zenon
  <2>. QED BY <2>1, <2>2
<1>7. ModelOrder'
  BY <1>5, <1>6 DEF ModelOrder, CallEvent
<1>8. HonestOutcome'
  <2>. SUFFICES ASSUME NEW j \in DOMAIN log', log'[j].kind = "result"
                PROVE  /\ log'[j].outcome = "unstarted" => log'[j].call \notin invoked
                       /\ log'[j].outcome \in {"aborted", "concluding"} => log'[j].call \in invoked
    BY DEF HonestOutcome
  <2>1. CASE j \in 1..n
    BY <1>1, <2>1 DEF Ledger, HonestOutcome
  <2>2. CASE j \notin 1..n
    <3>1. PICK b \in 1..k : log'[j] = SkippedEvents[b]
      <4>1. j - n \in 1..k /\ j = n + (j - n)
        BY <1>1, <2>2
      <4>. QED BY <1>2, <4>1
    <3>2. /\ log'[j].call \in Calls /\ log'[j].call = started + (b + 1) \div 2
          /\ log'[j].outcome \in {"none", "unstarted"}
      BY <1>4, <3>1
    <3>3. PICK q \in Nat : q = (b + 1) \div 2 /\ q >= 1
      OBVIOUS
    <3>4. log'[j].call > started
      <4>1. log'[j].call = started + q
        BY <3>2, <3>3, Zenon
      <4>2. started + q > started
        BY <3>3, Numbers
      <4>. QED BY <4>1, <4>2, Zenon
    <3>. QED BY <3>2, <3>4 DEF Ledger, Fleet, Untouched
  <2>. QED BY <2>1, <2>2
<1>. QED BY <1>7, <1>8

\* Ending an aborted step keeps the transcript, and ends it complete unless an
\* append is refused.
LEMMA TranscriptSkip ==
    ASSUME TypeOK, Ledger, LeavesAborted \/ SkipRefused
    PROVE  Transcript' /\ ModelOrder' /\ HonestOutcome' /\ AllAnswered'
<1>1. pc = "leaving" /\ ~failure /\ committed = started /\ pc' \in FinalPcs
  BY DEF LeavesAborted, SkipRefused, Ledger, Cursors, Control, FinalPcs
<1>2. UNCHANGED <<started, committed, failure, concluded, callSeq, slots, stage, invoked>>
  BY DEF LeavesAborted, SkipRefused, tools
<1>3. SkippedEvents \in Seq(Event) /\ Len(SkippedEvents) = 2 * (NumCalls - started)
  BY SkippedEventsShape
<1>4. PICK k \in 0..(2 * (NumCalls - started)) :
         /\ log' = log \o SubSeq(SkippedEvents, 1, k)
         /\ pc' = "returned" => k = 2 * (NumCalls - started)
  <2>1. CASE LeavesAborted
    <3>1. SubSeq(SkippedEvents, 1, Len(SkippedEvents)) = SkippedEvents
      BY <1>3, Numbers
    <3>2. 2 * (NumCalls - started) \in 0..(2 * (NumCalls - started))
      BY Numbers
    <3>. QED BY <1>3, <2>1, <3>1, <3>2 DEF LeavesAborted
  <2>2. CASE SkipRefused
    <3>1. PICK k \in 0..(Len(SkippedEvents) - 1) : log' = log \o SubSeq(SkippedEvents, 1, k)
      BY <2>2 DEF SkipRefused
    <3>2. k \in 0..(2 * (NumCalls - started)) /\ pc' = "thrown"
      BY <1>3, <2>2, <3>1, Numbers DEF SkipRefused
    <3>. QED BY <3>1, <3>2
  <2>. QED BY <2>1, <2>2
<1>. DEFINE n == Len(log)
<1>5. /\ n \in Nat /\ DOMAIN log = 1..n /\ DOMAIN log' = 1..(n + k)
      /\ \A j \in 1..n : log'[j] = log[j]
  BY <1>4, SkipFacts
<1>6. \A i \in 1..k : log'[n + i] = SkippedEvents[i]
  BY <1>4, SkipFacts
<1>7. \A i \in 1..k : i \in 1..(2 * (NumCalls - started))
  BY Numbers
<1>. HIDE DEF n
<1>8. ModelOrder' /\ HonestOutcome'
  BY <1>1, <1>2, <1>4, SkipOrder
<1>9. CallsLogged'
  <2>1. \A c \in 1..started : callSeq[c] \in DOMAIN log /\ log[callSeq[c]] = CallEvent(c)
    BY DEF CallsLogged, Ledger, Transcript
  <2>2. \A c \in 1..started : callSeq'[c] \in DOMAIN log' /\ log'[callSeq'[c]] = CallEvent(c)
    BY <1>2, <1>5, <2>1
  <2>. QED BY <1>2, <2>2 DEF CallsLogged, CallEvent
<1>10. LogBounded' /\ ResultsKept'
  BY <1>1, <1>2 DEF LogBounded, ResultsKept
<1>11. CommittedAnswered'
  BY <1>2, <1>5 DEF CommittedAnswered, Ledger, Transcript
<1>12. \A j \in DOMAIN log' : j \notin 1..n => log'[j].outcome # "concluding"
  <2>. SUFFICES ASSUME NEW j \in DOMAIN log', j \notin 1..n PROVE log'[j].outcome # "concluding"
    OBVIOUS
  <2>1. j - n \in 1..k /\ log'[j] = SkippedEvents[j - n]
    BY <1>5, <1>6
  <2>. QED BY <1>7, <2>1, SkippedEntries
<1>13. (\E j \in DOMAIN log' : log'[j].outcome = "concluding") <=>
         (\E j \in DOMAIN log : log[j].outcome = "concluding")
  BY <1>5, <1>12
<1>14. concluded' <=> \E j \in DOMAIN log' : log'[j].outcome = "concluding"
  BY <1>1, <1>2, <1>13 DEF Ledger, Transcript, ConcludedTrue
<1>15. ASSUME pc' = "returned", NEW c \in Calls
       PROVE  \E j \in DOMAIN log' : log'[j].kind = "result" /\ log'[j].call = c
  <2>1. CASE c <= started
    BY <1>1, <1>2, <1>11, <2>1, Numbers DEF CommittedAnswered, Calls
  <2>2. CASE c > started
    <3>1. PICK m \in Nat : m = c - started /\ m >= 1 /\ m <= NumCalls - started
      BY <2>2, Numbers DEF Calls
    <3>2. PICK i \in 1..k : i = 2 * m
      BY <1>4, <1>15, <3>1, Numbers
    <3>3. i % 2 # 1 /\ (i + 1) \div 2 = m
      BY <3>1, <3>2
    <3>4. SkippedEvents[i].kind = "result" /\ SkippedEvents[i].call = started + m
      BY <1>7, <3>3, SkippedEntries
    <3>5. n + i \in DOMAIN log' /\ log'[n + i] = SkippedEvents[i]
      BY <1>5, <1>6
    <3>6. started + m = c
      BY <3>1, Numbers DEF Calls
    <3>. QED BY <3>4, <3>5, <3>6
  <2>. QED BY <2>1, <2>2, Numbers DEF Calls
<1>16. Running' = {}
  BY <1>1, <1>2 DEF Running, Ledger, Cursors, Fleet
<1>17. AllAnswered'
  BY <1>14, <1>15, <1>16 DEF AllAnswered
<1>18. ConcludedTrue'
  BY <1>14 DEF ConcludedTrue
<1>. QED BY <1>8, <1>9, <1>10, <1>11, <1>17, <1>18 DEF Transcript

-----------------------------------------------------------------------------
\* The ledger is kept by every step.
LEMMA LedgerStep == TypeOK /\ Ledger /\ [Next]_vars => TypeOK' /\ Ledger'
<1>. SUFFICES ASSUME TypeOK, Ledger, [Next]_vars PROVE TypeOK' /\ Ledger'
  OBVIOUS
<1>1. TypeOK'
  BY TypeStep DEF Ledger
<1>2. Cursors' /\ Fleet' /\ Control' /\ Accounts'
  BY CursorsStep, FleetStep, ControlStep, AccountsStep
<1>3. Transcript' /\ ModelOrder' /\ HonestOutcome' /\ AllAnswered'
  <2>1. CASE Appends
    BY <2>1, TranscriptStart, TranscriptCommit, TranscriptRefused, TranscriptSkip DEF Appends
  <2>2. CASE ~Appends
    <3>1. LogKept
      BY <2>2, Quiet
    <3>2. ~LeavesAborted
      BY <2>2 DEF Appends
    <3>. QED BY <1>2, <3>1, <3>2, TranscriptQuiet, HonestQuiet, AnsweredQuiet
  <2>. QED BY <2>1, <2>2
<1>. QED BY <1>1, <1>2, <1>3 DEF Ledger

\* The inductive invariant holds throughout.
LEMMA LedgerHolds == Spec => [](TypeOK /\ Ledger)
<1>1. Init => TypeOK /\ Ledger
  BY TypeInit, LedgerInit
<1>2. TypeOK /\ Ledger /\ [Next]_vars => (TypeOK /\ Ledger)'
  BY LedgerStep
<1>. QED BY <1>1, <1>2, PTL DEF Spec

\* The state is well typed whatever the number of calls and the pool.
THEOREM TypeCorrect == Spec => []TypeOK
BY LedgerHolds, PTL

\* The transcript is in model order, every result under its own call.
THEOREM InModelOrder == Spec => []ModelOrder
<1>1. Ledger => ModelOrder
  BY DEF Ledger
<1>. QED BY <1>1, LedgerHolds, PTL

\* No outcome misreports whether its body ran.
THEOREM OutcomesHonest == Spec => []HonestOutcome
<1>1. Ledger => HonestOutcome
  BY DEF Ledger
<1>. QED BY <1>1, LedgerHolds, PTL

\* A scheduler that returns has answered every call.
THEOREM EveryCallAnswered == Spec => []AllAnswered
<1>1. Ledger => AllAnswered
  BY DEF Ledger
<1>. QED BY <1>1, LedgerHolds, PTL

\* A scheduler that throws has failed or was aborted, leaves nothing running and
\* answered only calls that were over.
THEOREM FailuresClean == Spec => []FailsClean
<1>1. Ledger => FailsClean
  BY DEF Ledger, Control, Transcript, ResultsKept, FailsClean, FinalPcs
<1>. QED BY <1>1, LedgerHolds, PTL

\* Only startCall() moves the started cursor.
LEMMA StartedStep == TypeOK /\ [Next]_vars /\ started' # started => StartCall
<1>. SUFFICES ASSUME TypeOK, [Next]_vars, started' # started PROVE StartCall
  OBVIOUS
<1>1. CASE CommitResult
  BY <1>1, Zenon DEF CommitResult
<1>2. CASE ResultRefused
  BY <1>2, Zenon DEF ResultRefused
<1>3. ASSUME NEW c \in Calls, BodyStarts(c) \/ DispatchSettles(c) \/ DispatchRejects(c) \/ Reclassify(c)
      PROVE  FALSE
  BY <1>3 DEF BodyStarts, DispatchSettles, DispatchRejects, Reclassify
<1>4. CASE Classify \/ CallRefused \/ PoolFilled \/ PrepareBegins \/ PrepareSettles \/ PrepareRejects \/ Prepared
  BY <1>4 DEF Classify, CallRefused, PoolFilled, PrepareBegins, PrepareSettles, PrepareRejects, Prepared
<1>5. CASE StartDone \/ FinalizeBegins \/ FinalizeSettles \/ FinalizeRejects \/ NothingReady \/ Committed \/ RaceYields
  BY <1>5 DEF StartDone, FinalizeBegins, FinalizeSettles, FinalizeRejects, NothingReady, Committed, RaceYields
<1>6. CASE LeavesAborted \/ SkipRefused \/ LeavesGroup \/ Drained \/ Abort \/ UNCHANGED vars
  BY <1>6 DEF LeavesAborted, SkipRefused, LeavesGroup, Drained, Abort, vars
<1>. QED BY <1>1, <1>2, <1>3, <1>4, <1>5, <1>6 DEF Next, Progress

\* Only a prepared call joins the race, and only without a failure.
LEMMA RaceStep == TypeOK /\ [Next]_vars /\ failure => inFlight' \subseteq inFlight
<1>. SUFFICES ASSUME TypeOK, [Next]_vars, failure PROVE inFlight' \subseteq inFlight
  OBVIOUS
<1>1. CASE CommitResult
  BY <1>1, Zenon DEF CommitResult
<1>2. CASE ResultRefused
  BY <1>2, Zenon DEF ResultRefused
<1>3. ASSUME NEW c \in Calls, BodyStarts(c) \/ DispatchSettles(c) \/ DispatchRejects(c) \/ Reclassify(c)
      PROVE  inFlight' = inFlight
  BY <1>3 DEF BodyStarts, DispatchSettles, DispatchRejects, Reclassify
<1>4. CASE Prepared
  BY <1>4 DEF Prepared
<1>5. CASE Classify \/ StartCall \/ CallRefused \/ PoolFilled \/ PrepareBegins \/ PrepareSettles \/ PrepareRejects
  BY <1>5 DEF Classify, StartCall, CallRefused, PoolFilled, PrepareBegins, PrepareSettles, PrepareRejects
<1>6. CASE StartDone \/ FinalizeBegins \/ FinalizeSettles \/ FinalizeRejects \/ NothingReady \/ Committed
  BY <1>6 DEF StartDone, FinalizeBegins, FinalizeSettles, FinalizeRejects, NothingReady, Committed
<1>7. CASE RaceYields
  BY <1>7 DEF RaceYields, LeavesRace
<1>8. CASE LeavesAborted \/ SkipRefused \/ LeavesGroup \/ Drained \/ Abort \/ UNCHANGED vars
  BY <1>8 DEF LeavesAborted, SkipRefused, LeavesGroup, Drained, Abort, vars
<1>. QED BY <1>1, <1>2, <1>3, <1>4, <1>5, <1>6, <1>7, <1>8 DEF Next, Progress

\* No body starts under an aborted signal.
LEMMA InvokedUnderSignal == TypeOK /\ [Next]_vars /\ signal => invoked' = invoked
<1>. SUFFICES ASSUME TypeOK, [Next]_vars, signal PROVE invoked' = invoked
  OBVIOUS
<1>1. CASE CommitResult
  BY <1>1, Zenon DEF CommitResult, tools
<1>2. CASE ResultRefused
  BY <1>2, Zenon DEF ResultRefused, tools
<1>3. ASSUME NEW c \in Calls, BodyStarts(c) \/ DispatchSettles(c) \/ DispatchRejects(c) \/ Reclassify(c)
      PROVE  invoked' = invoked
  BY <1>3 DEF BodyStarts, DispatchSettles, DispatchRejects, Reclassify, tools
<1>4. CASE Classify \/ StartCall \/ CallRefused \/ PoolFilled \/ PrepareBegins \/ PrepareSettles \/ PrepareRejects \/ Prepared
  BY <1>4 DEF Classify, StartCall, CallRefused, PoolFilled, PrepareBegins, PrepareSettles, PrepareRejects, Prepared, tools
<1>5. CASE StartDone \/ FinalizeBegins \/ FinalizeSettles \/ FinalizeRejects \/ NothingReady \/ Committed \/ RaceYields
  BY <1>5 DEF StartDone, FinalizeBegins, FinalizeSettles, FinalizeRejects, NothingReady, Committed, RaceYields, tools
<1>6. CASE LeavesAborted \/ SkipRefused \/ LeavesGroup \/ Drained \/ Abort \/ UNCHANGED vars
  BY <1>6 DEF LeavesAborted, SkipRefused, LeavesGroup, Drained, Abort, tools, vars
<1>. QED BY <1>1, <1>2, <1>3, <1>4, <1>5, <1>6 DEF Next, Progress

\* Calls start in turn, and never more of them run than the cap.
THEOREM CallsStartInTurn == Spec => StartsInTurn
<1>. DEFINE A == /\ started' > started =>
                      \/ committed = started /\ Running = {}
                      \/ groupMode = "parallel" /\ mode[started'] = "parallel"
                 /\ Cardinality(Running') <= MaxParallel
<1>1. TypeOK /\ Ledger /\ [Next]_vars => A
  <2>. SUFFICES ASSUME TypeOK, Ledger, [Next]_vars PROVE A
    OBVIOUS
  <2>1. Cardinality(Running') <= MaxParallel
    <3>1. TypeOK' /\ Fleet'
      BY LedgerStep DEF Ledger
    <3>2. IsFiniteSet(inFlight') /\ Cardinality(inFlight') \in Nat /\ Running' \subseteq inFlight'
      <4>1. IsFiniteSet(Calls)
        BY SchedulerAssumption, FS_Interval DEF Calls
      <4>2. inFlight' \in SUBSET Calls
        BY <3>1 DEF TypeOK
      <4>3. Running' \subseteq inFlight'
        BY <3>1 DEF Fleet
      <4>. QED BY <4>1, <4>2, <4>3, FS_Subset, FS_CardinalityType
    <3>3. IsFiniteSet(Running') /\ Cardinality(Running') <= Cardinality(inFlight') /\ Cardinality(Running') \in Nat
      BY <3>2, FS_Subset, FS_CardinalityType
    <3>4. Cardinality(inFlight') <= MaxParallel
      BY <3>1 DEF Fleet
    <3>. QED BY <3>2, <3>3, <3>4, SchedulerAssumption
  <2>2. ASSUME started' > started
        PROVE  \/ committed = started /\ Running = {}
               \/ groupMode = "parallel" /\ mode[started'] = "parallel"
    <3>1. StartCall
      BY <2>2, StartedStep, Numbers
    <3>2. started' = started + 1 /\ started < groupEnd /\ ~BarrierAhead /\ pc = "filling"
      BY <3>1 DEF StartCall, MayStart
    <3>3. CASE started = base
      <4>1. (base + 1)..started = {}
        BY <3>3, Numbers
      <4>. QED BY <3>3, <4>1, Numbers DEF Ledger, Cursors, Fleet
    <3>4. CASE started > base
      <4>1. groupMode = "parallel"
        BY <3>2, <3>4, Numbers DEF Ledger, Cursors, TypeOK, Modes
      <4>. QED BY <3>2, <3>4, <4>1 DEF BarrierAhead
    <3>. QED BY <3>3, <3>4, Numbers DEF Ledger, Cursors
  <2>. QED BY <2>1, <2>2
<1>. QED BY <1>1, LedgerHolds, PTL DEF Spec, StartsInTurn

\* An abort and a failure are obeyed at once, whatever await they met.
THEOREM StopsAtOnce == Spec => StopsWhenToldTo
<1>1. TypeOK /\ Ledger /\ [Next]_vars =>
         /\ signal => started' = started /\ invoked' = invoked
         /\ failure => inFlight' \subseteq inFlight
  <2>. SUFFICES ASSUME TypeOK, Ledger, [Next]_vars
                PROVE  /\ signal => started' = started /\ invoked' = invoked
                       /\ failure => inFlight' \subseteq inFlight
    OBVIOUS
  <2>1. signal => started' = started
    <3>1. StartCall => ~signal
      BY DEF StartCall, MayStart, Ledger, Control
    <3>. QED BY <3>1, StartedStep
  <2>. QED BY <2>1, InvokedUnderSignal, RaceStep
<1>. QED BY <1>1, LedgerHolds, PTL DEF Spec, StopsWhenToldTo

=============================================================================
