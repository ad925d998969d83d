-------------------------- MODULE AgentDriverProofs --------------------------
(***************************************************************************)
(* Proofs about AgentDriver for every set of messages and every value of   *)
(* the bounds.  A lemma named ...Step says what one step of Next           *)
(* preserves; the actions that can disturb its conclusion are steps of     *)
(* their own, the others are proved together.                              *)
(***************************************************************************)
EXTENDS AgentDriver, SequenceTheorems, FiniteSetTheorems, TLAPS

-----------------------------------------------------------------------------
(* The call stack *)

\* Every frame an action builds is a frame.
LEMMA FrameTypes ==
    /\ Drive \in Frame
    /\ \A flag \in BOOLEAN : SendFrame(flag) \in Frame /\ SettleFrame(flag) \in Frame
    /\ \A cause \in Causes \cup {"none"} :
          ClearFrame(cause) \in Frame /\ AbortFrame(cause) \in Frame
BY DEF Drive, SendFrame, SettleFrame, ClearFrame, AbortFrame, Frame, Ops, Causes

\* Pushing a frame keeps the call stack well formed.
LEMMA PushTypes ==
    ASSUME NEW frame \in Frame, NEW rest \in Seq(Frame)
    PROVE  Push(frame, rest) \in Seq(Frame)
<1>1. <<frame>> \in Seq(Frame)
  OBVIOUS
<1>. QED BY <1>1, ConcatProperties DEF Push

\* Resuming the innermost frame leaves a well-formed stack and reads a flag and
\* a cause.
LEMMA PopTypes ==
    ASSUME NEW s \in Seq(Frame), s # <<>>
    PROVE  /\ Tail(s) \in Seq(Frame)
           /\ Head(s) \in Frame
           /\ Head(s).flag \in BOOLEAN /\ Head(s).cause \in Causes \cup {"none"}
<1>1. Head(s) \in Frame /\ Tail(s) \in Seq(Frame)
  BY HeadTailProperties
<1>. QED BY <1>1 DEF Frame

\* The two stacks the driver starts from are well formed.
LEMMA ShortStacks == <<>> \in Seq(Frame) /\ <<Drive>> \in Seq(Frame)
BY FrameTypes

\* Every step leaves a well-formed call stack.
LEMMA StackStep == TypeOK /\ [Next]_vars => stack' \in Seq(Frame)
<1>. SUFFICES ASSUME TypeOK, [Next]_vars PROVE stack' \in Seq(Frame)
  OBVIOUS
<1>stk. stack \in Seq(Frame) /\ latch \in BOOLEAN
  BY DEF TypeOK, ControlTypeOK
<1>. USE DEF activity, inbox, local, world
<1>1. ASSUME NEW m \in Msgs, NEW t \in Targets, NEW w \in BOOLEAN, Send(m, t, w) PROVE stack' \in Seq(Frame)
  BY <1>1, <1>stk, FrameTypes, PushTypes, PopTypes, ShortStacks DEF Send,
      MayCall, Targets
<1>2. ASSUME NEW c \in Causes, Cancel(c) PROVE stack' \in Seq(Frame)
  BY <1>2, <1>stk, FrameTypes, PushTypes, PopTypes, ShortStacks DEF Cancel,
      ClearSteps, ClearTurns, NothingToClear, DropLatchAndAbort, AbortActivity
<1>3. ASSUME SendWakes PROVE stack' \in Seq(Frame)
  BY <1>3, <1>stk, FrameTypes, PushTypes, PopTypes, ShortStacks DEF SendWakes,
      WakeDriver, StartDriver, LatchWake, Top
<1>4. ASSUME CancelClearsTurns PROVE stack' \in Seq(Frame)
  <2>1. /\ Head(stack).cause \in Causes \cup {"none"}
        /\ Tail(stack) \in Seq(Frame)
    BY <1>4, <1>stk, PopTypes DEF CancelClearsTurns, Top
  <2>2. \/ stack' = Push(AbortFrame(Head(stack).cause), Tail(stack))
        \/ stack' = Tail(stack)
    BY <1>4 DEF CancelClearsTurns, ClearTurns, NothingToClear
  <2>. QED BY <2>1, <2>2, FrameTypes, PushTypes
<1>5. ASSUME TurnNeverOpens PROVE stack' \in Seq(Frame)
  BY <1>5, <1>stk, FrameTypes, PushTypes, PopTypes, ShortStacks DEF
      TurnNeverOpens, ThrowsBeforeOpening, EnteringTurn, BelowDriver,
      Suspended, Top
<1>6. ASSUME TurnOpens PROVE stack' \in Seq(Frame)
  BY <1>6, <1>stk, FrameTypes, PushTypes, PopTypes, ShortStacks DEF TurnOpens,
      EnteringTurn, BelowDriver, Suspended, Top
<1>7. ASSUME TurnRefused PROVE stack' \in Seq(Frame)
  BY <1>7, <1>stk, FrameTypes, PushTypes, PopTypes, ShortStacks DEF
      TurnRefused, EnteringTurn, BelowDriver, Suspended, Top
<1>8. ASSUME TurnStops PROVE stack' \in Seq(Frame)
  BY <1>8, <1>stk, FrameTypes, PushTypes, PopTypes, ShortStacks DEF TurnStops,
      StopsOrGoesOn, Claim, TakeBatch, EndTurn, BreakTurn, Suspended
<1>9. ASSUME DriverExits PROVE stack' \in Seq(Frame)
  BY <1>9, <1>stk, FrameTypes, PushTypes, PopTypes, ShortStacks DEF
      DriverExits, GoesIdle, Suspended
<1>10. ASSUME LatchReplays PROVE stack' \in Seq(Frame)
  BY <1>10, <1>stk, FrameTypes, PushTypes, PopTypes, ShortStacks DEF
      LatchReplays, WakeDriver, StartDriver, LatchWake, Top
<1>11. CASE (\E m \in Msgs : Remove(m)) \/
          (\E c \in Causes : CancelKeepingInbox(c)) \/ RunMaintenance \/
          CancelAborts \/ DriverStranded \/ RefusedTurnLeaves
  BY <1>11, <1>stk, FrameTypes, PushTypes, PopTypes, ShortStacks DEF Remove,
      MayCall, CancelKeepingInbox, AbortActivity, RunMaintenance,
      CancelAborts, DropLatchAndAbort, Top, DriverStranded, RefusedTurnLeaves,
      Leaves
<1>12. CASE FirstClaim \/ ProposalFails \/ PreStepDecides \/
          StepRejected \/ NothingEnters \/ StepAborted
  BY <1>12, <1>stk, FrameTypes, PushTypes, PopTypes, ShortStacks DEF
      FirstClaim, Claim, TakeBatch, FirstQueued, EndTurn, Top, ProposalFails,
      FailTurn, Suspended, PreStepDecides, StepRejected, NothingEnters,
      BreakTurn, StepAborted, AbandonStep
<1>13. CASE StepOpens \/ (\E e \in {"completed", "max-tokens",
          "null"} : StepReturns(e)) \/ StepThrows \/ BrokenStepLeaves \/
          StepCloses \/ StoppingFails
  BY <1>13, <1>stk, FrameTypes, PushTypes, PopTypes, ShortStacks DEF
      StepOpens, EnterStep, Suspended, StepReturns, StepThrows,
      BrokenStepLeaves, EndTurn, FailTurn, StepCloses, Claim, TakeBatch,
      StoppingFails
<1>14. CASE FailedTurnCloses \/ TurnContinues \/ MaintenanceSettles \/
          RegistryCloses \/ CrashAndResume
  BY <1>14, <1>stk, FrameTypes, PushTypes, PopTypes, ShortStacks DEF
      FailedTurnCloses, EndTurn, TurnContinues, FreshController,
      MaintenanceSettles, Suspended, RegistryCloses, CrashAndResume,
      ResumedTurn
<1>15. CASE UNCHANGED vars
  BY <1>15, <1>stk DEF vars
<1>. QED BY <1>1, <1>2, <1>3, <1>4, <1>5, <1>6, <1>7, <1>8, <1>9, <1>10,
      <1>11, <1>12, <1>13, <1>14, <1>15 DEF Next, Calls, Resumes

-----------------------------------------------------------------------------
(* The log *)

\* Each append keeps the log well formed.
LEMMA LogTypes ==
    ASSUME log \in Boundaries
    PROVE  /\ \A n \in Nat : LogTurnStart(n) \in Boundaries /\ LogStepStart(n) \in Boundaries
           /\ \A reason \in Reasons : LogTurnEnd(reason) \in Boundaries
           /\ LogStepEnd \in Boundaries
<1>. USE DEF Boundaries
<1>1. ASSUME NEW n \in Nat PROVE LogTurnStart(n) \in Boundaries /\ LogStepStart(n) \in Boundaries
  BY DEF LogTurnStart, LogStepStart
<1>num. log.turns + 1 \in Nat /\ log.steps + 1 \in Nat
  OBVIOUS
<1>2. ASSUME NEW reason \in Reasons PROVE LogTurnEnd(reason) \in Boundaries
  BY <1>num DEF LogTurnEnd
<1>3. LogStepEnd \in Boundaries
  BY <1>num DEF LogStepEnd
<1>. QED BY <1>1, <1>2, <1>3

\* Claiming a batch keeps the inbox and the log well formed.
LEMMA BatchTypes ==
    ASSUME TypeOK, NEW target, Claim(target)
    PROVE  InboxTypeOK' /\ log' \in Boundaries
<1>. DEFINE head == IF target = "next-turn" THEN FirstQueued ELSE {}
<1>1. /\ nextTurn \in Seq(Msgs) /\ nextStep \in SUBSET Msgs
      /\ fate \in [Msgs -> Fates] /\ log \in Boundaries
  BY DEF TypeOK, InboxTypeOK
<1>2. head = {} \/ (nextTurn # <<>> /\ head = {Head(nextTurn)} /\ Head(nextTurn) \in Msgs /\ Tail(nextTurn) \in Seq(Msgs))
  BY <1>1, HeadTailProperties DEF FirstQueued
<1>3. Cardinality(head) \in Nat
  <2>1. Cardinality({}) = 0 /\ Cardinality({Head(nextTurn)}) = 1
    BY FS_EmptySet, FS_Singleton
  <2>2. CASE head = {}
    BY <2>1, <2>2
  <2>3. CASE head # {}
    <3>1. head = {Head(nextTurn)}
      BY <1>2, <2>3
    <3>. QED BY <2>1, <3>1
  <2>. QED BY <2>2, <2>3
<1>4. TakeBatch(head)
  BY DEF Claim
<1>. HIDE DEF head
<1>5. proposal' \in SUBSET Msgs /\ nextStep' \in SUBSET Msgs /\ nextTurn' \in Seq(Msgs)
  BY <1>1, <1>2, <1>4 DEF TakeBatch
<1>6. fate' \in [Msgs -> Fates]
  BY <1>1, <1>4 DEF TakeBatch, Settle, Fates
<1>7. log' \in Boundaries
  BY <1>1, <1>3, <1>4 DEF TakeBatch, Boundaries
<1>. QED BY <1>5, <1>6, <1>7 DEF InboxTypeOK

\* Every step leaves a well-formed log.
LEMMA LogTypeStep == TypeOK /\ [Next]_vars => log' \in Boundaries
<1>. SUFFICES ASSUME TypeOK, [Next]_vars PROVE log' \in Boundaries
  OBVIOUS
<1>typ. log \in Boundaries /\ turn \in Nat /\ step \in Nat /\ ending \in Reasons
  BY DEF TypeOK, ControlTypeOK
<1>. USE DEF Reasons, world
<1>1. ASSUME TurnOpens PROVE log' \in Boundaries
  BY <1>1, <1>typ, LogTypes, BatchTypes DEF TurnOpens, BelowDriver
<1>2. ASSUME FirstClaim PROVE log' \in Boundaries
  BY <1>2, <1>typ, LogTypes, BatchTypes DEF FirstClaim, EndTurn
<1>3. ASSUME NothingEnters PROVE log' \in Boundaries
  BY <1>3, <1>typ, LogTypes, BatchTypes DEF NothingEnters, EndTurn, BreakTurn
<1>4. ASSUME StepCloses PROVE log' \in Boundaries
  BY <1>4, <1>typ, LogTypes, BatchTypes DEF StepCloses, EndTurn
<1>5. ASSUME TurnStops PROVE log' \in Boundaries
  BY <1>5, <1>typ, LogTypes, BatchTypes DEF TurnStops, StopsOrGoesOn, EndTurn,
      BreakTurn
<1>6. ASSUME CrashAndResume PROVE log' \in Boundaries
  <2>. USE DEF Boundaries
  <2>1. /\ log.turns + 1 \in Nat
        /\ log.steps + (IF log.openStep # 0 THEN 1 ELSE 0) \in Nat
    BY <1>typ
  <2>2. CASE log.openTurn = 0
    BY <1>6, <1>typ, <2>2 DEF CrashAndResume
  <2>3. CASE log.openTurn # 0
    <3>. DEFINE s == log.steps + (IF log.openStep # 0 THEN 1 ELSE 0)
    <3>1. log' = [log EXCEPT !.openTurn = 0, !.openStep = 0, !.turns = @ + 1,
                             !.steps = s, !.last = "interrupted"]
      BY <1>6, <1>typ, <2>3 DEF CrashAndResume
    <3>2. s \in Nat
      BY <2>1
    <3>. HIDE DEF s
    <3>. QED BY <2>1, <3>1, <3>2, <1>typ
  <2>. QED BY <2>2, <2>3
<1>7. CASE (\E m \in Msgs, t \in Targets, w \in BOOLEAN : Send(m, t, w)) \/
          (\E m \in Msgs : Remove(m)) \/ (\E c \in Causes : Cancel(c)) \/
          (\E c \in Causes : CancelKeepingInbox(c)) \/ RunMaintenance \/
          SendWakes
  BY <1>7, <1>typ, LogTypes, BatchTypes DEF Send, Targets, Remove, Cancel,
      ClearSteps, ClearTurns, NothingToClear, DropLatchAndAbort,
      AbortActivity, CancelKeepingInbox, RunMaintenance, SendWakes,
      WakeDriver, StartDriver, LatchWake
<1>8. CASE CancelClearsTurns \/ CancelAborts \/ DriverStranded \/
          TurnNeverOpens \/ TurnRefused \/ RefusedTurnLeaves
  BY <1>8, <1>typ, LogTypes, BatchTypes DEF CancelClearsTurns, ClearTurns,
      NothingToClear, DropLatchAndAbort, AbortActivity, CancelAborts,
      DriverStranded, TurnNeverOpens, ThrowsBeforeOpening, BelowDriver,
      TurnRefused, RefusedTurnLeaves
<1>9. CASE ProposalFails \/ PreStepDecides \/ StepRejected \/
          StepAborted \/ StepOpens \/ (\E e \in {"completed", "max-tokens",
          "null"} : StepReturns(e))
  BY <1>9, <1>typ, LogTypes, BatchTypes DEF ProposalFails, EndTurn, FailTurn,
      PreStepDecides, StepRejected, StepAborted, AbandonStep, StepOpens,
      EnterStep, StepReturns
<1>10. CASE StepThrows \/ BrokenStepLeaves \/ StoppingFails \/
          FailedTurnCloses \/ TurnContinues \/ DriverExits
  BY <1>10, <1>typ, LogTypes, BatchTypes DEF StepThrows, BrokenStepLeaves,
      EndTurn, FailTurn, StoppingFails, FailedTurnCloses, TurnContinues,
      FreshController, DriverExits, GoesIdle
<1>11. CASE LatchReplays \/ MaintenanceSettles \/ RegistryCloses
  BY <1>11, <1>typ, LogTypes, BatchTypes DEF LatchReplays, WakeDriver,
      StartDriver, LatchWake, MaintenanceSettles, RegistryCloses
<1>12. CASE UNCHANGED vars
  BY <1>12, <1>typ DEF vars
<1>. QED BY <1>1, <1>2, <1>3, <1>4, <1>5, <1>6, <1>7, <1>8, <1>9, <1>10,
      <1>11, <1>12 DEF Next, Calls, Resumes

-----------------------------------------------------------------------------
(* The inbox *)

\* Settling some messages keeps every message's fate.
LEMMA SettleTypes ==
    ASSUME TypeOK, NEW gone, NEW outcome \in Fates
    PROVE  Settle(gone, outcome) \in [Msgs -> Fates]
BY DEF TypeOK, InboxTypeOK, Settle

\* Removing one entry of a queue leaves a queue.
LEMMA WithoutIndexTypes ==
    ASSUME NEW q \in Seq(Msgs), NEW i \in DOMAIN q
    PROVE  WithoutIndex(q, i) \in Seq(Msgs)
<1>1. Len(q) \in Nat /\ DOMAIN q = 1..Len(q) /\ Len(q) >= 1
  BY LenProperties
<1>2. \A j \in 1..(Len(q) - 1) : q[IF j < i THEN j ELSE j + 1] \in Msgs
  BY <1>1, ElementOfSeq
<1>3. WithoutIndex(q, i) \in [1..(Len(q) - 1) -> Msgs]
  BY <1>2 DEF WithoutIndex
<1>. QED BY <1>1, <1>3, SeqDef

\* Every step keeps the inbox, the proposal and the fates well formed.
LEMMA InboxStep == TypeOK /\ [Next]_vars => InboxTypeOK'
<1>. SUFFICES ASSUME TypeOK, [Next]_vars PROVE InboxTypeOK'
  OBVIOUS
<1>typ. /\ nextTurn \in Seq(Msgs) /\ nextStep \in SUBSET Msgs
        /\ proposal \in SUBSET Msgs /\ fate \in [Msgs -> Fates]
  BY DEF TypeOK, InboxTypeOK
<1>fate. {"pending", "claimed", "entered", "discarded", "dropped", "rewritten"} \subseteq Fates
  BY DEF Fates
<1>. USE DEF inbox, local, InboxTypeOK
<1>1. ASSUME NEW m \in Msgs, NEW t \in Targets, NEW w \in BOOLEAN, Send(m, t, w) PROVE InboxTypeOK'
  <2>1. fate' \in [Msgs -> Fates]
    BY <1>1, <1>typ, <1>fate DEF Send
  <2>2. nextTurn' \in Seq(Msgs)
    BY <1>1, <1>typ, AppendProperties DEF Send
  <2>3. nextStep' \in SUBSET Msgs /\ proposal' \in SUBSET Msgs
    BY <1>1, <1>typ DEF Send
  <2>. QED BY <2>1, <2>2, <2>3 DEF InboxTypeOK
<1>2. ASSUME NEW m \in Msgs, Remove(m) PROVE InboxTypeOK'
  <2>1. fate' \in [Msgs -> Fates] /\ nextStep' \in SUBSET Msgs /\ proposal' \in SUBSET Msgs
    BY <1>2, <1>typ, <1>fate DEF Remove
  <2>2. nextTurn' \in Seq(Msgs)
    BY <1>2, <1>typ, WithoutIndexTypes DEF Remove
  <2>. QED BY <2>1, <2>2 DEF InboxTypeOK
<1>3. ASSUME NEW c \in Causes, Cancel(c) PROVE InboxTypeOK'
  <2>1. fate' \in [Msgs -> Fates]
    BY <1>3, <1>typ, <1>fate, SettleTypes DEF Cancel, ClearSteps, ClearTurns, NothingToClear
  <2>2. nextTurn' \in {nextTurn, <<>>} /\ nextStep' \in {nextStep, {}}
    BY <1>3 DEF Cancel, ClearSteps, ClearTurns, NothingToClear
  <2>3. <<>> \in Seq(Msgs)
    OBVIOUS
  <2>. QED BY <1>3, <1>typ, <2>1, <2>2, <2>3 DEF Cancel
<1>4. ASSUME CancelClearsTurns PROVE InboxTypeOK'
  <2>1. fate' \in [Msgs -> Fates]
    BY <1>4, <1>typ, <1>fate, SettleTypes DEF CancelClearsTurns, ClearTurns, NothingToClear
  <2>2. nextTurn' \in {nextTurn, <<>>} /\ nextStep' \in {nextStep, {}}
    BY <1>4 DEF CancelClearsTurns, ClearTurns, NothingToClear
  <2>3. <<>> \in Seq(Msgs)
    OBVIOUS
  <2>. QED BY <1>4, <1>typ, <2>1, <2>2, <2>3 DEF CancelClearsTurns
<1>5. ASSUME FirstClaim PROVE InboxTypeOK'
  BY <1>5, <1>typ, BatchTypes, SettleTypes, <1>fate DEF FirstClaim, EndTurn
<1>6. ASSUME ProposalFails PROVE InboxTypeOK'
  BY <1>6, <1>typ, BatchTypes, SettleTypes, <1>fate DEF ProposalFails,
      EndTurn, FailTurn
<1>7. ASSUME PreStepDecides PROVE InboxTypeOK'
  <2>1. proposal' \in SUBSET proposal
    BY <1>7 DEF PreStepDecides
  <2>2. fate' \in [Msgs -> Fates]
    BY <1>7, <1>fate, SettleTypes DEF PreStepDecides
  <2>. QED BY <1>7, <1>typ, <2>1, <2>2 DEF PreStepDecides, InboxTypeOK
<1>8. ASSUME StepAborted PROVE InboxTypeOK'
  BY <1>8, <1>typ, BatchTypes, SettleTypes, <1>fate DEF StepAborted,
      AbandonStep, EndTurn
<1>9. ASSUME StepOpens PROVE InboxTypeOK'
  BY <1>9, <1>typ, BatchTypes, SettleTypes, <1>fate DEF StepOpens, EnterStep
<1>10. ASSUME StepCloses PROVE InboxTypeOK'
  BY <1>10, <1>typ, BatchTypes, SettleTypes, <1>fate DEF StepCloses, EndTurn
<1>11. ASSUME TurnStops PROVE InboxTypeOK'
  BY <1>11, <1>typ, BatchTypes, SettleTypes, <1>fate DEF TurnStops,
      StopsOrGoesOn, EndTurn, BreakTurn
<1>12. ASSUME CrashAndResume PROVE InboxTypeOK'
  BY <1>12, <1>typ, <1>fate DEF CrashAndResume, InboxTypeOK
<1>13. CASE (\E c \in Causes : CancelKeepingInbox(c)) \/ RunMaintenance \/
          SendWakes \/ CancelAborts \/ DriverStranded \/ TurnNeverOpens
  BY <1>13, <1>typ, BatchTypes, SettleTypes, <1>fate DEF CancelKeepingInbox,
      AbortActivity, RunMaintenance, SendWakes, WakeDriver, StartDriver,
      LatchWake, CancelAborts, DropLatchAndAbort, DriverStranded,
      TurnNeverOpens, ThrowsBeforeOpening
<1>14. CASE TurnOpens \/ TurnRefused \/ RefusedTurnLeaves \/
          StepRejected \/ NothingEnters \/ (\E e \in {"completed",
          "max-tokens", "null"} : StepReturns(e))
  BY <1>14, <1>typ, BatchTypes, SettleTypes, <1>fate DEF TurnOpens,
      TurnRefused, RefusedTurnLeaves, StepRejected, EndTurn, NothingEnters,
      BreakTurn, StepReturns
<1>15. CASE StepThrows \/ BrokenStepLeaves \/ StoppingFails \/
          FailedTurnCloses \/ TurnContinues \/ DriverExits
  BY <1>15, <1>typ, BatchTypes, SettleTypes, <1>fate DEF StepThrows,
      BrokenStepLeaves, EndTurn, FailTurn, StoppingFails, FailedTurnCloses,
      TurnContinues, FreshController, DriverExits, GoesIdle
<1>16. CASE LatchReplays \/ MaintenanceSettles \/ RegistryCloses
  BY <1>16, <1>typ, BatchTypes, SettleTypes, <1>fate DEF LatchReplays,
      WakeDriver, StartDriver, LatchWake, MaintenanceSettles, RegistryCloses
<1>17. CASE UNCHANGED vars
  BY <1>17, <1>typ, <1>fate DEF vars
<1>. QED BY <1>1, <1>2, <1>3, <1>4, <1>5, <1>6, <1>7, <1>8, <1>9, <1>10,
      <1>11, <1>12, <1>13, <1>14, <1>15, <1>16, <1>17 DEF Next, Calls, Resumes

-----------------------------------------------------------------------------
(* The driver's control state *)

\* ControlTypeOK in two parts: its flags need a prover for Booleans, the rest one
\* for sets and arithmetic.
ModeTypes ==
    /\ phase \in {"idle", "maintenance", "running"}
    /\ abort \in Causes \cup {"none"}
    /\ turn \in Nat /\ step \in Nat
    /\ pc \in Pcs
    /\ decision \in {"none", "reject", "empty", "enter"}
    /\ ending \in Reasons
    /\ crashes \in Nat
FlagTypes == latch \in BOOLEAN /\ job \in BOOLEAN /\ accepting \in BOOLEAN

\* Every step keeps the phase, the counters and the driver's position well formed.
LEMMA ModeStep == TypeOK /\ [Next]_vars => ModeTypes'
<1>. SUFFICES ASSUME TypeOK, [Next]_vars PROVE ModeTypes'
  OBVIOUS
<1>typ. ModeTypes
  BY DEF TypeOK, ControlTypeOK, ModeTypes
<1>log. log \in Boundaries
  BY DEF TypeOK
<1>. USE DEF ModeTypes, Pcs, PublishingPcs, SyncPcs, AwaitPcs, Reasons,
      activity, local, world
<1>1. ASSUME NEW c \in Causes, Cancel(c) PROVE ModeTypes'
  BY <1>1, <1>typ DEF Cancel, ClearSteps, ClearTurns, NothingToClear,
      DropLatchAndAbort, AbortActivity
<1>2. ASSUME SendWakes PROVE ModeTypes'
  BY <1>2, <1>typ DEF SendWakes, WakeDriver, StartDriver, LatchWake
<1>3. ASSUME CancelClearsTurns PROVE ModeTypes'
  <2>1. Head(stack).cause \in Causes \cup {"none"}
    BY <1>3, PopTypes DEF CancelClearsTurns, Top, TypeOK
  <2>. QED BY <1>3, <2>1, <1>typ DEF CancelClearsTurns, ClearTurns, NothingToClear,
      DropLatchAndAbort, AbortActivity
<1>4. ASSUME CancelAborts PROVE ModeTypes'
  <2>1. Head(stack).cause \in Causes \cup {"none"}
    BY <1>4, PopTypes DEF CancelAborts, Top, TypeOK
  <2>. QED BY <1>4, <2>1, <1>typ DEF CancelAborts, DropLatchAndAbort, AbortActivity
<1>5. ASSUME TurnOpens PROVE ModeTypes'
  BY <1>5, <1>typ DEF TurnOpens
<1>6. ASSUME FirstClaim PROVE ModeTypes'
  BY <1>6, <1>typ DEF FirstClaim, Claim, TakeBatch, EndTurn
<1>7. ASSUME PreStepDecides PROVE ModeTypes'
  <2>1. decision' \in {"none", "reject", "empty", "enter"}
    BY <1>7 DEF PreStepDecides
  <2>. QED BY <1>7, <2>1, <1>typ DEF PreStepDecides
<1>8. ASSUME NothingEnters PROVE ModeTypes'
  BY <1>8, <1>typ DEF NothingEnters, EndTurn, BreakTurn
<1>9. ASSUME StepCloses PROVE ModeTypes'
  BY <1>9, <1>typ DEF StepCloses, Claim, TakeBatch, EndTurn
<1>10. ASSUME TurnStops PROVE ModeTypes'
  BY <1>10, <1>typ DEF TurnStops, StopsOrGoesOn, Claim, TakeBatch, EndTurn,
      BreakTurn
<1>11. ASSUME TurnContinues PROVE ModeTypes'
  BY <1>11, <1>typ DEF TurnContinues, FreshController
<1>12. ASSUME LatchReplays PROVE ModeTypes'
  <2>1. UNCHANGED <<turn, local, world>>
    BY <1>12 DEF LatchReplays
  <2>2. \/ StartDriver(Tail(stack))
        \/ UNCHANGED <<phase, abort, step, pc>>
    BY <1>12 DEF LatchReplays, WakeDriver, LatchWake
  <2>3. CASE StartDriver(Tail(stack))
    BY <2>1, <2>3, <1>typ DEF StartDriver
  <2>4. CASE UNCHANGED <<phase, abort, step, pc>>
    BY <2>1, <2>4, <1>typ
  <2>. QED BY <2>2, <2>3, <2>4
<1>13. ASSUME MaintenanceSettles PROVE ModeTypes'
  BY <1>13, <1>typ DEF MaintenanceSettles
<1>14. ASSUME CrashAndResume PROVE ModeTypes'
  <2>1. turn' \in Nat
    BY <1>14, <1>log DEF CrashAndResume, ResumedTurn, Boundaries
  <2>. QED BY <1>14, <2>1, <1>typ DEF CrashAndResume
<1>15. CASE (\E m \in Msgs, t \in Targets, w \in BOOLEAN : Send(m, t, w)) \/
          (\E m \in Msgs : Remove(m)) \/
          (\E c \in Causes : CancelKeepingInbox(c)) \/ RunMaintenance \/
          DriverStranded \/ TurnNeverOpens
  BY <1>15, <1>typ DEF Send, Remove, CancelKeepingInbox, AbortActivity,
      RunMaintenance, DriverStranded, TurnNeverOpens, ThrowsBeforeOpening
<1>16. CASE TurnRefused \/ RefusedTurnLeaves \/ ProposalFails \/
          StepRejected \/ StepAborted \/ StepOpens
  BY <1>16, <1>typ DEF TurnRefused, RefusedTurnLeaves, Leaves, ProposalFails,
      EndTurn, FailTurn, StepRejected, StepAborted, AbandonStep, StepOpens,
      EnterStep
<1>17. CASE (\E e \in {"completed", "max-tokens",
          "null"} : StepReturns(e)) \/ StepThrows \/ BrokenStepLeaves \/
          StoppingFails \/ FailedTurnCloses \/ DriverExits
  BY <1>17, <1>typ DEF StepReturns, StepThrows, BrokenStepLeaves, EndTurn,
      FailTurn, StoppingFails, FailedTurnCloses, DriverExits, GoesIdle
<1>18. CASE RegistryCloses
  BY <1>18, <1>typ DEF RegistryCloses
<1>19. CASE UNCHANGED vars
  BY <1>19, <1>typ DEF vars
<1>. QED BY <1>1, <1>2, <1>3, <1>4, <1>5, <1>6, <1>7, <1>8, <1>9, <1>10,
      <1>11, <1>12, <1>13, <1>14, <1>15, <1>16, <1>17, <1>18, <1>19 DEF Next,
      Calls, Resumes

\* Every step keeps the flags Boolean.
LEMMA FlagStep == TypeOK /\ [Next]_vars => FlagTypes'
<1>. SUFFICES ASSUME TypeOK, [Next]_vars PROVE FlagTypes'
  OBVIOUS
<1>typ. FlagTypes
  BY DEF TypeOK, ControlTypeOK, FlagTypes
<1>. USE DEF FlagTypes, activity, world
<1>1. ASSUME NEW c \in Causes, Cancel(c) PROVE FlagTypes'
  BY <1>1, <1>typ, Zenon DEF Cancel, ClearSteps, ClearTurns, NothingToClear,
      DropLatchAndAbort, AbortActivity
<1>2. ASSUME SendWakes PROVE FlagTypes'
  BY <1>2, <1>typ, Zenon DEF SendWakes, WakeDriver, StartDriver, LatchWake
<1>3. ASSUME CancelClearsTurns PROVE FlagTypes'
  BY <1>3, <1>typ, Zenon DEF CancelClearsTurns, ClearTurns, NothingToClear,
      DropLatchAndAbort, AbortActivity
<1>4. ASSUME CancelAborts PROVE FlagTypes'
  BY <1>4, <1>typ, Zenon DEF CancelAborts, DropLatchAndAbort, AbortActivity
<1>5. ASSUME TurnContinues PROVE FlagTypes'
  BY <1>5, <1>typ, Zenon DEF TurnContinues, FreshController
<1>6. ASSUME LatchReplays PROVE FlagTypes'
  BY <1>6, <1>typ, Zenon DEF LatchReplays, WakeDriver, StartDriver, LatchWake
<1>7. ASSUME MaintenanceSettles PROVE FlagTypes'
  BY <1>7, <1>typ, Zenon DEF MaintenanceSettles
<1>8. CASE (\E m \in Msgs, t \in Targets, w \in BOOLEAN : Send(m, t, w)) \/
          (\E m \in Msgs : Remove(m)) \/
          (\E c \in Causes : CancelKeepingInbox(c)) \/ RunMaintenance \/
          DriverStranded \/ TurnNeverOpens
  BY <1>8, <1>typ, Zenon DEF Send, Remove, CancelKeepingInbox, AbortActivity,
      RunMaintenance, DriverStranded, TurnNeverOpens, ThrowsBeforeOpening
<1>9. CASE TurnOpens \/ TurnRefused \/ RefusedTurnLeaves \/ FirstClaim \/
          ProposalFails \/ PreStepDecides
  BY <1>9, <1>typ, Zenon DEF TurnOpens, TurnRefused, RefusedTurnLeaves,
      Leaves, FirstClaim, ProposalFails, PreStepDecides
<1>10. CASE StepRejected \/ NothingEnters \/ StepAborted \/ StepOpens \/
          (\E e \in {"completed", "max-tokens", "null"} : StepReturns(e)) \/
          StepThrows
  BY <1>10, <1>typ, Zenon DEF StepRejected, NothingEnters, StepAborted,
      AbandonStep, StepOpens, EnterStep, StepReturns, StepThrows
<1>11. CASE BrokenStepLeaves \/ StepCloses \/ TurnStops \/
          StoppingFails \/ FailedTurnCloses \/ DriverExits
  BY <1>11, <1>typ, Zenon DEF BrokenStepLeaves, StepCloses, TurnStops,
      StopsOrGoesOn, StoppingFails, FailedTurnCloses, DriverExits, GoesIdle
<1>12. CASE RegistryCloses \/ CrashAndResume
  BY <1>12, <1>typ, Zenon DEF RegistryCloses, CrashAndResume
<1>13. CASE UNCHANGED vars
  BY <1>13, <1>typ DEF vars
<1>. QED BY <1>1, <1>2, <1>3, <1>4, <1>5, <1>6, <1>7, <1>8, <1>9, <1>10,
      <1>11, <1>12, <1>13 DEF Next, Calls, Resumes

-----------------------------------------------------------------------------
\* Type correctness: at every reachable state each variable, the call stack
\* and the log included, has its type.
THEOREM TypeCorrect == Spec => []TypeOK
<1>1. Init => TypeOK
  <2>. SUFFICES ASSUME Init PROVE TypeOK
    OBVIOUS
  <2>1. ControlTypeOK
    BY DriverAssumption DEF Init, ControlTypeOK, Pcs, Reasons
  <2>2. InboxTypeOK
    BY DEF Init, InboxTypeOK, Fates
  <2>3. stack \in Seq(Frame)
    BY ShortStacks DEF Init
  <2>4. log \in Boundaries
    BY DEF Init, NoTurns, Boundaries, Reasons
  <2>. QED BY <2>1, <2>2, <2>3, <2>4 DEF TypeOK
<1>2. TypeOK /\ [Next]_vars => TypeOK'
  BY StackStep, LogTypeStep, InboxStep, ModeStep, FlagStep DEF TypeOK, ControlTypeOK, ModeTypes, FlagTypes
<1>. QED BY <1>1, <1>2, PTL DEF Spec

-----------------------------------------------------------------------------
(* Ownership of the phase *)

\* Every step keeps the phase with its one owner.
LEMMA OwnerStep == PhaseHasOneOwner /\ [Next]_vars => PhaseHasOneOwner'
<1>. SUFFICES ASSUME PhaseHasOneOwner, [Next]_vars PROVE PhaseHasOneOwner'
  OBVIOUS
<1>. USE DEF PhaseHasOneOwner, activity, inbox, local, world
<1>1. ASSUME NEW c \in Causes, Cancel(c) PROVE PhaseHasOneOwner'
  BY <1>1 DEF Cancel, ClearSteps, ClearTurns, NothingToClear,
      DropLatchAndAbort, AbortActivity
<1>2. ASSUME SendWakes PROVE PhaseHasOneOwner'
  BY <1>2 DEF SendWakes, WakeDriver, StartDriver, LatchWake
<1>3. ASSUME CancelClearsTurns PROVE PhaseHasOneOwner'
  BY <1>3 DEF CancelClearsTurns, ClearTurns, NothingToClear,
      DropLatchAndAbort, AbortActivity
<1>4. ASSUME FirstClaim PROVE PhaseHasOneOwner'
  BY <1>4 DEF FirstClaim, Claim, TakeBatch, EndTurn
<1>5. ASSUME StepCloses PROVE PhaseHasOneOwner'
  BY <1>5 DEF StepCloses, Claim, TakeBatch, EndTurn
<1>6. ASSUME TurnStops PROVE PhaseHasOneOwner'
  BY <1>6 DEF TurnStops, StopsOrGoesOn, Claim, TakeBatch, EndTurn, BreakTurn,
      Suspended
<1>7. ASSUME LatchReplays PROVE PhaseHasOneOwner'
  BY <1>7 DEF LatchReplays, WakeDriver, StartDriver, LatchWake
<1>8. ASSUME MaintenanceSettles PROVE PhaseHasOneOwner'
  BY <1>8 DEF MaintenanceSettles, Suspended
<1>9. CASE (\E m \in Msgs, t \in Targets, w \in BOOLEAN : Send(m, t, w)) \/
          (\E m \in Msgs : Remove(m)) \/
          (\E c \in Causes : CancelKeepingInbox(c)) \/ RunMaintenance \/
          CancelAborts \/ DriverStranded
  BY <1>9 DEF Send, Remove, CancelKeepingInbox, AbortActivity, RunMaintenance,
      CancelAborts, DropLatchAndAbort, DriverStranded
<1>10. CASE TurnNeverOpens \/ TurnOpens \/ TurnRefused \/
          RefusedTurnLeaves \/ ProposalFails \/ PreStepDecides
  BY <1>10 DEF TurnNeverOpens, ThrowsBeforeOpening, EnteringTurn, Suspended,
      TurnOpens, TurnRefused, RefusedTurnLeaves, Leaves, ProposalFails,
      EndTurn, FailTurn, PreStepDecides
<1>11. CASE StepRejected \/ NothingEnters \/ StepAborted \/ StepOpens \/
          (\E e \in {"completed", "max-tokens", "null"} : StepReturns(e)) \/
          StepThrows
  BY <1>11 DEF StepRejected, EndTurn, Suspended, NothingEnters, BreakTurn,
      StepAborted, AbandonStep, StepOpens, EnterStep, StepReturns, StepThrows
<1>12. CASE BrokenStepLeaves \/ StoppingFails \/ FailedTurnCloses \/
          TurnContinues \/ DriverExits \/ RegistryCloses
  BY <1>12 DEF BrokenStepLeaves, EndTurn, FailTurn, StoppingFails, Suspended,
      FailedTurnCloses, TurnContinues, FreshController, DriverExits, GoesIdle,
      RegistryCloses
<1>13. CASE CrashAndResume
  BY <1>13 DEF CrashAndResume, ResumedTurn
<1>14. CASE UNCHANGED vars
  BY <1>14 DEF vars
<1>. QED BY <1>1, <1>2, <1>3, <1>4, <1>5, <1>6, <1>7, <1>8, <1>9, <1>10,
      <1>11, <1>12, <1>13, <1>14 DEF Next, Calls, Resumes

\* Every running phase belongs to one driver and every maintenance phase to one
\* job, whatever order calls, listeners, cancels and crashes come in.
THEOREM OwnerAlways == Spec => []PhaseHasOneOwner
<1>1. Init => PhaseHasOneOwner
  BY DEF Init, PhaseHasOneOwner
<1>. QED BY <1>1, OwnerStep, PTL DEF Spec

-----------------------------------------------------------------------------
(* The wake latch *)

\* A send that saw an aborted activity carries the flag on its frame.  The
\* frame resumes before the activity can be left, so LatchDiscipline is only
\* inductive together with FlaggedWakes.
Calm(s) == \A i \in DOMAIN s : ~(s[i].op = "send" /\ s[i].flag)
FlaggedWakes == Calm(stack) \/ (phase # "idle" /\ abort # "none")

\* Pushing an unflagged frame adds no flagged wake.
LEMMA CalmPush ==
    ASSUME NEW frame \in Frame, NEW rest \in Seq(Frame),
           frame.op # "send" \/ frame.flag = FALSE, Calm(rest)
    PROVE  Calm(Push(frame, rest))
<1>. DEFINE s == Push(frame, rest)
<1>1. <<frame>> \in Seq(Frame) /\ Len(<<frame>>) = 1 /\ <<frame>>[1] = frame
  OBVIOUS
<1>2. /\ s \in Seq(Frame) /\ Len(s) = 1 + Len(rest)
      /\ \A i \in 1..Len(s) : s[i] = IF i <= 1 THEN <<frame>>[i] ELSE rest[i - 1]
  BY <1>1, ConcatProperties DEF Push
<1>3. ASSUME NEW i \in DOMAIN s PROVE ~(s[i].op = "send" /\ s[i].flag)
  <2>1. Len(s) \in Nat /\ DOMAIN s = 1..Len(s) /\ Len(rest) \in Nat /\ DOMAIN rest = 1..Len(rest)
    BY <1>2, LenProperties
  <2>2. CASE i = 1
    <3>1. s[i] = frame
      BY <1>1, <1>2, <2>1, <2>2
    <3>. QED BY <3>1
  <2>3. CASE i # 1
    <3>1. s[i] = rest[i - 1] /\ i - 1 \in DOMAIN rest
      BY <1>2, <2>1, <2>3
    <3>. QED BY <3>1 DEF Calm
  <2>. QED BY <2>2, <2>3
<1>. QED BY <1>3 DEF Calm

\* Popping adds no flagged wake, and a calm stack's top carries none.
LEMMA CalmPop ==
    ASSUME NEW s \in Seq(Frame), s # <<>>, Calm(s)
    PROVE  Calm(Tail(s)) /\ (Head(s).op = "send" => Head(s).flag = FALSE)
<1>1. /\ Len(s) \in Nat /\ Len(s) >= 1 /\ DOMAIN s = 1..Len(s)
      /\ Head(s) = s[1] /\ Tail(s) \in Seq(Frame) /\ Len(Tail(s)) = Len(s) - 1
      /\ \A i \in 1..Len(Tail(s)) : Tail(s)[i] = s[i + 1]
  BY HeadTailProperties, LenProperties, EmptySeq
<1>2. DOMAIN Tail(s) = 1..Len(Tail(s))
  BY <1>1, LenProperties
<1>3. ASSUME NEW i \in DOMAIN Tail(s)
      PROVE  ~(Tail(s)[i].op = "send" /\ Tail(s)[i].flag)
  <2>1. Tail(s)[i] = s[i + 1] /\ i + 1 \in DOMAIN s
    BY <1>1, <1>2
  <2>. QED BY <2>1 DEF Calm
<1>4. ~(s[1].op = "send" /\ s[1].flag) /\ s[1] \in Frame
  BY <1>1, ElementOfSeq DEF Calm
<1>5. s[1].flag \in BOOLEAN
  BY <1>4 DEF Frame
<1>. QED BY <1>1, <1>3, <1>4, <1>5 DEF Calm

\* The short stacks carry no flagged wake.
LEMMA ShortCalm ==
    /\ Calm(<<>>) /\ Calm(<<Drive>>)
    /\ \A flag \in BOOLEAN : Calm(<<SettleFrame(flag)>>)
BY DEF Calm, Drive, SettleFrame

\* Only send() puts a flagged frame on the stack.
LEMMA FrameOps ==
    /\ Drive.op # "send"
    /\ \A flag \in BOOLEAN : SettleFrame(flag).op # "send"
    /\ SendFrame(FALSE).flag = FALSE
    /\ \A cause \in Causes \cup {"none"} :
          ClearFrame(cause).op # "send" /\ AbortFrame(cause).op # "send"
BY DEF Drive, SendFrame, SettleFrame, ClearFrame, AbortFrame

\* Every step keeps flagged wakes behind an aborted activity.
LEMMA FlaggedWakesStep == TypeOK /\ FlaggedWakes /\ [Next]_vars => FlaggedWakes'
<1>. SUFFICES ASSUME TypeOK, FlaggedWakes, [Next]_vars PROVE FlaggedWakes'
  OBVIOUS
<1>typ. stack \in Seq(Frame) /\ latch \in BOOLEAN
  BY DEF TypeOK, ControlTypeOK
<1>push. ASSUME NEW frame \in Frame, NEW rest \in Seq(Frame), Calm(rest),
                frame.op # "send" \/ frame.flag = FALSE
         PROVE  Calm(Push(frame, rest))
  BY <1>push, CalmPush
<1>pop. ASSUME stack # <<>>, Calm(stack)
        PROVE  /\ Calm(Tail(stack)) /\ Tail(stack) \in Seq(Frame)
               /\ Head(stack).op = "send" => Head(stack).flag = FALSE
  BY <1>pop, <1>typ, CalmPop, PopTypes
<1>calm. FlaggedWakes
  OBVIOUS
<1>. USE DEF FlaggedWakes
<1>. USE DEF activity
<1>1. ASSUME NEW m \in Msgs, NEW t \in Targets, NEW w \in BOOLEAN, Send(m, t, w) PROVE FlaggedWakes'
  BY <1>1, <1>typ, <1>push, <1>pop, <1>calm, ShortCalm, FrameTypes, FrameOps DEF Send
<1>2. ASSUME NEW c \in Causes, Cancel(c) PROVE FlaggedWakes'
  BY <1>2, <1>typ, <1>push, <1>pop, <1>calm, ShortCalm, FrameTypes, FrameOps DEF Cancel, ClearSteps,
      ClearTurns, NothingToClear, DropLatchAndAbort, AbortActivity
<1>3. ASSUME SendWakes PROVE FlaggedWakes'
  BY <1>3, <1>typ, <1>push, <1>pop, <1>calm, ShortCalm, FrameTypes, FrameOps DEF SendWakes, WakeDriver,
      StartDriver, LatchWake, Top
<1>4. ASSUME CancelClearsTurns PROVE FlaggedWakes'
  <2>1. Head(stack).cause \in Causes \cup {"none"} /\ stack # <<>>
    BY <1>4, <1>typ, PopTypes DEF CancelClearsTurns, Top
  <2>2. /\ \/ stack' = Push(AbortFrame(Head(stack).cause), Tail(stack))
           \/ stack' = Tail(stack)
        /\ phase' = phase /\ (abort # "none" => abort' = abort)
    BY <1>4 DEF CancelClearsTurns, ClearTurns, NothingToClear, DropLatchAndAbort, AbortActivity
  <2>3. CASE Calm(stack)
    BY <2>1, <2>2, <2>3, <1>push, <1>pop, FrameTypes, FrameOps
  <2>4. CASE ~Calm(stack)
    BY <2>2, <2>4, <1>calm
  <2>. QED BY <2>3, <2>4
<1>5. ASSUME CancelAborts PROVE FlaggedWakes'
  BY <1>5, <1>typ, <1>push, <1>pop, <1>calm, ShortCalm, FrameTypes, FrameOps DEF CancelAborts,
      DropLatchAndAbort, AbortActivity, Top
<1>6. ASSUME DriverStranded PROVE FlaggedWakes'
  BY <1>6, <1>typ, <1>push, <1>pop, <1>calm, ShortCalm, FrameTypes, FrameOps DEF DriverStranded, Top
<1>7. ASSUME TurnNeverOpens PROVE FlaggedWakes'
  BY <1>7, <1>typ, <1>push, <1>pop, <1>calm, ShortCalm, FrameTypes, FrameOps DEF TurnNeverOpens,
      ThrowsBeforeOpening, EnteringTurn, BelowDriver, Suspended, Top
<1>8. ASSUME TurnOpens PROVE FlaggedWakes'
  BY <1>8, <1>typ, <1>push, <1>pop, <1>calm, ShortCalm, FrameTypes, FrameOps DEF TurnOpens,
      EnteringTurn, BelowDriver, Suspended, Top
<1>9. ASSUME TurnRefused PROVE FlaggedWakes'
  BY <1>9, <1>typ, <1>push, <1>pop, <1>calm, ShortCalm, FrameTypes, FrameOps DEF TurnRefused,
      EnteringTurn, BelowDriver, Suspended, Top
<1>10. ASSUME RefusedTurnLeaves PROVE FlaggedWakes'
  BY <1>10, <1>typ, <1>push, <1>pop, <1>calm, ShortCalm, FrameTypes, FrameOps DEF RefusedTurnLeaves,
      Leaves, Top
<1>11. ASSUME FirstClaim PROVE FlaggedWakes'
  BY <1>11, <1>typ, <1>push, <1>pop, <1>calm, ShortCalm, FrameTypes, FrameOps DEF FirstClaim, Claim,
      EndTurn, Top
<1>12. ASSUME DriverExits PROVE FlaggedWakes'
  BY <1>12, <1>typ, <1>push, <1>pop, <1>calm, ShortCalm, FrameTypes, FrameOps DEF DriverExits,
      GoesIdle, Suspended
<1>13. ASSUME LatchReplays PROVE FlaggedWakes'
  BY <1>13, <1>typ, <1>push, <1>pop, <1>calm, ShortCalm, FrameTypes, FrameOps DEF LatchReplays,
      WakeDriver, StartDriver, LatchWake, Top
<1>14. ASSUME MaintenanceSettles PROVE FlaggedWakes'
  BY <1>14, <1>typ, <1>push, <1>pop, <1>calm, ShortCalm, FrameTypes, FrameOps DEF MaintenanceSettles,
      Suspended
<1>15. CASE (\E m \in Msgs : Remove(m)) \/
          (\E c \in Causes : CancelKeepingInbox(c)) \/ RunMaintenance \/
          ProposalFails \/ PreStepDecides \/ StepRejected
  BY <1>15, <1>typ, <1>push, <1>pop, <1>calm, ShortCalm, FrameTypes, FrameOps DEF Remove,
      CancelKeepingInbox, AbortActivity, RunMaintenance, ProposalFails,
      EndTurn, FailTurn, Suspended, PreStepDecides, StepRejected
<1>16. CASE NothingEnters \/ StepAborted \/ StepOpens \/
          (\E e \in {"completed", "max-tokens", "null"} : StepReturns(e)) \/
          StepThrows \/ BrokenStepLeaves
  BY <1>16, <1>typ, <1>push, <1>pop, <1>calm, ShortCalm, FrameTypes, FrameOps DEF NothingEnters,
      EndTurn, BreakTurn, Suspended, StepAborted, AbandonStep, StepOpens,
      EnterStep, StepReturns, StepThrows, BrokenStepLeaves, FailTurn
<1>17. CASE StepCloses \/ TurnStops \/ StoppingFails \/
          FailedTurnCloses \/ TurnContinues \/ RegistryCloses
  BY <1>17, <1>typ, <1>push, <1>pop, <1>calm, ShortCalm, FrameTypes, FrameOps DEF StepCloses, Claim,
      EndTurn, TurnStops, StopsOrGoesOn, BreakTurn, Suspended, StoppingFails,
      FailTurn, FailedTurnCloses, TurnContinues, FreshController,
      RegistryCloses
<1>18. CASE CrashAndResume
  BY <1>18, <1>typ, <1>push, <1>pop, <1>calm, ShortCalm, FrameTypes, FrameOps DEF CrashAndResume,
      ResumedTurn
<1>19. CASE UNCHANGED vars
  BY <1>19, <1>calm DEF vars
<1>. QED BY <1>1, <1>2, <1>3, <1>4, <1>5, <1>6, <1>7, <1>8, <1>9, <1>10,
      <1>11, <1>12, <1>13, <1>14, <1>15, <1>16, <1>17, <1>18, <1>19 DEF Next,
      Calls, Resumes

\* Every step keeps the latch's discipline.
LEMMA LatchStep == TypeOK /\ PhaseHasOneOwner /\ FlaggedWakes /\ LatchDiscipline /\ [Next]_vars => LatchDiscipline'
<1>. SUFFICES ASSUME TypeOK, PhaseHasOneOwner, FlaggedWakes, LatchDiscipline, [Next]_vars PROVE LatchDiscipline'
  OBVIOUS
<1>typ. /\ latch \in BOOLEAN /\ phase \in {"idle", "maintenance", "running"}
        /\ abort \in {"user", "disposed", "none"}
  BY DEF TypeOK, ControlTypeOK, Causes
<1>. USE DEF Causes
<1>. USE DEF activity, LatchDiscipline
<1>1. ASSUME NEW c \in Causes, Cancel(c) PROVE LatchDiscipline'
  BY <1>1, <1>typ DEF Cancel, ClearSteps, ClearTurns, NothingToClear,
      DropLatchAndAbort, AbortActivity
<1>2. ASSUME NEW c \in Causes, CancelKeepingInbox(c) PROVE LatchDiscipline'
  BY <1>2, <1>typ DEF CancelKeepingInbox, AbortActivity
<1>3. ASSUME SendWakes PROVE LatchDiscipline'
  <2>1. Head(stack).op = "send" /\ Head(stack).flag => abort # "none"
    BY <1>3, HeadTailProperties, CalmPop DEF SendWakes, Top, TypeOK, FlaggedWakes
  <2>2. CASE StartDriver(Tail(stack))
    BY <2>2 DEF StartDriver
  <2>3. CASE phase # "idle" /\ LatchWake(Head(stack).flag, Tail(stack))
    BY <1>3, <2>1, <2>3, <1>typ DEF SendWakes, LatchWake, Top
  <2>. QED BY <1>3, <2>2, <2>3 DEF SendWakes, WakeDriver
<1>4. ASSUME CancelClearsTurns PROVE LatchDiscipline'
  BY <1>4, <1>typ DEF CancelClearsTurns, ClearTurns, NothingToClear,
      DropLatchAndAbort, AbortActivity
<1>5. ASSUME CancelAborts PROVE LatchDiscipline'
  BY <1>5, <1>typ DEF CancelAborts, DropLatchAndAbort, AbortActivity
<1>6. ASSUME LatchReplays PROVE LatchDiscipline'
  <2>1. CASE StartDriver(Tail(stack))
    BY <2>1 DEF StartDriver
  <2>2. CASE LatchWake(FALSE, Tail(stack))
    BY <2>2, <1>typ DEF LatchWake
  <2>. QED BY <1>6, <2>1, <2>2, <1>typ DEF LatchReplays, WakeDriver
<1>7. ASSUME MaintenanceSettles PROVE LatchDiscipline'
  BY <1>7, <1>typ DEF MaintenanceSettles
<1>8. CASE (\E m \in Msgs, t \in Targets, w \in BOOLEAN : Send(m, t, w)) \/
          (\E m \in Msgs : Remove(m)) \/ RunMaintenance \/
          DriverStranded \/ TurnNeverOpens \/ TurnOpens
  BY <1>8, <1>typ DEF Send, Remove, RunMaintenance, DriverStranded,
      TurnNeverOpens, ThrowsBeforeOpening, TurnOpens
<1>9. CASE TurnRefused \/ RefusedTurnLeaves \/ FirstClaim \/
          ProposalFails \/ PreStepDecides \/ StepRejected
  BY <1>9, <1>typ DEF TurnRefused, RefusedTurnLeaves, Leaves, FirstClaim,
      EndTurn, ProposalFails, FailTurn, PreStepDecides, StepRejected
<1>10. CASE NothingEnters \/ StepAborted \/ StepOpens \/
          (\E e \in {"completed", "max-tokens", "null"} : StepReturns(e)) \/
          StepThrows \/ BrokenStepLeaves
  BY <1>10, <1>typ DEF NothingEnters, EndTurn, BreakTurn, StepAborted,
      AbandonStep, StepOpens, EnterStep, StepReturns, StepThrows,
      BrokenStepLeaves, FailTurn
<1>11. CASE StepCloses \/ TurnStops \/ StoppingFails \/
          FailedTurnCloses \/ TurnContinues \/ DriverExits
  BY <1>11, <1>typ DEF StepCloses, EndTurn, TurnStops, StopsOrGoesOn,
      BreakTurn, StoppingFails, FailTurn, FailedTurnCloses, TurnContinues,
      FreshController, DriverExits, GoesIdle
<1>12. CASE RegistryCloses \/ CrashAndResume
  BY <1>12, <1>typ DEF RegistryCloses, CrashAndResume, ResumedTurn
<1>13. CASE UNCHANGED vars
  BY <1>13, <1>typ DEF vars
<1>. QED BY <1>1, <1>2, <1>3, <1>4, <1>5, <1>6, <1>7, <1>8, <1>9, <1>10,
      <1>11, <1>12, <1>13 DEF Next, Calls, Resumes

\* The latch only ever holds a wake behind maintenance or behind an activity
\* aborted by something else than disposal.
THEOREM LatchAlways == Spec => []LatchDiscipline
<1>1. Init => FlaggedWakes /\ LatchDiscipline
  BY ShortCalm DEF Init, FlaggedWakes, LatchDiscipline
<1>. QED
  BY <1>1, TypeCorrect, OwnerAlways, FlaggedWakesStep, LatchStep, PTL DEF Spec

-----------------------------------------------------------------------------
(* The session log *)

\* Closing a turn from any position without an open step leaves driver and log
\* in agreement.
LEMMA EndedTurnAgrees ==
    ASSUME TypeOK, LogFollowsDriver, pc \in InTurnPcs \ {"stepping"}, NEW reason,
           log' = LogTurnEnd(reason), pc' \in {"exiting", "ended"}, UNCHANGED <<turn, step>>
    PROVE  LogFollowsDriver'
<1>1. log \in Boundaries /\ turn \in Nat /\ step \in Nat
  BY DEF TypeOK, ControlTypeOK
<1>2. log'.openTurn = 0 /\ log'.openStep = log.openStep /\ log'.turns = log.turns + 1
  BY <1>1 DEF LogTurnEnd, Boundaries
<1>. QED BY <1>1, <1>2 DEF LogFollowsDriver, InTurnPcs, Boundaries

\* Claiming a batch touches neither the open turn nor the open step.
LEMMA ClaimAgrees ==
    ASSUME TypeOK, LogFollowsDriver, pc \in InTurnPcs \ {"stepping"}, NEW target,
           Claim(target), UNCHANGED <<turn, step>>
    PROVE  LogFollowsDriver'
<1>1. log \in Boundaries
  BY DEF TypeOK
<1>2. /\ log'.openTurn = log.openTurn /\ log'.openStep = log.openStep
      /\ log'.turns = log.turns /\ log'.steps = log.steps /\ pc' = "proposed"
  BY <1>1 DEF Claim, TakeBatch, Boundaries
<1>. QED BY <1>2 DEF LogFollowsDriver, InTurnPcs

\* Moving on inside an open turn without an append keeps the agreement.
LEMMA OpenTurnAgrees ==
    ASSUME LogFollowsDriver, pc \in InTurnPcs \ {"stepping"},
           pc' \in InTurnPcs \ {"stepping", "opened"}, UNCHANGED <<log, turn, step>>
    PROVE  LogFollowsDriver'
BY DEF LogFollowsDriver, InTurnPcs

\* Every step keeps driver and log in agreement.
LEMMA LogStep == TypeOK /\ PhaseHasOneOwner /\ LogFollowsDriver /\ [Next]_vars => LogFollowsDriver'
<1>. SUFFICES ASSUME TypeOK, PhaseHasOneOwner, LogFollowsDriver, [Next]_vars PROVE LogFollowsDriver'
  OBVIOUS
<1>typ. turn \in Nat /\ step \in Nat /\ log \in Boundaries
  BY DEF TypeOK, ControlTypeOK
<1>pcs. {"opened", "proposed", "decided", "stepped", "broken", "stopping", "failed"}
           = InTurnPcs \ {"stepping"}
  BY DEF InTurnPcs
<1>. USE DEF activity, inbox, local, world
<1>1. ASSUME NEW c \in Causes, Cancel(c) PROVE LogFollowsDriver'
  BY <1>1, <1>typ DEF Cancel, ClearSteps, ClearTurns, NothingToClear,
      DropLatchAndAbort, AbortActivity, LogFollowsDriver, InTurnPcs,
      PhaseHasOneOwner
<1>2. ASSUME SendWakes PROVE LogFollowsDriver'
  BY <1>2, <1>typ DEF SendWakes, WakeDriver, StartDriver, LatchWake, Top,
      LogFollowsDriver, InTurnPcs, PhaseHasOneOwner
<1>3. ASSUME CancelClearsTurns PROVE LogFollowsDriver'
  BY <1>3, <1>typ DEF CancelClearsTurns, ClearTurns, NothingToClear,
      DropLatchAndAbort, AbortActivity, Top, LogFollowsDriver, InTurnPcs,
      PhaseHasOneOwner
<1>4. ASSUME TurnOpens PROVE LogFollowsDriver'
  <2>1. log'.openTurn = turn + 1 /\ log'.openStep = log.openStep /\ log'.turns = log.turns /\ log'.steps = 0
    BY <1>4, <1>typ DEF TurnOpens, LogTurnStart, Boundaries
  <2>2. pc \in {"started", "again"} /\ pc' = "opened" /\ turn' = turn + 1 /\ step' = step
    BY <1>4 DEF TurnOpens, EnteringTurn
  <2>. QED BY <2>1, <2>2, <1>typ DEF LogFollowsDriver, InTurnPcs, Boundaries
<1>5. ASSUME FirstClaim PROVE LogFollowsDriver'
  <2>1. CASE abort # "none"
    BY <1>5, <2>1, <1>pcs, EndedTurnAgrees DEF FirstClaim, EndTurn
  <2>2. CASE abort = "none"
    BY <1>5, <2>2, <1>pcs, ClaimAgrees DEF FirstClaim
  <2>. QED BY <2>1, <2>2
<1>6. ASSUME ProposalFails PROVE LogFollowsDriver'
  <2>1. CASE abort # "none"
    BY <1>6, <2>1, <1>pcs, EndedTurnAgrees DEF ProposalFails, EndTurn
  <2>2. CASE abort = "none"
    BY <1>6, <2>2, <1>pcs, OpenTurnAgrees DEF ProposalFails, FailTurn
  <2>. QED BY <2>1, <2>2
<1>7. ASSUME PreStepDecides PROVE LogFollowsDriver'
  BY <1>7, <1>pcs, OpenTurnAgrees DEF PreStepDecides
<1>8. ASSUME StepRejected PROVE LogFollowsDriver'
  BY <1>8, <1>pcs, EndedTurnAgrees DEF StepRejected, EndTurn
<1>9. ASSUME NothingEnters PROVE LogFollowsDriver'
  BY <1>9, <1>pcs, EndedTurnAgrees DEF NothingEnters, EndTurn, BreakTurn
<1>10. ASSUME StepAborted PROVE LogFollowsDriver'
  BY <1>10, <1>pcs, EndedTurnAgrees DEF StepAborted, AbandonStep, EndTurn
<1>11. ASSUME StepOpens PROVE LogFollowsDriver'
  <2>1. log'.openTurn = log.openTurn /\ log'.openStep = step + 1 /\ log'.turns = log.turns /\ log'.steps = log.steps
    BY <1>11, <1>typ DEF StepOpens, EnterStep, LogStepStart, Boundaries
  <2>2. pc = "decided" /\ pc' = "stepping" /\ turn' = turn /\ step' = step + 1
    BY <1>11 DEF StepOpens, EnterStep
  <2>. QED BY <2>1, <2>2, <1>typ DEF LogFollowsDriver, InTurnPcs, Boundaries
<1>12. ASSUME NEW e \in {"completed", "max-tokens", "null"}, StepReturns(e) PROVE LogFollowsDriver'
  <2>1. log'.openTurn = log.openTurn /\ log'.openStep = 0 /\ log'.turns = log.turns /\ log'.steps = log.steps + 1
    BY <1>12, <1>typ DEF StepReturns, LogStepEnd, Boundaries
  <2>2. pc = "stepping" /\ pc' = "stepped" /\ turn' = turn /\ step' = step
    BY <1>12 DEF StepReturns
  <2>. QED BY <2>1, <2>2, <1>typ DEF LogFollowsDriver, InTurnPcs, Boundaries
<1>13. ASSUME StepThrows PROVE LogFollowsDriver'
  <2>1. log'.openTurn = log.openTurn /\ log'.openStep = 0 /\ log'.turns = log.turns /\ log'.steps = log.steps + 1
    BY <1>13, <1>typ DEF StepThrows, LogStepEnd, Boundaries
  <2>2. pc = "stepping" /\ pc' = "broken" /\ turn' = turn /\ step' = step
    BY <1>13 DEF StepThrows
  <2>. QED BY <2>1, <2>2, <1>typ DEF LogFollowsDriver, InTurnPcs, Boundaries
<1>14. ASSUME BrokenStepLeaves PROVE LogFollowsDriver'
  <2>1. CASE abort # "none"
    BY <1>14, <2>1, <1>pcs, EndedTurnAgrees DEF BrokenStepLeaves, EndTurn
  <2>2. CASE abort = "none"
    BY <1>14, <2>2, <1>pcs, OpenTurnAgrees DEF BrokenStepLeaves, FailTurn
  <2>. QED BY <2>1, <2>2
<1>15. ASSUME StepCloses PROVE LogFollowsDriver'
  <2>1. CASE EndTurn("aborted")
    BY <1>15, <2>1, <1>pcs, EndedTurnAgrees DEF StepCloses, EndTurn
  <2>2. CASE Claim("next-step")
    BY <1>15, <2>2, <1>pcs, ClaimAgrees DEF StepCloses
  <2>3. CASE pc' = "stopping" /\ UNCHANGED log
    BY <1>15, <2>3, <1>pcs, OpenTurnAgrees DEF StepCloses
  <2>. QED BY <1>15, <2>1, <2>2, <2>3 DEF StepCloses
<1>16. ASSUME TurnStops PROVE LogFollowsDriver'
  <2>1. CASE EndTurn("aborted") \/ BreakTurn(ending)
    BY <1>16, <2>1, <1>pcs, EndedTurnAgrees DEF TurnStops, EndTurn, BreakTurn
  <2>2. CASE Claim("next-step")
    BY <1>16, <2>2, <1>pcs, ClaimAgrees DEF TurnStops
  <2>. QED BY <1>16, <2>1, <2>2 DEF TurnStops, StopsOrGoesOn
<1>17. ASSUME StoppingFails PROVE LogFollowsDriver'
  BY <1>17, <1>pcs, OpenTurnAgrees DEF StoppingFails, FailTurn
<1>18. ASSUME FailedTurnCloses PROVE LogFollowsDriver'
  BY <1>18, <1>pcs, EndedTurnAgrees DEF FailedTurnCloses, EndTurn
<1>19. ASSUME TurnContinues PROVE LogFollowsDriver'
  BY <1>19, <1>typ DEF TurnContinues, FreshController, LogFollowsDriver,
      InTurnPcs, PhaseHasOneOwner
<1>20. ASSUME LatchReplays PROVE LogFollowsDriver'
  BY <1>20, <1>typ DEF LatchReplays, WakeDriver, StartDriver, LatchWake, Top,
      LogFollowsDriver, InTurnPcs, PhaseHasOneOwner
<1>21. ASSUME MaintenanceSettles PROVE LogFollowsDriver'
  BY <1>21, <1>typ DEF MaintenanceSettles, Suspended, LogFollowsDriver,
      InTurnPcs, PhaseHasOneOwner
<1>22. ASSUME CrashAndResume PROVE LogFollowsDriver'
  <2>1. pc' = "off" /\ turn' = ResumedTurn /\ step' = 0
    BY <1>22 DEF CrashAndResume
  <2>2. CASE log.openTurn = 0
    <3>1. log' = log
      BY <1>22, <2>2 DEF CrashAndResume
    <3>2. turn = log.turns /\ log.openStep = 0
      BY <2>2, <1>typ DEF LogFollowsDriver, InTurnPcs, Boundaries
    <3>. QED BY <2>1, <2>2, <3>1, <3>2, <1>typ DEF LogFollowsDriver, InTurnPcs, ResumedTurn
  <2>3. CASE log.openTurn # 0
    <3>1. log'.openTurn = 0 /\ log'.openStep = 0 /\ log'.turns = log.turns + 1
      BY <1>22, <2>3, <1>typ DEF CrashAndResume, Boundaries
    <3>2. pc \in InTurnPcs /\ log.openTurn = turn /\ turn = log.turns + 1
      BY <2>3, <1>typ DEF LogFollowsDriver
    <3>. QED BY <2>1, <2>3, <3>1, <3>2, <1>typ DEF LogFollowsDriver, InTurnPcs, ResumedTurn
  <2>. QED BY <2>2, <2>3
<1>23. CASE (\E m \in Msgs, t \in Targets, w \in BOOLEAN : Send(m, t, w)) \/
          (\E m \in Msgs : Remove(m)) \/
          (\E c \in Causes : CancelKeepingInbox(c)) \/ RunMaintenance \/
          CancelAborts \/ DriverStranded
  BY <1>23, <1>typ DEF Send, Remove, CancelKeepingInbox, AbortActivity,
      RunMaintenance, CancelAborts, DropLatchAndAbort, Top, DriverStranded,
      LogFollowsDriver, InTurnPcs, PhaseHasOneOwner
<1>24. CASE TurnNeverOpens \/ TurnRefused \/ RefusedTurnLeaves \/
          DriverExits \/ RegistryCloses
  BY <1>24, <1>typ DEF TurnNeverOpens, ThrowsBeforeOpening, EnteringTurn,
      Suspended, Top, TurnRefused, RefusedTurnLeaves, Leaves, DriverExits,
      GoesIdle, RegistryCloses, LogFollowsDriver, InTurnPcs, PhaseHasOneOwner
<1>25. CASE UNCHANGED vars
  BY <1>25, <1>typ DEF vars, LogFollowsDriver, InTurnPcs, PhaseHasOneOwner
<1>. QED BY <1>1, <1>2, <1>3, <1>4, <1>5, <1>6, <1>7, <1>8, <1>9, <1>10,
      <1>11, <1>12, <1>13, <1>14, <1>15, <1>16, <1>17, <1>18, <1>19, <1>20,
      <1>21, <1>22, <1>23, <1>24, <1>25 DEF Next, Calls, Resumes

\* The driver's open turn, open step and counters are those of the log, in
\* every behaviour, across crashes and reused drivers.
THEOREM LogAlways == Spec => []LogFollowsDriver
<1>1. Init => LogFollowsDriver
  BY DEF Init, NoTurns, LogFollowsDriver, InTurnPcs
<1>. QED BY <1>1, TypeCorrect, OwnerAlways, LogStep, PTL DEF Spec

-----------------------------------------------------------------------------
(* Refinement: the boundaries appended are a legal session log *)

\* Closing a turn without an open step is the abstract TurnEnd.
LEMMA EndedTurnMaps ==
    ASSUME TypeOK, LogFollowsDriver, pc \in InTurnPcs \ {"stepping"}, turn > 0, NEW reason,
           log' = LogTurnEnd(reason)
    PROVE  TL!TurnEnd
<1>1. log \in Boundaries /\ turn \in Nat
  BY DEF TypeOK, ControlTypeOK
<1>2. /\ log'.openTurn = 0 /\ log'.openStep = log.openStep
      /\ log'.turns = log.turns + 1 /\ log'.steps = log.steps
  BY <1>1 DEF LogTurnEnd, Boundaries
<1>3. log.openTurn = turn /\ log.openStep = 0
  BY DEF LogFollowsDriver
<1>. QED BY <1>1, <1>2, <1>3 DEF TL!TurnEnd

\* Closing the open step is the abstract StepEnd.
LEMMA StepEndMaps ==
    ASSUME TypeOK, LogFollowsDriver, pc = "stepping", turn > 0, step > 0, log' = LogStepEnd
    PROVE  TL!StepEnd
<1>1. log \in Boundaries /\ turn \in Nat /\ step \in Nat
  BY DEF TypeOK, ControlTypeOK
<1>2. /\ log'.openTurn = log.openTurn /\ log'.openStep = 0
      /\ log'.turns = log.turns /\ log'.steps = log.steps + 1
  BY <1>1 DEF LogStepEnd, Boundaries
<1>3. log.openTurn = turn /\ log.openStep = step
  BY DEF LogFollowsDriver, InTurnPcs
<1>. QED BY <1>1, <1>2, <1>3 DEF TL!StepEnd

\* Claiming a batch is invisible to the abstract log.
LEMMA ClaimMaps ==
    ASSUME TypeOK, NEW target, Claim(target)
    PROVE  UNCHANGED TL!logVars
<1>1. log \in Boundaries
  BY DEF TypeOK
<1>2. /\ log'.openTurn = log.openTurn /\ log'.openStep = log.openStep
      /\ log'.turns = log.turns /\ log'.steps = log.steps
  BY <1>1 DEF Claim, TakeBatch, Boundaries
<1>. QED BY <1>2 DEF TL!logVars

\* So is everything that leaves the log alone.
LEMMA QuietMaps == UNCHANGED log => UNCHANGED TL!logVars
BY DEF TL!logVars

\* Numbers of open turns and steps are positive.
LEMMA OpenNumbers ==
    ASSUME TypeOK, LogFollowsDriver
    PROVE  /\ pc \in InTurnPcs => turn > 0
           /\ pc = "stepping" => step > 0
BY DEF TypeOK, ControlTypeOK, LogFollowsDriver, Boundaries, InTurnPcs

\* Every step of the driver is a step of the abstract log or leaves it alone.
LEMMA TurnLogStep == TypeOK /\ LogFollowsDriver /\ [Next]_vars => TL!Next \/ UNCHANGED TL!logVars
<1>. SUFFICES ASSUME TypeOK, LogFollowsDriver, [Next]_vars PROVE TL!Next \/ UNCHANGED TL!logVars
  OBVIOUS
<1>typ. turn \in Nat /\ step \in Nat /\ log \in Boundaries
  BY DEF TypeOK, ControlTypeOK
<1>pcs. {"opened", "proposed", "decided", "stepped", "broken", "stopping", "failed"}
           = InTurnPcs \ {"stepping"}
  BY DEF InTurnPcs
<1>stp. "stepping" \in InTurnPcs
  BY DEF InTurnPcs
<1>quiet. UNCHANGED log => UNCHANGED TL!logVars
  BY QuietMaps
<1>. USE DEF TL!Next
<1>1. ASSUME TurnOpens PROVE TL!Next \/ UNCHANGED TL!logVars
  <2>1. log'.openTurn = turn + 1 /\ log'.openStep = log.openStep /\ log'.turns = log.turns /\ log'.steps = 0
    BY <1>1, <1>typ DEF TurnOpens, LogTurnStart, Boundaries
  <2>2. log.openTurn = 0 /\ log.openStep = 0 /\ turn = log.turns
    BY <1>1, <1>typ DEF TurnOpens, EnteringTurn, LogFollowsDriver, InTurnPcs, Boundaries
  <2>. QED BY <2>1, <2>2 DEF TL!TurnStart
<1>2. ASSUME FirstClaim PROVE TL!Next \/ UNCHANGED TL!logVars
  <2>1. CASE abort # "none"
    BY <1>2, <2>1, <1>pcs, OpenNumbers, EndedTurnMaps DEF FirstClaim, EndTurn
  <2>2. CASE abort = "none"
    BY <1>2, <2>2, ClaimMaps, QuietMaps DEF FirstClaim, FailTurn
  <2>. QED BY <2>1, <2>2
<1>3. ASSUME ProposalFails PROVE TL!Next \/ UNCHANGED TL!logVars
  <2>1. CASE abort # "none"
    BY <1>3, <2>1, <1>pcs, OpenNumbers, EndedTurnMaps DEF ProposalFails, EndTurn
  <2>2. CASE abort = "none"
    BY <1>3, <2>2, ClaimMaps, QuietMaps DEF ProposalFails, FailTurn
  <2>. QED BY <2>1, <2>2
<1>4. ASSUME StepRejected PROVE TL!Next \/ UNCHANGED TL!logVars
  BY <1>4, <1>pcs, OpenNumbers, EndedTurnMaps DEF StepRejected, EndTurn
<1>5. ASSUME NothingEnters PROVE TL!Next \/ UNCHANGED TL!logVars
  BY <1>5, <1>pcs, OpenNumbers, EndedTurnMaps DEF NothingEnters, EndTurn, BreakTurn
<1>6. ASSUME StepAborted PROVE TL!Next \/ UNCHANGED TL!logVars
  BY <1>6, <1>pcs, OpenNumbers, EndedTurnMaps DEF StepAborted, AbandonStep, EndTurn
<1>7. ASSUME StepOpens PROVE TL!Next \/ UNCHANGED TL!logVars
  <2>1. log'.openTurn = log.openTurn /\ log'.openStep = step + 1 /\ log'.turns = log.turns /\ log'.steps = log.steps
    BY <1>7, <1>typ DEF StepOpens, EnterStep, LogStepStart, Boundaries
  <2>2. log.openTurn = turn /\ turn > 0 /\ log.openStep = 0 /\ step = log.steps
    BY <1>7, <1>typ, <1>pcs, OpenNumbers DEF StepOpens, EnterStep, LogFollowsDriver, InTurnPcs, Boundaries
  <2>. QED BY <2>1, <2>2, <1>typ DEF TL!StepStart
<1>8. ASSUME NEW e \in {"completed", "max-tokens", "null"}, StepReturns(e) PROVE TL!Next \/ UNCHANGED TL!logVars
  BY <1>8, <1>stp, OpenNumbers, StepEndMaps DEF StepReturns
<1>9. ASSUME StepThrows PROVE TL!Next \/ UNCHANGED TL!logVars
  BY <1>9, <1>stp, OpenNumbers, StepEndMaps DEF StepThrows
<1>10. ASSUME BrokenStepLeaves PROVE TL!Next \/ UNCHANGED TL!logVars
  <2>1. CASE abort # "none"
    BY <1>10, <2>1, <1>pcs, OpenNumbers, EndedTurnMaps DEF BrokenStepLeaves, EndTurn
  <2>2. CASE abort = "none"
    BY <1>10, <2>2, ClaimMaps, QuietMaps DEF BrokenStepLeaves, FailTurn
  <2>. QED BY <2>1, <2>2
<1>11. ASSUME StepCloses PROVE TL!Next \/ UNCHANGED TL!logVars
  <2>1. CASE EndTurn("aborted")
    BY <1>11, <2>1, <1>pcs, OpenNumbers, EndedTurnMaps DEF StepCloses, EndTurn
  <2>2. CASE Claim("next-step")
    BY <2>2, ClaimMaps
  <2>3. CASE UNCHANGED log
    BY <2>3, QuietMaps
  <2>. QED BY <1>11, <2>1, <2>2, <2>3 DEF StepCloses, local
<1>12. ASSUME TurnStops PROVE TL!Next \/ UNCHANGED TL!logVars
  <2>1. CASE EndTurn("aborted") \/ BreakTurn(ending)
    BY <1>12, <2>1, <1>pcs, OpenNumbers, EndedTurnMaps DEF TurnStops, EndTurn, BreakTurn
  <2>2. CASE Claim("next-step")
    BY <2>2, ClaimMaps
  <2>. QED BY <1>12, <2>1, <2>2 DEF TurnStops, StopsOrGoesOn
<1>13. ASSUME FailedTurnCloses PROVE TL!Next \/ UNCHANGED TL!logVars
  BY <1>13, <1>pcs, OpenNumbers, EndedTurnMaps DEF FailedTurnCloses, EndTurn
<1>14. ASSUME CrashAndResume PROVE TL!Next \/ UNCHANGED TL!logVars
  <2>1. CASE log.openTurn = 0
    BY <1>14, <2>1, QuietMaps DEF CrashAndResume
  <2>2. CASE log.openTurn # 0
    <3>1. /\ log'.openTurn = 0 /\ log'.openStep = 0 /\ log'.turns = log.turns + 1
          /\ log'.steps = log.steps + (IF log.openStep # 0 THEN 1 ELSE 0)
      BY <1>14, <2>2, <1>typ DEF CrashAndResume, Boundaries
    <3>2. log.steps + 1 + (IF log.openStep # 0 THEN 1 ELSE 0)
             = log.steps + (IF log.openStep # 0 THEN 1 ELSE 0) + 1
      BY <1>typ DEF Boundaries
    <3>. QED BY <2>2, <3>1, <3>2, <1>typ DEF TL!Interrupt, Boundaries
  <2>. QED BY <2>1, <2>2
<1>15. CASE (\E m \in Msgs, t \in Targets, w \in BOOLEAN : Send(m, t, w)) \/
          (\E m \in Msgs : Remove(m)) \/ (\E c \in Causes : Cancel(c)) \/
          (\E c \in Causes : CancelKeepingInbox(c)) \/ RunMaintenance \/
          SendWakes
  BY <1>15, <1>quiet DEF Send, Remove, Cancel, CancelKeepingInbox,
      RunMaintenance, SendWakes
<1>16. CASE CancelClearsTurns \/ CancelAborts \/ DriverStranded \/
          TurnNeverOpens \/ TurnRefused \/ RefusedTurnLeaves
  BY <1>16, <1>quiet DEF CancelClearsTurns, CancelAborts, DriverStranded,
      TurnNeverOpens, ThrowsBeforeOpening, TurnRefused, RefusedTurnLeaves
<1>17. CASE PreStepDecides \/ StoppingFails \/ TurnContinues \/
          DriverExits \/ LatchReplays \/ MaintenanceSettles
  BY <1>17, <1>quiet DEF PreStepDecides, StoppingFails, FailTurn,
      TurnContinues, DriverExits, GoesIdle, LatchReplays, MaintenanceSettles
<1>18. CASE RegistryCloses
  BY <1>18, <1>quiet DEF RegistryCloses
<1>19. CASE UNCHANGED vars
  BY <1>19, <1>quiet DEF vars
<1>. QED BY <1>1, <1>2, <1>3, <1>4, <1>5, <1>6, <1>7, <1>8, <1>9, <1>10,
      <1>11, <1>12, <1>13, <1>14, <1>15, <1>16, <1>17, <1>18, <1>19 DEF Next,
      Calls, Resumes

\* The driver implements the abstract session log: turns and steps are numbered
\* without gaps and never overlap, across crashes and reused drivers.
THEOREM DriverImplementsTurnLog == Spec => ImplementsTurnLog
<1>1. Init => TL!Init
  BY DEF Init, NoTurns, TL!Init
<1>. QED
  BY <1>1, TypeCorrect, LogAlways, TurnLogStep, PTL DEF Spec, ImplementsTurnLog, TL!Spec

-----------------------------------------------------------------------------
(* Cancellation *)

\* The action of AbortStopsWork.
AbortStep ==
    abort # "none" =>
        /\ log'.openTurn \in {0, log.openTurn}
        /\ log'.openStep \in {0, log.openStep}
        /\ \A m \in Msgs : fate'[m] \in {"claimed", "entered"} => fate'[m] = fate[m]

\* Closing a turn or a step opens nothing.
LEMMA EndsKeepNumbers ==
    ASSUME log \in Boundaries
    PROVE  /\ \A reason : LogTurnEnd(reason).openTurn = 0 /\ LogTurnEnd(reason).openStep = log.openStep
           /\ LogStepEnd.openTurn = log.openTurn /\ LogStepEnd.openStep = 0
BY DEF LogTurnEnd, LogStepEnd, Boundaries

\* No step of an aborted activity opens or claims anything.
LEMMA AbortNextStep == TypeOK /\ [Next]_vars => AbortStep
<1>. SUFFICES ASSUME TypeOK, [Next]_vars PROVE AbortStep
  OBVIOUS
<1>log. log \in Boundaries /\ fate \in [Msgs -> Fates]
  BY DEF TypeOK, InboxTypeOK
<1>. USE DEF AbortStep, activity, inbox, local, world, Settle, EndTurn,
      BreakTurn, FailTurn
<1>1. ASSUME NEW m \in Msgs, NEW t \in Targets, NEW w \in BOOLEAN, Send(m, t, w) PROVE AbortStep
  BY <1>1, <1>log, EndsKeepNumbers DEF Send
<1>2. ASSUME NEW c \in Causes, Cancel(c) PROVE AbortStep
  BY <1>2, <1>log, EndsKeepNumbers DEF Cancel, ClearSteps, ClearTurns,
      NothingToClear, DropLatchAndAbort, AbortActivity
<1>3. ASSUME CancelClearsTurns PROVE AbortStep
  BY <1>3, <1>log, EndsKeepNumbers DEF CancelClearsTurns, ClearTurns,
      NothingToClear, DropLatchAndAbort, AbortActivity
<1>4. ASSUME TurnOpens PROVE AbortStep
  BY <1>4, <1>log, EndsKeepNumbers DEF TurnOpens, EnteringTurn
<1>5. ASSUME FirstClaim PROVE AbortStep
  BY <1>5, <1>log, EndsKeepNumbers DEF FirstClaim
<1>6. ASSUME ProposalFails PROVE AbortStep
  BY <1>6, <1>log, EndsKeepNumbers DEF ProposalFails
<1>7. ASSUME StepOpens PROVE AbortStep
  BY <1>7, <1>log, EndsKeepNumbers DEF StepOpens, EnterStep
<1>8. ASSUME BrokenStepLeaves PROVE AbortStep
  BY <1>8, <1>log, EndsKeepNumbers DEF BrokenStepLeaves
<1>9. ASSUME StepCloses PROVE AbortStep
  BY <1>9, <1>log, EndsKeepNumbers DEF StepCloses
<1>10. ASSUME TurnStops PROVE AbortStep
  BY <1>10, <1>log, EndsKeepNumbers DEF TurnStops, StopsOrGoesOn
<1>11. ASSUME CrashAndResume PROVE AbortStep
  BY <1>11, <1>log DEF CrashAndResume, Boundaries
<1>12. CASE (\E m \in Msgs : Remove(m)) \/
          (\E c \in Causes : CancelKeepingInbox(c)) \/ RunMaintenance \/
          SendWakes \/ CancelAborts \/ DriverStranded
  BY <1>12, <1>log, EndsKeepNumbers DEF Remove, CancelKeepingInbox,
      AbortActivity, RunMaintenance, SendWakes, WakeDriver, StartDriver,
      LatchWake, CancelAborts, DropLatchAndAbort, DriverStranded
<1>13. CASE TurnNeverOpens \/ TurnRefused \/ RefusedTurnLeaves \/
          PreStepDecides \/ StepRejected \/ NothingEnters
  BY <1>13, <1>log, EndsKeepNumbers DEF TurnNeverOpens, ThrowsBeforeOpening,
      EnteringTurn, TurnRefused, RefusedTurnLeaves, Leaves, PreStepDecides,
      StepRejected, NothingEnters
<1>14. CASE StepAborted \/ (\E e \in {"completed", "max-tokens",
          "null"} : StepReturns(e)) \/ StepThrows \/ StoppingFails \/
          FailedTurnCloses \/ TurnContinues
  BY <1>14, <1>log, EndsKeepNumbers DEF StepAborted, AbandonStep, StepReturns,
      StepThrows, StoppingFails, FailedTurnCloses, TurnContinues,
      FreshController
<1>15. CASE DriverExits \/ LatchReplays \/ MaintenanceSettles \/
          RegistryCloses
  BY <1>15, <1>log, EndsKeepNumbers DEF DriverExits, GoesIdle, LatchReplays,
      WakeDriver, StartDriver, LatchWake, MaintenanceSettles, RegistryCloses
<1>16. CASE UNCHANGED vars
  BY <1>16, <1>log DEF vars
<1>. QED BY <1>1, <1>2, <1>3, <1>4, <1>5, <1>6, <1>7, <1>8, <1>9, <1>10,
      <1>11, <1>12, <1>13, <1>14, <1>15, <1>16 DEF Next, Calls, Resumes

\* Wherever the driver stands when its signal aborts, it opens no turn, claims
\* no message and opens no step afterwards.
THEOREM AbortAlwaysStopsWork == Spec => AbortStopsWork
<1>1. TypeOK /\ [Next]_vars => [AbortStep]_vars
  BY AbortNextStep
<1>. QED BY <1>1, TypeCorrect, PTL DEF Spec, AbortStopsWork, AbortStep

=============================================================================
