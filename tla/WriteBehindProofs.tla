------------------------- MODULE WriteBehindProofs -------------------------
(***************************************************************************)
(* Proofs about WriteBehind for every set of events and callers and every  *)
(* value of the bounds.  Discipline, the invariant about who may write and *)
(* when a deadline may be armed, carries the others: with it the order of  *)
(* retention is inductive, and what a flush promises follows from that.    *)
(***************************************************************************)
EXTENDS WriteBehind, SequenceTheorems, TLAPS

\* Who owns the active write, and when the deadline is armed.
Discipline ==
    /\ writing = "no" => batch = <<>>
    /\ (barrier = "writing") <=> (writing = "barrier")
    /\ barrier = "overlapping" => writing = "background"
    /\ barrier \in Microtasks => writing = "no"
    /\ autoContinues => writing # "background"
    /\ timer => pending # <<>> /\ ~automaticPaused /\ barrier = "none"
    /\ barrier = "failing" => automaticPaused
    /\ \A c \in Caller : mark[c] <= Len(accepted)

-----------------------------------------------------------------------------
\* Typing.

LEMMA SettleType ==
    ASSUME NEW joined \in [Caller -> CallStates], NEW outcome \in CallStates
    PROVE  Settle(joined, outcome) \in [Caller -> CallStates]
BY DEF Settle

\* The state of every controller is well typed.
THEOREM TypeCorrect == Spec => []TypeOK
<1>1. Init => TypeOK
  <2>1. <<>> \in Seq(Event)
    BY EmptySeq
  <2>2. ASSUME Init PROVE call \in [Caller -> CallStates] /\ mark \in [Caller -> Nat]
    BY <2>2 DEF Init, CallStates
  <2>3. ASSUME Init PROVE failures \in Nat /\ barrier \in Stages
    BY <2>3 DEF Init, Stages
  <2>. QED BY <2>1, <2>2, <2>3, Zenon DEF Init, TypeOK
<1>2. TypeOK /\ [Next]_vars => TypeOK'
  <2>. SUFFICES ASSUME TypeOK, [Next]_vars PROVE TypeOK'
    OBVIOUS
  <2>. USE DEF TypeOK, Stages, CallStates, queueVars, writeVars, autoVars, callVars
  <2>0. <<>> \in Seq(Event)
    BY EmptySeq
  <2>1. ASSUME NEW e \in Event, Enqueue(e) PROVE TypeOK'
    BY <2>1, AppendProperties DEF Enqueue, Arms
  <2>2. ASSUME NEW c \in Caller, CancelAutomaticWait(c) PROVE TypeOK'
    BY <2>2 DEF CancelAutomaticWait
  <2>3. ASSUME NEW c \in Caller, Flush(c) PROVE TypeOK'
    <3>1. [call EXCEPT ![c] = "joined"] \in [Caller -> CallStates]
      OBVIOUS
    <3>2. Settle([call EXCEPT ![c] = "joined"], "done") \in [Caller -> CallStates]
      BY <3>1, SettleType
    <3>3. Len(accepted) \in Nat
      BY LenProperties
    <3>. HIDE DEF CallStates
    <3>. QED BY <2>0, <2>3, <3>1, <3>2, <3>3 DEF Flush, Join, DrainOrClose, StartWrite
  <2>4. CASE Deadline
    BY <2>0, <2>4 DEF Deadline, StartWrite
  <2>5. CASE ContinueAutomatic
    BY <2>0, <2>5 DEF ContinueAutomatic, StartWrite
  <2>6. CASE WriteSucceeds
    <3>1. durable \o batch \in Seq(Event)
      BY ConcatProperties
    <3>. QED BY <2>0, <2>6, <3>1 DEF WriteSucceeds, AfterWrite
  <2>7. CASE BoundedFailure
    <3>1. batch \o pending \in Seq(Event)
      BY ConcatProperties
    <3>2. pending' \in Seq(Event) /\ failures' \in Nat
      BY <2>7, <3>1 DEF BoundedFailure, WriteFails, Retained
    <3>. QED BY <2>0, <2>7, <3>2 DEF BoundedFailure, WriteFails, AfterWrite
  <2>8. CASE BarrierContinues
    <3>1. Settle(call, "done") \in [Caller -> CallStates]
      BY SettleType
    <3>. HIDE DEF CallStates
    <3>. QED BY <2>0, <2>8, <3>1 DEF BarrierContinues, DrainOrClose, StartWrite
  <2>9. CASE BarrierFails
    <3>1. Settle(call, "rejected") \in [Caller -> CallStates]
      BY SettleType
    <3>. HIDE DEF CallStates
    <3>. QED BY <2>9, <3>1 DEF BarrierFails
  <2>10. CASE UNCHANGED vars
    BY <2>10 DEF vars
  <2>. QED
    BY <2>1, <2>2, <2>3, <2>4, <2>5, <2>6, <2>7, <2>8, <2>9, <2>10 DEF Next
<1>. QED BY <1>1, <1>2, PTL DEF Spec

-----------------------------------------------------------------------------
\* The discipline of writes and deadlines.

LEMMA DisciplineStep == TypeOK /\ Discipline /\ [Next]_vars => Discipline'
<1>. SUFFICES ASSUME TypeOK, Discipline, [Next]_vars PROVE Discipline'
  OBVIOUS
<1>0. Len(accepted) \in Nat
  BY LenProperties DEF TypeOK
<1>. USE DEF TypeOK, Discipline, Stages, Microtasks, queueVars, writeVars, autoVars, callVars
<1>1. ASSUME NEW e \in Event, Enqueue(e) PROVE Discipline'
  <2>1. pending' # <<>> /\ Len(accepted') = Len(accepted) + 1
    <3>1. accepted' = Append(accepted, e) /\ pending' = Append(pending, e)
      BY <1>1 DEF Enqueue
    <3>2. accepted \in Seq(Event) /\ pending \in Seq(Event)
      OBVIOUS
    <3>. HIDE DEF TypeOK, Discipline
    <3>3. Append(pending, e) # <<>> /\ Len(Append(accepted, e)) = Len(accepted) + 1
      BY <3>2, AppendProperties
    <3>. QED BY <3>1, <3>3
  <2>2. \A c \in Caller : mark'[c] <= Len(accepted')
    BY <1>0, <1>1, <2>1 DEF Enqueue
  <2>. QED BY <1>1, <2>1, <2>2 DEF Enqueue, Arms
<1>2. ASSUME NEW c \in Caller, CancelAutomaticWait(c) PROVE Discipline'
  BY <1>2 DEF CancelAutomaticWait
<1>3. ASSUME NEW c \in Caller, Flush(c) PROVE Discipline'
  BY <1>0, <1>3 DEF Flush, Join, DrainOrClose, StartWrite
<1>4. CASE Deadline
  BY <1>4 DEF Deadline, StartWrite, Quiet
<1>5. CASE ContinueAutomatic
  BY <1>5 DEF ContinueAutomatic, StartWrite
<1>6. CASE WriteSucceeds
  BY <1>6 DEF WriteSucceeds, AfterWrite, Quiet
<1>7. CASE BoundedFailure
  BY <1>7 DEF BoundedFailure, WriteFails, AfterWrite, Quiet
<1>8. CASE BarrierContinues
  BY <1>8 DEF BarrierContinues, DrainOrClose, StartWrite
<1>9. CASE BarrierFails
  BY <1>9 DEF BarrierFails
<1>10. CASE UNCHANGED vars
  BY <1>10 DEF vars
<1>. QED
  BY <1>1, <1>2, <1>3, <1>4, <1>5, <1>6, <1>7, <1>8, <1>9, <1>10 DEF Next

\* Every reachable state keeps the discipline.
LEMMA DisciplineAlways == Spec => []Discipline
<1>1. Init => Discipline
  <2>1. Len(<<>>) = 0
    OBVIOUS
  <2>. QED BY <2>1 DEF Init, Discipline, Microtasks
<1>. QED BY <1>1, DisciplineStep, TypeCorrect, PTL DEF Spec

-----------------------------------------------------------------------------
\* Retention.

\* Queued events move into an empty batch without leaving their order.
LEMMA MovesToBatch ==
    ASSUME NEW d \in Seq(Event), NEW p \in Seq(Event)
    PROVE  d \o <<>> \o p = d \o p \o <<>>
<1>1. d \o p \in Seq(Event)
  BY ConcatProperties
<1>. QED BY <1>1, ConcatEmptySeq

\* A failed batch goes back in front of what was queued meanwhile.
LEMMA MovesBack ==
    ASSUME NEW d \in Seq(Event), NEW b \in Seq(Event), NEW p \in Seq(Event)
    PROVE  d \o b \o p = d \o <<>> \o (b \o p)
BY ConcatEmptySeq, ConcatAssociative

\* A queued event is the last of what was accepted.
LEMMA QueuesLast ==
    ASSUME NEW d \in Seq(Event), NEW b \in Seq(Event), NEW p \in Seq(Event), NEW e \in Event
    PROVE  Append(d \o b \o p, e) = d \o b \o Append(p, e)
<1>1. d \o b \in Seq(Event) /\ <<e>> \in Seq(Event)
  BY ConcatProperties
<1>2. d \o b \o p \in Seq(Event)
  BY <1>1, ConcatProperties
<1>3. Append(d \o b \o p, e) = (d \o b \o p) \o <<e>>
  BY <1>2, AppendIsConcat
<1>4. Append(p, e) = p \o <<e>>
  BY AppendIsConcat
<1>. QED BY <1>1, <1>3, <1>4, ConcatAssociative

\* No step drops, doubles or reorders an accepted event.
LEMMA RetentionStep == TypeOK /\ Discipline /\ RetainedInOrder /\ [Next]_vars => RetainedInOrder'
<1>. SUFFICES ASSUME TypeOK, Discipline, RetainedInOrder, [Next]_vars PROVE RetainedInOrder'
  OBVIOUS
<1>q. durable \in Seq(Event) /\ pending \in Seq(Event) /\ batch \in Seq(Event)
  BY DEF TypeOK
<1>t. accepted = durable \o batch \o pending
  BY DEF RetainedInOrder
<1>. USE DEF queueVars, writeVars, autoVars, callVars
<1>starts. ASSUME NEW by, writing = "no", StartWrite(by), UNCHANGED <<accepted, durable>>
           PROVE  RetainedInOrder'
  <2>1. batch = <<>>
    BY <1>starts DEF Discipline
  <2>. QED BY <1>q, <1>t, <1>starts, <2>1, MovesToBatch DEF StartWrite, RetainedInOrder
<1>same. ASSUME UNCHANGED <<accepted, durable, batch, pending>> PROVE RetainedInOrder'
  BY <1>t, <1>same DEF RetainedInOrder
<1>1. ASSUME NEW e \in Event, Enqueue(e) PROVE RetainedInOrder'
  <2>1. accepted' = Append(accepted, e) /\ pending' = Append(pending, e)
        /\ durable' = durable /\ batch' = batch
    BY <1>1 DEF Enqueue
  <2>2. Append(durable \o batch \o pending, e) = durable \o batch \o Append(pending, e)
    BY <1>q, QueuesLast, Zenon
  <2>. QED BY <1>t, <2>1, <2>2, Zenon DEF RetainedInOrder
<1>2. ASSUME NEW c \in Caller, CancelAutomaticWait(c) PROVE RetainedInOrder'
  BY <1>2, <1>same DEF CancelAutomaticWait
<1>3. ASSUME NEW c \in Caller, Flush(c) PROVE RetainedInOrder'
  BY <1>3, <1>same, <1>starts DEF Flush, Join, DrainOrClose
<1>4. CASE Deadline
  BY <1>4, <1>same, <1>starts DEF Deadline
<1>5. CASE ContinueAutomatic
  <2>1. CASE writing = "no"
    BY <1>5, <2>1, <1>same, <1>starts DEF ContinueAutomatic
  <2>2. CASE writing # "no"
    <3>1. barrier # "none"
      BY <1>5, <2>2 DEF ContinueAutomatic, Discipline, TypeOK
    <3>. QED BY <1>5, <3>1, <1>same DEF ContinueAutomatic
  <2>. QED BY <2>1, <2>2
<1>6. CASE WriteSucceeds
  <2>1. durable \o batch \in Seq(Event)
    BY <1>q, ConcatProperties
  <2>2. (durable \o batch) \o <<>> = durable \o batch
    BY <2>1, ConcatEmptySeq
  <2>. QED BY <1>6, <1>t, <2>2 DEF WriteSucceeds, RetainedInOrder
<1>7. CASE BoundedFailure
  BY <1>7, <1>q, <1>t, MovesBack DEF BoundedFailure, WriteFails, Retained, RetainedInOrder
<1>8. CASE BarrierContinues
  BY <1>8, <1>same, <1>starts DEF BarrierContinues, DrainOrClose, Discipline, Microtasks
<1>9. CASE BarrierFails
  BY <1>9, <1>same DEF BarrierFails
<1>10. CASE UNCHANGED vars
  BY <1>10, <1>same DEF vars
<1>. QED
  BY <1>1, <1>2, <1>3, <1>4, <1>5, <1>6, <1>7, <1>8, <1>9, <1>10 DEF Next

\* What the session emitted is what is durable, then the active batch, then the
\* queue, in that order, in every reachable state.
THEOREM RetainedAlways == Spec => []RetainedInOrder
<1>1. Init => RetainedInOrder
  <2>1. <<>> \in Seq(Event)
    BY EmptySeq
  <2>2. <<>> \o <<>> \o <<>> = <<>>
    BY <2>1, ConcatEmptySeq
  <2>. QED BY <2>2 DEF Init, RetainedInOrder
<1>. QED BY <1>1, RetentionStep, TypeCorrect, DisciplineAlways, PTL DEF Spec

\* Arming a deadline never loses the handle of one that is armed.
THEOREM DeadlineAlways == Spec => []OneDeadline
<1>1. Discipline => OneDeadline
  BY DEF Discipline, OneDeadline, Arms
<1>. QED BY <1>1, DisciplineAlways, PTL

-----------------------------------------------------------------------------
\* What a flush promises.

\* The durable sequence never shrinks.
LEMMA DurableGrows ==
    ASSUME TypeOK, [Next]_vars
    PROVE  Len(durable') >= Len(durable)
<1>0. durable \in Seq(Event) /\ batch \in Seq(Event) /\ Len(durable) \in Nat /\ Len(batch) \in Nat
  BY LenProperties DEF TypeOK
<1>1. CASE WriteSucceeds
  <2>1. Len(durable \o batch) = Len(durable) + Len(batch)
    BY <1>0, ConcatProperties
  <2>. QED BY <1>0, <1>1, <2>1 DEF WriteSucceeds
<1>2. CASE ~WriteSucceeds
  <2>1. durable' = durable
    BY <1>2 DEF Next, Enqueue, CancelAutomaticWait, Flush, Join, DrainOrClose, Deadline,
      ContinueAutomatic, BoundedFailure, WriteFails, BarrierContinues, BarrierFails,
      vars, queueVars, writeVars, autoVars, callVars
  <2>. QED BY <1>0, <2>1
<1>. QED BY <1>1, <1>2

\* With an empty queue and no active write everything accepted is durable.
LEMMA QuiescentIsDurable ==
    ASSUME TypeOK, Discipline, RetainedInOrder, pending = <<>>, writing = "no"
    PROVE  durable = accepted
<1>1. durable \in Seq(Event) /\ batch = <<>>
  BY DEF TypeOK, Discipline
<1>2. durable \o <<>> = durable
  BY <1>1, ConcatEmptySeq
<1>. QED BY <1>1, <1>2 DEF RetainedInOrder

\* A call is only told "done" by a step that finds everything durable.
LEMMA DoneOnlyWhenQuiescent ==
    ASSUME TypeOK, Discipline, RetainedInOrder, [Next]_vars,
           NEW c \in Caller, call'[c] = "done"
    PROVE  \/ call[c] = "done" /\ mark'[c] = mark[c]
           \/ durable' = accepted'
<1>. USE DEF queueVars, writeVars, autoVars, callVars
<1>t. call \in [Caller -> CallStates] /\ mark \in [Caller -> Nat]
  BY DEF TypeOK
<1>1. ASSUME NEW d \in Caller, Flush(d) PROVE \/ call[c] = "done" /\ mark'[c] = mark[c]
                                              \/ durable' = accepted'
  <2>1. CASE barrier = "none" /\ writing = "no" /\ pending = <<>>
    BY <1>1, <2>1, QuiescentIsDurable DEF Flush, Join
  <2>2. CASE ~(barrier = "none" /\ writing = "no" /\ pending = <<>>)
    BY <1>1, <1>t, <2>2 DEF Flush, Join, DrainOrClose
  <2>. QED BY <2>1, <2>2
<1>2. CASE BarrierContinues
  <2>1. writing = "no"
    BY <1>2 DEF BarrierContinues, Discipline, Microtasks
  <2>2. CASE pending = <<>>
    BY <1>2, <2>1, <2>2, QuiescentIsDurable DEF BarrierContinues
  <2>3. CASE pending # <<>>
    BY <1>2, <2>3 DEF BarrierContinues, DrainOrClose
  <2>. QED BY <2>2, <2>3
<1>3. CASE BarrierFails
  BY <1>3, <1>t DEF BarrierFails, Settle
<1>4. ASSUME NEW d \in Caller, CancelAutomaticWait(d) PROVE call[c] = "done" /\ mark'[c] = mark[c]
  BY <1>4, <1>t DEF CancelAutomaticWait
<1>5. ASSUME NEW e \in Event, Enqueue(e) PROVE call[c] = "done" /\ mark'[c] = mark[c]
  BY <1>5 DEF Enqueue
<1>6. CASE Deadline \/ ContinueAutomatic \/ WriteSucceeds \/ BoundedFailure \/ UNCHANGED vars
  BY <1>6 DEF Deadline, ContinueAutomatic, WriteSucceeds, BoundedFailure, WriteFails, vars
<1>. QED BY <1>1, <1>2, <1>3, <1>4, <1>5, <1>6 DEF Next

\* A flush that resolved made what was accepted before it durable.
THEOREM FlushAlwaysDurable == Spec => []FlushMeansDurable
<1>1. Init => FlushMeansDurable
  BY DEF Init, FlushMeansDurable
<1>2. /\ TypeOK /\ TypeOK' /\ Discipline /\ Discipline' /\ RetainedInOrder
      /\ FlushMeansDurable /\ [Next]_vars
      => FlushMeansDurable'
  <2>. SUFFICES ASSUME TypeOK, TypeOK', Discipline, Discipline', RetainedInOrder,
                       FlushMeansDurable, [Next]_vars,
                       NEW c \in Caller, call'[c] = "done"
                PROVE  Len(durable') >= mark'[c]
    BY DEF FlushMeansDurable
  <2>1. Len(durable') \in Nat /\ Len(durable) \in Nat /\ mark[c] \in Nat /\ mark'[c] \in Nat
    BY LenProperties DEF TypeOK
  <2>2. CASE call[c] = "done" /\ mark'[c] = mark[c]
    BY <2>1, <2>2, DurableGrows DEF FlushMeansDurable
  <2>3. CASE durable' = accepted'
    BY <2>1, <2>3 DEF Discipline
  <2>. QED BY <2>2, <2>3, DoneOnlyWhenQuiescent
<1>. QED
  BY <1>1, <1>2, TypeCorrect, DisciplineAlways, RetainedAlways, PTL DEF Spec

-----------------------------------------------------------------------------
\* A queued event has someone to write it.

LEMMA StrandingStep ==
    TypeOK /\ Discipline /\ NothingStranded /\ [Next]_vars => NothingStranded'
<1>. SUFFICES ASSUME TypeOK, Discipline, NothingStranded, [Next]_vars, pending' # <<>>
              PROVE  \/ timer' \/ automaticPaused' \/ barrier' # "none"
                     \/ (deadlineExpired' /\ (writing' # "no" \/ autoContinues'))
                     \/ \E c \in Caller : call'[c] = "waiting"
  BY DEF NothingStranded
<1>t. call \in [Caller -> CallStates] /\ timer \in BOOLEAN /\ deadlineExpired \in BOOLEAN
      /\ automaticPaused \in BOOLEAN /\ autoContinues \in BOOLEAN
  BY DEF TypeOK
<1>. USE DEF queueVars, writeVars, autoVars, callVars
<1>1. ASSUME NEW e \in Event, Enqueue(e)
      PROVE  \/ timer' \/ automaticPaused' \/ barrier' # "none"
             \/ (deadlineExpired' /\ (writing' # "no" \/ autoContinues'))
             \/ \E c \in Caller : call'[c] = "waiting"
  BY <1>1, <1>t DEF Enqueue, Arms, NothingStranded
<1>2. ASSUME NEW c \in Caller, CancelAutomaticWait(c) PROVE call'[c] = "waiting"
  BY <1>2, <1>t DEF CancelAutomaticWait
<1>3. ASSUME NEW c \in Caller, Flush(c) PROVE barrier' # "none"
  BY <1>3 DEF Flush, Join, DrainOrClose, StartWrite
<1>4. CASE Deadline
  BY <1>4, <1>t DEF Deadline, StartWrite
<1>5. CASE ContinueAutomatic
  BY <1>5, <1>t DEF ContinueAutomatic, StartWrite, NothingStranded, Discipline
<1>6. CASE WriteSucceeds
  BY <1>6, <1>t DEF WriteSucceeds, AfterWrite, NothingStranded, Discipline, TypeOK
<1>7. CASE BoundedFailure
  BY <1>7 DEF BoundedFailure, WriteFails
<1>8. CASE BarrierContinues
  BY <1>8 DEF BarrierContinues, DrainOrClose, StartWrite
<1>9. CASE BarrierFails
  BY <1>9, <1>t DEF BarrierFails, Discipline
<1>10. CASE UNCHANGED vars
  BY <1>10 DEF vars, NothingStranded
<1>. QED
  BY <1>1, <1>2, <1>3, <1>4, <1>5, <1>6, <1>7, <1>8, <1>9, <1>10 DEF Next

\* Only a failure leaves a queued event waiting for the next event or flush.
THEOREM NeverStranded == Spec => []NothingStranded
<1>1. Init => NothingStranded
  BY DEF Init, NothingStranded
<1>. QED BY <1>1, StrandingStep, TypeCorrect, DisciplineAlways, PTL DEF Spec

-----------------------------------------------------------------------------
\* Refinement.

\* A successful write makes a longer prefix of the accepted events durable.
LEMMA WriteStores ==
    ASSUME TypeOK, RetainedInOrder, WriteSucceeds
    PROVE  Sink!Store
<1>0. durable \in Seq(Event) /\ batch \in Seq(Event) /\ pending \in Seq(Event)
      /\ accepted \in Seq(Event)
  BY DEF TypeOK
<1> DEFINE stored == durable \o batch
<1>1. stored \in Seq(Event) /\ Len(stored) = Len(durable) + Len(batch)
      /\ Len(durable) \in Nat /\ Len(batch) \in Nat /\ Len(pending) \in Nat
  BY <1>0, ConcatProperties, LenProperties
<1>2. accepted = stored \o pending
  BY DEF RetainedInOrder
<1>3. Len(accepted) = Len(stored) + Len(pending)
  BY <1>0, <1>1, <1>2, ConcatProperties
<1>4. SubSeq(accepted, 1, Len(stored)) = stored
  <2>1. CASE stored = <<>>
    <3>1. Len(stored) = 0
      BY <1>1, <2>1, EmptySeq
    <3>2. SubSeq(accepted, 1, 0) = <<>>
      BY SubSeqEmpty, 0 \in Int, 1 \in Int, 0 < 1
    <3>. QED BY <2>1, <3>1, <3>2
  <2>2. CASE stored # <<>>
    <3>1. Len(stored) \in 1..Len(stored) /\ 1 \in 1..Len(stored)
      BY <1>1, <2>2, EmptySeq
    <3>2. SubSeq(stored \o pending, 1, Len(stored)) = SubSeq(stored, 1, Len(stored))
      BY <1>0, <1>1, <3>1, SubSeqOfConcat1
    <3>. QED BY <1>1, <1>2, <3>2, SubSeqFull
  <2>. QED BY <2>1, <2>2
<1>5. Len(stored) \in Len(durable)..Len(accepted)
  BY <1>1, <1>3
<1>6. durable' = stored /\ accepted' = accepted
  BY DEF WriteSucceeds, queueVars
<1>. HIDE DEF stored
<1>. QED BY <1>4, <1>5, <1>6 DEF Sink!Store

\* The controller implements the ordered, lossless sink: every step accepts one
\* event, stores a longer prefix of those accepted, or is not seen by it.
THEOREM ControllerImplementsSink == Spec => ImplementsOrderedSink
<1>1. Init => Sink!Init
  BY DEF Init, Sink!Init
<1>2. TypeOK /\ RetainedInOrder /\ [Next]_vars => [Sink!Next]_(Sink!vars)
  <2>. SUFFICES ASSUME TypeOK, RetainedInOrder, [Next]_vars PROVE [Sink!Next]_(Sink!vars)
    OBVIOUS
  <2>1. ASSUME NEW e \in Event, Enqueue(e) PROVE Sink!Accept
    BY <2>1 DEF Enqueue, Sink!Accept, writeVars
  <2>2. CASE WriteSucceeds
    BY <2>2, WriteStores DEF Sink!Next
  <2>3. CASE ~WriteSucceeds /\ ~\E e \in Event : Enqueue(e)
    BY <2>3 DEF Next, CancelAutomaticWait, Flush, Join, DrainOrClose, Deadline,
      ContinueAutomatic, BoundedFailure, WriteFails, BarrierContinues, BarrierFails,
      vars, queueVars, writeVars, autoVars, callVars, Sink!vars
  <2>. QED BY <2>1, <2>2, <2>3 DEF Sink!Next
<1>. QED BY <1>1, <1>2, TypeCorrect, RetainedAlways, PTL DEF Spec, ImplementsOrderedSink, Sink!Spec
=============================================================================
