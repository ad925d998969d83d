----------------------- MODULE AgentDriverInboxProofs -----------------------
(***************************************************************************)
(* Proofs about the inbox of AgentDriver: where every message is, which    *)
(* prompts a turn takes, and what its closing reason says of them.  They   *)
(* rest on the type and owner invariants of AgentDriverProofs.             *)
(***************************************************************************)
EXTENDS AgentDriverProofs

-----------------------------------------------------------------------------
(* The inductive invariant, in named parts *)

\* The pending messages are those of the two lists, which are disjoint and hold
\* nothing twice.
PendingInLists == \A m \in Msgs : fate[m] = "pending" <=> m \in QueuedTurns \cup nextStep
ListsApart == QueuedTurns \cap nextStep = {}
NoneTwice == \A i, j \in DOMAIN nextTurn : nextTurn[i] = nextTurn[j] => i = j
Lists == PendingInLists /\ ListsApart /\ NoneTwice

\* The claimed messages are those of the proposal, which exists from its claim
\* to its entry and is empty once its decision lets nothing enter.
ClaimedInProposal == \A m \in Msgs : fate[m] = "claimed" <=> m \in proposal
ProposalHeld == proposal # {} => pc \in {"proposed", "decided"}
NothingLeft == decision \in {"reject", "empty"} => proposal = {}
Claims == ClaimedInProposal /\ ProposalHeld /\ NothingLeft

Account == Lists /\ Claims

-----------------------------------------------------------------------------
(* Lemmas on the queue of turns *)

\* Appending a message adds it to the queued ones.
LEMMA AppendQueues ==
    ASSUME NEW m \in Msgs, nextTurn \in Seq(Msgs), nextTurn' = Append(nextTurn, m)
    PROVE  /\ QueuedTurns' = QueuedTurns \cup {m}
           /\ NoneTwice /\ m \notin QueuedTurns => NoneTwice'
<1>1. /\ Len(nextTurn) \in Nat /\ DOMAIN nextTurn = 1..Len(nextTurn)
      /\ DOMAIN nextTurn' = 1..(Len(nextTurn) + 1)
      /\ \A i \in 1..Len(nextTurn) : nextTurn'[i] = nextTurn[i]
      /\ nextTurn'[Len(nextTurn) + 1] = m
  BY AppendProperties, LenProperties
<1>2. DOMAIN nextTurn' = DOMAIN nextTurn \cup {Len(nextTurn) + 1}
  BY <1>1
<1>3. QueuedTurns' = QueuedTurns \cup {m}
  BY <1>1, <1>2 DEF QueuedTurns
<1>4. ASSUME NoneTwice, m \notin QueuedTurns PROVE NoneTwice'
  <2>1. \A i \in DOMAIN nextTurn : nextTurn[i] # m
    BY <1>4 DEF QueuedTurns
  <2>. QED BY <1>1, <1>2, <1>4, <2>1 DEF NoneTwice
<1>. QED BY <1>3, <1>4

\* Removing the only entry of a message leaves the other messages queued.
LEMMA RemoveQueues ==
    ASSUME nextTurn \in Seq(Msgs), NoneTwice, NEW i \in DOMAIN nextTurn,
           nextTurn' = WithoutIndex(nextTurn, i)
    PROVE  QueuedTurns' = QueuedTurns \ {nextTurn[i]} /\ NoneTwice'
<1>. DEFINE n == Len(nextTurn)
            from(j) == IF j < i THEN j ELSE j + 1
<1>1. n \in Nat /\ DOMAIN nextTurn = 1..n /\ i \in 1..n
  BY LenProperties
<1>2. DOMAIN nextTurn' = 1..(n - 1) /\ \A j \in 1..(n - 1) : nextTurn'[j] = nextTurn[from(j)]
  BY DEF WithoutIndex
<1>. HIDE DEF n
<1>3. \A j \in 1..(n - 1) : from(j) \in (1..n) \ {i}
  BY <1>1
<1>4. ASSUME NEW k \in (1..n) \ {i} PROVE \E j \in 1..(n - 1) : from(j) = k
  <2>1. CASE k < i
    BY <1>1, <1>4, <2>1
  <2>2. CASE k > i
    <3>1. k - 1 \in 1..(n - 1) /\ from(k - 1) = k
      BY <1>1, <1>4, <2>2
    <3>. QED BY <3>1
  <2>. QED BY <1>1, <1>4, <2>1, <2>2
<1>5. \A j, k \in 1..(n - 1) : from(j) = from(k) => j = k
  BY <1>1
<1>. HIDE DEF from
<1>6. QueuedTurns' \subseteq QueuedTurns \ {nextTurn[i]}
  <2>1. ASSUME NEW j \in 1..(n - 1) PROVE nextTurn'[j] \in QueuedTurns \ {nextTurn[i]}
    BY <1>1, <1>2, <1>3, <2>1 DEF NoneTwice, QueuedTurns
  <2>. QED BY <1>2, <2>1 DEF QueuedTurns
<1>7. QueuedTurns \ {nextTurn[i]} \subseteq QueuedTurns'
  <2>1. ASSUME NEW k \in (1..n) \ {i} PROVE nextTurn[k] \in QueuedTurns'
    BY <1>2, <1>4, <2>1 DEF QueuedTurns
  <2>. QED BY <1>1, <2>1 DEF QueuedTurns
<1>8. NoneTwice'
  BY <1>1, <1>2, <1>3, <1>5 DEF NoneTwice
<1>. QED BY <1>6, <1>7, <1>8

\* Claiming the first queued turn takes it, and only it, from the queue.
LEMMA TailQueues ==
    ASSUME nextTurn \in Seq(Msgs), NoneTwice, nextTurn # <<>>, nextTurn' = Tail(nextTurn)
    PROVE  /\ QueuedTurns' = QueuedTurns \ {Head(nextTurn)} /\ NoneTwice'
           /\ Head(nextTurn) \in QueuedTurns
<1>. DEFINE n == Len(nextTurn)
<1>1. n \in Nat \ {0} /\ DOMAIN nextTurn = 1..n
  BY EmptySeq, LenProperties
<1>2. /\ DOMAIN nextTurn' = 1..(n - 1) /\ Head(nextTurn) = nextTurn[1]
      /\ \A j \in 1..(n - 1) : nextTurn'[j] = nextTurn[j + 1]
  BY <1>1, HeadTailProperties, LenProperties
<1>. HIDE DEF n
<1>3. \A j \in 1..(n - 1) : j + 1 \in 2..n
  BY <1>1
<1>4. QueuedTurns' \subseteq QueuedTurns \ {nextTurn[1]}
  <2>1. ASSUME NEW j \in 1..(n - 1) PROVE nextTurn'[j] \in QueuedTurns \ {nextTurn[1]}
    BY <1>1, <1>2, <1>3, <2>1 DEF NoneTwice, QueuedTurns
  <2>. QED BY <1>2, <2>1 DEF QueuedTurns
<1>5. QueuedTurns \ {nextTurn[1]} \subseteq QueuedTurns'
  <2>1. ASSUME NEW k \in 2..n PROVE nextTurn[k] \in QueuedTurns'
    <3>1. k - 1 \in 1..(n - 1) /\ (k - 1) + 1 = k
      BY <1>1, <2>1
    <3>. QED BY <1>2, <3>1 DEF QueuedTurns
  <2>2. 1..n = {1} \cup (2..n)
    BY <1>1
  <2>. QED BY <1>1, <2>1, <2>2 DEF QueuedTurns
<1>6. NoneTwice'
  BY <1>1, <1>2, <1>3 DEF NoneTwice
<1>7. nextTurn[1] \in QueuedTurns
  BY <1>1 DEF QueuedTurns
<1>. QED BY <1>2, <1>4, <1>5, <1>6, <1>7

-----------------------------------------------------------------------------
(* Lemmas on what becomes of messages *)

\* Settling exactly the messages that leave the lists keeps the pending ones there.
LEMMA SettlePending ==
    ASSUME PendingInLists, NEW gone, NEW outcome, outcome # "pending",
           fate' = Settle(gone, outcome),
           QueuedTurns' \cup nextStep' = (QueuedTurns \cup nextStep) \ gone
    PROVE  PendingInLists'
BY DEF PendingInLists, Settle

\* Settling pending messages otherwise than by a claim leaves the claimed ones claimed.
LEMMA SettleClaimed ==
    ASSUME ClaimedInProposal, NEW gone, NEW outcome, outcome # "claimed",
           fate' = Settle(gone, outcome), proposal' = proposal \ gone
    PROVE  ClaimedInProposal'
BY DEF ClaimedInProposal, Settle

\* A message is not both queued and claimed.
LEMMA ClaimedNotQueued ==
    ASSUME Account, InboxTypeOK
    PROVE  /\ proposal \cap (QueuedTurns \cup nextStep) = {}
           /\ QueuedTurns \subseteq Msgs /\ nextStep \subseteq Msgs /\ proposal \subseteq Msgs
<1>1. QueuedTurns \subseteq Msgs
  BY ElementOfSeq, LenProperties DEF InboxTypeOK, QueuedTurns
<1>. QED BY <1>1 DEF Account, Lists, Claims, PendingInLists, ClaimedInProposal, InboxTypeOK

\* Steps that touch neither the inbox nor the fates keep the lists as they are.
LEMMA ListsKept == Lists /\ UNCHANGED inbox => Lists'
BY DEF Lists, PendingInLists, ListsApart, NoneTwice, QueuedTurns, inbox

\* Steps that change fates only of messages that are not pending, and to fates
\* that are not pending, keep the lists in order.
LEMMA ListsUntouched ==
    ASSUME Lists, UNCHANGED <<nextTurn, nextStep>>, NEW gone, NEW outcome, outcome # "pending",
           fate' = Settle(gone, outcome), gone \cap (QueuedTurns \cup nextStep) = {}
    PROVE  Lists'
<1>1. QueuedTurns' = QueuedTurns /\ nextStep' = nextStep
  BY DEF QueuedTurns
<1>2. PendingInLists'
  BY <1>1, SettlePending DEF Lists
<1>. QED BY <1>1, <1>2 DEF Lists, ListsApart, NoneTwice

\* A driver that is at neither end of a proposal moves on, with the inbox as it was.
LEMMA MovesOn ==
    ASSUME Account, UNCHANGED <<inbox, proposal, decision>>,
           pc' = pc \/ pc \notin {"proposed", "decided"}
    PROVE  Account'
<1>1. Lists'
  BY ListsKept DEF Account
<1>2. Claims'
  BY DEF Account, Claims, ClaimedInProposal, ProposalHeld, NothingLeft, inbox
<1>. QED BY <1>1, <1>2 DEF Account

\* A turn ends or fails with nothing left of its proposal.
LEMMA NothingClaimed ==
    ASSUME Account, UNCHANGED inbox, proposal = {}, proposal' = {}, decision' = "none"
    PROVE  Account'
<1>1. Lists'
  BY ListsKept DEF Account
<1>2. Claims'
  BY DEF Account, Claims, ClaimedInProposal, ProposalHeld, NothingLeft, inbox
<1>. QED BY <1>1, <1>2 DEF Account

\* The whole proposal leaves: its messages are dropped or entered.
LEMMA ProposalLeaves ==
    ASSUME Account, InboxTypeOK, NEW outcome \in {"dropped", "entered"}, fate' = Settle(proposal, outcome),
           UNCHANGED <<nextTurn, nextStep>>, proposal' = {}, decision' = "none"
    PROVE  Account'
<1>1. Lists'
  BY ListsUntouched, ClaimedNotQueued DEF Account
<1>2. ClaimedInProposal'
  BY SettleClaimed DEF Account, Claims
<1>. QED BY <1>1, <1>2 DEF Account, Claims, ProposalHeld, NothingLeft

\* A claim moves the batch from the lists into an empty proposal.
LEMMA ClaimAccount ==
    ASSUME Account, InboxTypeOK, proposal = {}, NEW target, Claim(target)
    PROVE  Account'
<1>. DEFINE head == IF target = "next-turn" THEN FirstQueued ELSE {}
<1>1. TakeBatch(head)
  BY DEF Claim
<1>2. /\ QueuedTurns' = QueuedTurns \ head /\ NoneTwice' /\ head \subseteq QueuedTurns
      /\ nextStep' = {} /\ proposal' = nextStep \cup head
      /\ fate' = Settle(nextStep \cup head, "claimed")
      /\ pc' = "proposed" /\ decision' = "none"
  <2>1. CASE head = {}
    BY <1>1, <2>1 DEF TakeBatch, QueuedTurns, Account, Lists, NoneTwice
  <2>2. CASE head # {}
    <3>1. nextTurn # <<>> /\ head = {Head(nextTurn)}
      BY <2>2 DEF FirstQueued
    <3>2. nextTurn' = Tail(nextTurn)
      BY <1>1, <2>2 DEF TakeBatch
    <3>. HIDE DEF head
    <3>3. QueuedTurns' = QueuedTurns \ head /\ NoneTwice' /\ head \subseteq QueuedTurns
      BY <3>1, <3>2, TailQueues DEF InboxTypeOK, Account, Lists
    <3>. QED BY <1>1, <3>3 DEF TakeBatch
  <2>. QED BY <2>1, <2>2
<1>. HIDE DEF head
<1>3. Lists'
  <2>1. QueuedTurns' \cup nextStep' = (QueuedTurns \cup nextStep) \ (nextStep \cup head)
    BY <1>2 DEF Account, Lists, ListsApart
  <2>2. PendingInLists'
    BY <1>2, <2>1, SettlePending DEF Account, Lists
  <2>. QED BY <1>2, <2>2 DEF Lists, ListsApart
<1>4. ClaimedInProposal'
  BY <1>2 DEF Account, Claims, ClaimedInProposal, Settle
<1>. QED BY <1>2, <1>3, <1>4 DEF Account, Claims, ProposalHeld, NothingLeft

\* Clearing a list discards what was pending in it.
LEMMA ClearAccount ==
    ASSUME Account, InboxTypeOK, UNCHANGED <<pc, local>>, NEW cause, NEW rest,
           ClearSteps(cause, rest) \/ ClearTurns(cause, rest) \/ NothingToClear(cause, rest)
    PROVE  Account'
<1>1. CASE ClearSteps(cause, rest)
  <2>1. /\ QueuedTurns' = QueuedTurns /\ nextStep' = {} /\ nextTurn' = nextTurn
        /\ fate' = Settle(nextStep, "discarded")
    BY <1>1 DEF ClearSteps, QueuedTurns
  <2>2. PendingInLists'
    BY <2>1, SettlePending DEF Account, Lists, ListsApart
  <2>3. ClaimedInProposal'
    BY <2>1, SettleClaimed, ClaimedNotQueued DEF Account, Claims, local
  <2>. QED BY <2>1, <2>2, <2>3 DEF Account, Lists, ListsApart, NoneTwice, Claims, ProposalHeld,
      NothingLeft, local
<1>2. CASE ClearTurns(cause, rest)
  <2>1. QueuedTurns' = {} /\ nextTurn' = <<>> /\ nextStep' = nextStep /\ fate' = Settle(QueuedTurns, "discarded")
    BY <1>2 DEF ClearTurns, QueuedTurns
  <2>2. PendingInLists'
    BY <2>1, SettlePending DEF Account, Lists, ListsApart
  <2>3. ClaimedInProposal'
    BY <2>1, SettleClaimed, ClaimedNotQueued DEF Account, Claims, local
  <2>. QED BY <2>1, <2>2, <2>3 DEF Account, Lists, ListsApart, NoneTwice, Claims, ProposalHeld,
      NothingLeft, local
<1>3. CASE NothingToClear(cause, rest)
  BY <1>3, MovesOn DEF NothingToClear, local
<1>. QED BY <1>1, <1>2, <1>3

\* A message sent for the first time joins one list.
LEMMA SendAccount ==
    ASSUME Account, InboxTypeOK, NEW m \in Msgs, NEW t \in Targets, NEW w \in BOOLEAN, Send(m, t, w)
    PROVE  Account'
<1>1. fate[m] = "unsent" /\ fate' = [fate EXCEPT ![m] = "pending"] /\ UNCHANGED <<pc, local>>
  BY DEF Send
<1>2. m \notin QueuedTurns /\ m \notin nextStep /\ m \notin proposal
  BY <1>1 DEF Account, Lists, Claims, PendingInLists, ClaimedInProposal
<1>3. \/ nextTurn' = Append(nextTurn, m) /\ nextStep' = nextStep
      \/ nextTurn' = nextTurn /\ nextStep' = nextStep \cup {m}
  BY DEF Send, Targets
<1>4. Lists'
  <2>1. QueuedTurns' \cup nextStep' = QueuedTurns \cup nextStep \cup {m} /\ ListsApart' /\ NoneTwice'
    <3>1. CASE nextTurn' = Append(nextTurn, m) /\ nextStep' = nextStep
      BY <1>2, <3>1, AppendQueues DEF Account, Lists, ListsApart, InboxTypeOK
    <3>2. CASE nextTurn' = nextTurn /\ nextStep' = nextStep \cup {m}
      BY <1>2, <3>2 DEF Account, Lists, ListsApart, NoneTwice, QueuedTurns
    <3>. QED BY <1>3, <3>1, <3>2
  <2>2. PendingInLists'
    BY <1>1, <2>1 DEF Account, Lists, PendingInLists, InboxTypeOK
  <2>. QED BY <2>1, <2>2 DEF Lists
<1>5. ClaimedInProposal'
  BY <1>1, <1>2 DEF Account, Claims, ClaimedInProposal, InboxTypeOK, local
<1>. QED BY <1>1, <1>4, <1>5 DEF Account, Claims, ProposalHeld, NothingLeft, local

\* A message removed from its list is pending nowhere.
LEMMA RemoveAccount ==
    ASSUME Account, InboxTypeOK, NEW m \in Msgs, Remove(m)
    PROVE  Account'
<1>1. fate' = [fate EXCEPT ![m] = "discarded"] /\ UNCHANGED <<pc, local>>
  BY DEF Remove
<1>2. /\ m \in QueuedTurns \cup nextStep
      /\ QueuedTurns' \cup nextStep' = (QueuedTurns \cup nextStep) \ {m}
      /\ ListsApart' /\ NoneTwice'
  <2>1. CASE \E i \in DOMAIN nextTurn : nextTurn[i] = m /\ nextTurn' = WithoutIndex(nextTurn, i) /\ nextStep' = nextStep
    <3>1. QueuedTurns' = QueuedTurns \ {m} /\ NoneTwice' /\ m \in QueuedTurns
      BY <2>1, RemoveQueues DEF Account, Lists, InboxTypeOK, QueuedTurns
    <3>. QED BY <2>1, <3>1 DEF Account, Lists, ListsApart
  <2>2. CASE m \in nextStep /\ nextStep' = nextStep \ {m} /\ UNCHANGED nextTurn
    BY <2>2 DEF Account, Lists, ListsApart, NoneTwice, QueuedTurns
  <2>. QED BY <2>1, <2>2 DEF Remove
<1>3. PendingInLists'
  BY <1>1, <1>2 DEF Account, Lists, PendingInLists, InboxTypeOK
<1>4. m \notin proposal
  BY <1>2, ClaimedNotQueued
<1>5. ClaimedInProposal'
  BY <1>1, <1>4 DEF Account, Claims, ClaimedInProposal, InboxTypeOK, local
<1>. QED BY <1>1, <1>2, <1>3, <1>5 DEF Account, Lists, Claims, ProposalHeld, NothingLeft, local

-----------------------------------------------------------------------------
(* The inbox account *)

\* Every step keeps the account of the inbox.
LEMMA AccountStep == TypeOK /\ PhaseHasOneOwner /\ Account /\ [Next]_vars => Account'
<1>. SUFFICES ASSUME TypeOK, PhaseHasOneOwner, Account, [Next]_vars PROVE Account'
  OBVIOUS
<1>typ. InboxTypeOK
  BY DEF TypeOK
<1>emp. /\ pc \notin {"proposed", "decided"} => proposal = {}
        /\ decision \in {"reject", "empty"} => proposal = {}
  BY DEF Account, Claims, ProposalHeld, NothingLeft
<1>own. phase = "idle" \/ job => pc = "off"
  BY DEF PhaseHasOneOwner
<1>1. ASSUME NEW m \in Msgs, NEW t \in Targets, NEW w \in BOOLEAN, Send(m, t, w) PROVE Account'
  BY <1>1, <1>typ, SendAccount
<1>2. ASSUME NEW m \in Msgs, Remove(m) PROVE Account'
  BY <1>2, <1>typ, RemoveAccount
<1>3. ASSUME NEW c \in Causes, Cancel(c) PROVE Account'
  BY <1>3, <1>typ, ClearAccount DEF Cancel
<1>4. ASSUME CancelClearsTurns PROVE Account'
  BY <1>4, <1>typ, ClearAccount DEF CancelClearsTurns
<1>5. ASSUME FirstClaim PROVE Account'
  BY <1>5, <1>typ, <1>emp, ClaimAccount, NothingClaimed DEF FirstClaim, EndTurn
<1>6. ASSUME ProposalFails PROVE Account'
  BY <1>6, <1>typ, ProposalLeaves DEF ProposalFails, EndTurn, FailTurn
<1>7. ASSUME PreStepDecides PROVE Account'
  <2>1. /\ UNCHANGED <<nextTurn, nextStep>> /\ pc' = "decided" /\ proposal' \subseteq proposal
        /\ decision' \in {"reject", "empty"} => proposal' = {}
    BY <1>7 DEF PreStepDecides
  <2>2. PICK outcome \in {"dropped", "rewritten"} : fate' = Settle(proposal \ proposal', outcome)
    BY <1>7 DEF PreStepDecides
  <2>3. Lists'
    BY <1>typ, <2>1, <2>2, ListsUntouched, ClaimedNotQueued DEF Account
  <2>4. proposal' = proposal \ (proposal \ proposal')
    BY <2>1
  <2>5. ClaimedInProposal'
    BY <2>2, <2>4, SettleClaimed DEF Account, Claims
  <2>. QED BY <2>1, <2>3, <2>5 DEF Account, Claims, ProposalHeld, NothingLeft
<1>8. ASSUME StepRejected \/ NothingEnters PROVE Account'
  BY <1>8, <1>emp, NothingClaimed DEF StepRejected, NothingEnters, EndTurn, BreakTurn
<1>9. ASSUME StepAborted PROVE Account'
  BY <1>9, <1>typ, ProposalLeaves DEF StepAborted, AbandonStep, EndTurn
<1>10. ASSUME StepOpens PROVE Account'
  BY <1>10, <1>typ, ProposalLeaves DEF StepOpens, EnterStep
<1>11. ASSUME BrokenStepLeaves \/ StoppingFails \/ FailedTurnCloses PROVE Account'
  BY <1>11, <1>emp, NothingClaimed DEF BrokenStepLeaves, StoppingFails, FailedTurnCloses,
      EndTurn, FailTurn
<1>12. ASSUME StepCloses PROVE Account'
  <2>1. pc = "stepped"
    BY <1>12 DEF StepCloses
  <2>2. CASE EndTurn("aborted") /\ UNCHANGED inbox
    BY <2>1, <2>2, <1>emp, NothingClaimed DEF EndTurn
  <2>3. CASE UNCHANGED <<inbox, local>>
    BY <2>1, <2>3, MovesOn DEF local
  <2>4. CASE Claim("next-step")
    BY <2>1, <2>4, <1>typ, <1>emp, ClaimAccount
  <2>. QED BY <1>12, <2>2, <2>3, <2>4 DEF StepCloses
<1>13. ASSUME TurnStops PROVE Account'
  <2>1. pc = "stopping"
    BY <1>13 DEF TurnStops
  <2>2. CASE (EndTurn("aborted") \/ BreakTurn(ending)) /\ UNCHANGED inbox
    BY <2>1, <2>2, <1>emp, NothingClaimed DEF EndTurn, BreakTurn
  <2>3. CASE Claim("next-step")
    BY <2>1, <2>3, <1>typ, <1>emp, ClaimAccount
  <2>. QED BY <1>13, <2>2, <2>3 DEF TurnStops, StopsOrGoesOn
<1>14. ASSUME CrashAndResume PROVE Account'
  <2>1. /\ UNCHANGED <<nextTurn, nextStep>> /\ proposal' = {} /\ decision' = "none"
        /\ fate' = [m \in Msgs |-> IF fate[m] = "claimed" THEN "dropped" ELSE fate[m]]
    BY <1>14 DEF CrashAndResume
  <2>. QED BY <2>1 DEF Account, Lists, Claims, PendingInLists, ListsApart, NoneTwice, QueuedTurns,
      ClaimedInProposal, ProposalHeld, NothingLeft
<1>15. CASE SendWakes
  BY <1>15, <1>own, MovesOn DEF SendWakes, WakeDriver, StartDriver, LatchWake, local
<1>16. CASE LatchReplays
  BY <1>16, <1>own, MovesOn DEF LatchReplays, WakeDriver, StartDriver, LatchWake, local
<1>17. CASE MaintenanceSettles
  BY <1>17, <1>own, MovesOn DEF MaintenanceSettles, local
<1>18. CASE \/ (\E c \in Causes : CancelKeepingInbox(c)) \/ RunMaintenance \/ CancelAborts
            \/ DriverStranded \/ TurnNeverOpens \/ TurnRefused \/ RefusedTurnLeaves
  BY <1>18, MovesOn DEF CancelKeepingInbox, RunMaintenance, CancelAborts, DriverStranded,
      TurnNeverOpens, ThrowsBeforeOpening, EnteringTurn, TurnRefused, RefusedTurnLeaves, local
<1>19. CASE TurnOpens
  BY <1>19, MovesOn DEF TurnOpens, EnteringTurn
<1>20. CASE (\E e \in {"completed", "max-tokens", "null"} : StepReturns(e)) \/ StepThrows
  BY <1>20, MovesOn DEF StepReturns, StepThrows, local
<1>21. CASE TurnContinues \/ DriverExits \/ RegistryCloses
  BY <1>21, MovesOn DEF TurnContinues, DriverExits, GoesIdle, RegistryCloses, local
<1>22. CASE UNCHANGED vars
  BY <1>22, MovesOn DEF vars, local
<1>. QED BY <1>1, <1>2, <1>3, <1>4, <1>5, <1>6, <1>7, <1>8, <1>9, <1>10, <1>11, <1>12, <1>13,
      <1>14, <1>15, <1>16, <1>17, <1>18, <1>19, <1>20, <1>21, <1>22 DEF Next, Calls, Resumes

\* The account holds in every reachable state.
THEOREM AccountAlways == Spec => []Account
<1>1. Init => Account
  BY DEF Init, Account, Lists, PendingInLists, ListsApart, NoneTwice, QueuedTurns,
      Claims, ClaimedInProposal, ProposalHeld, NothingLeft
<1>. QED BY <1>1, TypeCorrect, OwnerAlways, AccountStep, PTL DEF Spec

\* A queue without repetition holds as many messages as entries.
LEMMA QueueSize ==
    ASSUME nextTurn \in Seq(Msgs), NoneTwice
    PROVE  Cardinality(QueuedTurns) = Len(nextTurn)
<1>1. Len(nextTurn) \in Nat /\ DOMAIN nextTurn = 1..Len(nextTurn)
  BY LenProperties
<1>2. IsFiniteSet(1..Len(nextTurn)) /\ Cardinality(1..Len(nextTurn)) = Len(nextTurn)
  BY <1>1, FS_Interval
<1>3. [i \in 1..Len(nextTurn) |-> nextTurn[i]] \in Bijection(1..Len(nextTurn), QueuedTurns)
  BY <1>1 DEF NoneTwice, QueuedTurns, Bijection, Injection, Surjection, IsInjective
<1>4. ExistsBijection(1..Len(nextTurn), QueuedTurns)
  BY <1>3 DEF ExistsBijection
<1>. QED BY <1>2, <1>4, FS_Bijection

\* Wherever callers, listeners and crashes interleave with the driver's claims,
\* a message is pending in one list, once, or claimed by the open proposal, or
\* gone for good.
THEOREM InboxAlwaysAccounted == Spec => []InboxAccount
<1>1. TypeOK /\ Account => InboxAccount
  BY QueueSize DEF TypeOK, InboxTypeOK, Account, Lists, PendingInLists, ListsApart,
      Claims, ClaimedInProposal, ProposalHeld, InboxAccount
<1>. QED BY <1>1, TypeCorrect, AccountAlways, PTL

-----------------------------------------------------------------------------
(* One follow-up a turn *)

\* The follow-ups of the turn that is open or was last open; its first claim is
\* the only one that may take one.
OneFollowup == log.followups <= (IF pc = "opened" THEN 0 ELSE 1)

\* A claim takes at most one follow-up, and only for a turn's first proposal.
LEMMA ClaimTakesOne ==
    ASSUME TypeOK, NEW target, Claim(target)
    PROVE  /\ log'.followups <= log.followups + 1
           /\ target # "next-turn" => log'.followups = log.followups
           /\ log.followups \in Nat /\ pc' = "proposed"
<1>. DEFINE head == IF target = "next-turn" THEN FirstQueued ELSE {}
<1>1. TakeBatch(head)
  BY DEF Claim
<1>2. log \in Boundaries /\ log.followups \in Nat
  BY DEF TypeOK, Boundaries
<1>3. Cardinality(head) \in {0, 1} /\ (target # "next-turn" => Cardinality(head) = 0)
  BY FS_EmptySet, FS_Singleton DEF FirstQueued
<1>. HIDE DEF head
<1>4. log'.followups = log.followups + Cardinality(head) /\ pc' = "proposed"
  BY <1>1, <1>2 DEF TakeBatch, Boundaries
<1>. QED BY <1>2, <1>3, <1>4

\* Every step keeps the count of follow-ups of a turn.
LEMMA FollowupStep == TypeOK /\ PhaseHasOneOwner /\ OneFollowup /\ [Next]_vars => OneFollowup'
<1>. SUFFICES ASSUME TypeOK, PhaseHasOneOwner, OneFollowup, [Next]_vars PROVE OneFollowup'
  OBVIOUS
<1>typ. log \in Boundaries /\ log.followups \in Nat
  BY DEF TypeOK, Boundaries
<1>own. phase = "idle" \/ job => pc = "off"
  BY DEF PhaseHasOneOwner
<1>0. ASSUME log'.followups = log.followups, pc' = pc \/ pc' # "opened" PROVE OneFollowup'
  BY <1>0, <1>typ DEF OneFollowup
<1>1. ASSUME NEW reason, log' = LogTurnEnd(reason) PROVE log'.followups = log.followups
  BY <1>1, <1>typ DEF LogTurnEnd, Boundaries
<1>2. ASSUME log' = LogStepEnd \/ \E n : log' = LogStepStart(n) PROVE log'.followups = log.followups
  BY <1>2, <1>typ DEF LogStepEnd, LogStepStart, Boundaries
<1>3. ASSUME Claim("next-step") PROVE OneFollowup'
  BY <1>0, <1>3, ClaimTakesOne
<1>4. ASSUME TurnOpens PROVE OneFollowup'
  <2>1. log'.followups = 0
    BY <1>4, <1>typ DEF TurnOpens, LogTurnStart, Boundaries
  <2>. QED BY <2>1 DEF OneFollowup
<1>5. ASSUME FirstClaim PROVE OneFollowup'
  <2>1. CASE Claim("next-turn")
    <3>1. log.followups <= 0
      BY <1>5 DEF FirstClaim, OneFollowup
    <3>2. log'.followups \in Nat
      BY LogTypeStep, <2>1 DEF Boundaries
    <3>. QED BY <2>1, <3>1, <3>2, ClaimTakesOne DEF OneFollowup
  <2>2. CASE EndTurn("aborted")
    BY <2>2, <1>0, <1>1 DEF EndTurn
  <2>. QED BY <1>5, <2>1, <2>2 DEF FirstClaim
<1>6. ASSUME StepCloses PROVE OneFollowup'
  BY <1>6, <1>0, <1>1, <1>3 DEF StepCloses, EndTurn, local
<1>7. ASSUME TurnStops PROVE OneFollowup'
  BY <1>7, <1>0, <1>1, <1>3 DEF TurnStops, StopsOrGoesOn, EndTurn, BreakTurn
<1>8. ASSUME CrashAndResume PROVE OneFollowup'
  <2>1. log'.followups = log.followups /\ pc' = "off"
    BY <1>8, <1>typ DEF CrashAndResume, Boundaries
  <2>. QED BY <2>1, <1>0
<1>9. CASE ProposalFails \/ StepRejected \/ NothingEnters \/ StepAborted \/ BrokenStepLeaves
           \/ FailedTurnCloses \/ StoppingFails
  BY <1>9, <1>0, <1>1 DEF ProposalFails, StepRejected, NothingEnters, StepAborted, AbandonStep,
      BrokenStepLeaves, FailedTurnCloses, StoppingFails, EndTurn, BreakTurn, FailTurn
<1>10. CASE StepOpens \/ (\E e \in {"completed", "max-tokens", "null"} : StepReturns(e)) \/ StepThrows
  BY <1>10, <1>0, <1>2 DEF StepOpens, EnterStep, StepReturns, StepThrows
<1>11. CASE SendWakes \/ LatchReplays \/ MaintenanceSettles
  BY <1>11, <1>0 DEF SendWakes, LatchReplays, WakeDriver, StartDriver, LatchWake, MaintenanceSettles
<1>12. CASE \/ (\E m \in Msgs, t \in Targets, w \in BOOLEAN : Send(m, t, w)) \/ (\E m \in Msgs : Remove(m))
            \/ (\E c \in Causes : Cancel(c)) \/ (\E c \in Causes : CancelKeepingInbox(c)) \/ RunMaintenance
            \/ CancelClearsTurns \/ CancelAborts \/ DriverStranded \/ TurnNeverOpens \/ TurnRefused
  BY <1>12, <1>0 DEF Send, Remove, Cancel, CancelKeepingInbox, RunMaintenance, CancelClearsTurns,
      CancelAborts, DriverStranded, TurnNeverOpens, ThrowsBeforeOpening, TurnRefused
<1>13. CASE RefusedTurnLeaves \/ PreStepDecides \/ TurnContinues \/ DriverExits \/ RegistryCloses
            \/ UNCHANGED vars
  BY <1>13, <1>0 DEF RefusedTurnLeaves, Leaves, PreStepDecides, TurnContinues, DriverExits, GoesIdle,
      RegistryCloses, vars
<1>. QED BY <1>4, <1>5, <1>6, <1>7, <1>8, <1>9, <1>10, <1>11, <1>12, <1>13 DEF Next, Calls, Resumes

\* However many proposals and late messages a turn goes through, it takes at most
\* one queued follow-up.
THEOREM FollowupAlwaysOwnsTurn == Spec => []FollowupOwnsTurn
<1>1. Init => OneFollowup
  BY DEF Init, NoTurns, OneFollowup
<1>2. TypeOK /\ OneFollowup => FollowupOwnsTurn
  BY DEF TypeOK, Boundaries, OneFollowup, FollowupOwnsTurn
<1>. QED BY <1>1, <1>2, TypeCorrect, OwnerAlways, FollowupStep, PTL DEF Spec

-----------------------------------------------------------------------------
(* The reason a turn closes with *)

\* Until it fails, an open turn has no ending or one its steps returned.
EndsSoFar == pc \in InTurnPcs \ {"failed"} => ending \in {"null", "completed", "max-tokens"}

\* Every step keeps the endings of open turns.
LEMMA EndsStep == PhaseHasOneOwner /\ EndsSoFar /\ [Next]_vars => EndsSoFar'
<1>. SUFFICES ASSUME PhaseHasOneOwner, EndsSoFar, [Next]_vars PROVE EndsSoFar'
  OBVIOUS
<1>own. phase = "idle" \/ job => pc = "off"
  BY DEF PhaseHasOneOwner
<1>. USE DEF EndsSoFar, InTurnPcs
<1>1. ASSUME pc' \notin InTurnPcs \ {"failed"} PROVE EndsSoFar'
  BY <1>1
<1>2. ASSUME UNCHANGED <<pc, ending>> PROVE EndsSoFar'
  BY <1>2
<1>3. ASSUME NEW t, Claim(t), UNCHANGED ending, pc \in InTurnPcs \ {"failed"} PROVE EndsSoFar'
  BY <1>3 DEF Claim, TakeBatch
<1>4. CASE TurnOpens
  BY <1>4 DEF TurnOpens
<1>5. CASE FirstClaim
  BY <1>5, <1>3 DEF FirstClaim, EndTurn
<1>6. CASE StepCloses
  BY <1>6, <1>3 DEF StepCloses, EndTurn, local
<1>7. CASE TurnStops
  BY <1>7, <1>3 DEF TurnStops, StopsOrGoesOn, EndTurn, BreakTurn
<1>8. CASE PreStepDecides \/ StepOpens
  BY <1>8 DEF PreStepDecides, StepOpens, EnterStep
<1>9. CASE (\E e \in {"completed", "max-tokens", "null"} : StepReturns(e)) \/ StepThrows
  BY <1>9 DEF StepReturns, StepThrows, local
<1>10. CASE ProposalFails \/ StepRejected \/ NothingEnters \/ StepAborted \/ BrokenStepLeaves
            \/ FailedTurnCloses \/ StoppingFails \/ CrashAndResume
  BY <1>10 DEF ProposalFails, StepRejected, NothingEnters, StepAborted, AbandonStep,
      BrokenStepLeaves, FailedTurnCloses, StoppingFails, EndTurn, BreakTurn, FailTurn, CrashAndResume
<1>11. CASE SendWakes \/ LatchReplays \/ MaintenanceSettles
  BY <1>11 DEF SendWakes, LatchReplays, WakeDriver, StartDriver, LatchWake, MaintenanceSettles, local
<1>12. CASE \/ (\E m \in Msgs, t \in Targets, w \in BOOLEAN : Send(m, t, w)) \/ (\E m \in Msgs : Remove(m))
            \/ (\E c \in Causes : Cancel(c)) \/ (\E c \in Causes : CancelKeepingInbox(c)) \/ RunMaintenance
            \/ CancelClearsTurns \/ CancelAborts \/ DriverStranded \/ TurnNeverOpens \/ TurnRefused
  BY <1>12, <1>1, <1>2 DEF Send, Remove, Cancel, CancelKeepingInbox, RunMaintenance, CancelClearsTurns,
      CancelAborts, DriverStranded, TurnNeverOpens, ThrowsBeforeOpening, TurnRefused, local
<1>13. CASE RefusedTurnLeaves \/ TurnContinues \/ DriverExits \/ RegistryCloses \/ UNCHANGED vars
  BY <1>13, <1>1, <1>2 DEF RefusedTurnLeaves, Leaves, TurnContinues, DriverExits, GoesIdle,
      RegistryCloses, vars, local
<1>. QED BY <1>4, <1>5, <1>6, <1>7, <1>8, <1>9, <1>10, <1>11, <1>12, <1>13 DEF Next, Calls, Resumes

\* Open turns end as their steps returned, in every reachable state.
LEMMA EndsAlways == Spec => []EndsSoFar
<1>1. Init => EndsSoFar
  BY DEF Init, EndsSoFar, InTurnPcs
<1>. QED BY <1>1, OwnerAlways, EndsStep, PTL DEF Spec

\* What EndingTellsTruth says of one step.
TruthfulEnd ==
    log'.turns > log.turns =>
       /\ log'.last \in {"completed", "max-tokens"} => \A m \in Msgs : fate[m] # "claimed"
       /\ log'.last # "interrupted" /\ pc \notin {"failed", "decided"} =>
             (log'.last = "aborted" <=> abort # "none")

\* A step that ends no turn has no reason to give.
LEMMA NoEnd ==
    ASSUME TypeOK, log'.turns = log.turns
    PROVE  TruthfulEnd
BY DEF TypeOK, Boundaries, TruthfulEnd

\* A turn that ends with a success and an empty proposal, or aborted on an aborted
\* signal, tells the truth.
LEMMA EndTells ==
    ASSUME TypeOK, Account, NEW reason, log' = LogTurnEnd(reason),
           reason \in {"completed", "max-tokens"} => proposal = {},
           pc \in {"failed", "decided"} \/ (reason = "aborted" <=> abort # "none")
    PROVE  TruthfulEnd
<1>1. log'.last = reason
  BY DEF TypeOK, Boundaries, LogTurnEnd
<1>2. proposal = {} => \A m \in Msgs : fate[m] # "claimed"
  BY DEF Account, Claims, ClaimedInProposal
<1>. QED BY <1>1, <1>2 DEF TruthfulEnd

\* Every step that ends a turn tells the truth.
LEMMA TruthStep == TypeOK /\ Account /\ EndsSoFar /\ [Next]_vars => TruthfulEnd
<1>. SUFFICES ASSUME TypeOK, Account, EndsSoFar, [Next]_vars PROVE TruthfulEnd
  OBVIOUS
<1>typ. log \in Boundaries
  BY DEF TypeOK
<1>emp. /\ pc \notin {"proposed", "decided"} => proposal = {}
        /\ decision \in {"reject", "empty"} => proposal = {}
  BY DEF Account, Claims, ProposalHeld, NothingLeft
<1>1. ASSUME UNCHANGED log PROVE TruthfulEnd
  BY <1>1, NoEnd
<1>2. ASSUME \/ log' = LogStepEnd \/ (\E n : log' = LogTurnStart(n)) \/ (\E n : log' = LogStepStart(n))
      PROVE  TruthfulEnd
  <2>1. log'.turns = log.turns
    BY <1>2, <1>typ DEF LogStepEnd, LogTurnStart, LogStepStart, Boundaries
  <2>. QED BY <2>1, NoEnd
<1>3. ASSUME NEW t, Claim(t) PROVE TruthfulEnd
  <2>1. log'.turns = log.turns
    BY <1>3, <1>typ DEF Claim, TakeBatch, Boundaries
  <2>. QED BY <2>1, NoEnd
<1>4. ASSUME EndTurn("aborted"), abort # "none" PROVE TruthfulEnd
  BY <1>4, EndTells DEF EndTurn
<1>5. CASE FirstClaim
  BY <1>5, <1>3, <1>4 DEF FirstClaim
<1>6. CASE ProposalFails
  BY <1>6, <1>1, <1>4 DEF ProposalFails
<1>7. CASE StepRejected
  BY <1>7, EndTells DEF StepRejected, EndTurn
<1>8. CASE NothingEnters
  BY <1>8, <1>emp, EndTells DEF NothingEnters, EndTurn, BreakTurn
<1>9. CASE StepAborted
  BY <1>9, <1>4 DEF StepAborted, AbandonStep
<1>10. CASE BrokenStepLeaves
  BY <1>10, <1>1, <1>4 DEF BrokenStepLeaves
<1>11. CASE StepCloses
  BY <1>11, <1>1, <1>3, <1>4 DEF StepCloses
<1>12. CASE TurnStops
  <2>1. pc = "stopping"
    BY <1>12 DEF TurnStops
  <2>2. ending \in {"null", "completed", "max-tokens"}
    BY <2>1 DEF EndsSoFar, InTurnPcs
  <2>3. CASE BreakTurn(ending) /\ abort = "none"
    BY <2>1, <2>2, <2>3, <1>emp, EndTells DEF BreakTurn
  <2>. QED BY <1>12, <1>3, <1>4, <2>3 DEF TurnStops, StopsOrGoesOn
<1>13. CASE FailedTurnCloses
  BY <1>13, EndTells DEF FailedTurnCloses, EndTurn
<1>14. CASE CrashAndResume
  <2>1. CASE log.openTurn = 0
    BY <1>14, <2>1, <1>1 DEF CrashAndResume
  <2>2. CASE log.openTurn # 0
    <3>1. log'.last = "interrupted"
      BY <1>14, <2>2, <1>typ DEF CrashAndResume, Boundaries
    <3>. QED BY <3>1 DEF TruthfulEnd
  <2>. QED BY <2>1, <2>2
<1>15. CASE TurnOpens \/ StepOpens \/ (\E e \in {"completed", "max-tokens", "null"} : StepReturns(e)) \/ StepThrows
  BY <1>15, <1>2 DEF TurnOpens, StepOpens, EnterStep, StepReturns, StepThrows
<1>16. CASE \/ (\E m \in Msgs, t \in Targets, w \in BOOLEAN : Send(m, t, w)) \/ (\E m \in Msgs : Remove(m))
            \/ (\E c \in Causes : Cancel(c)) \/ (\E c \in Causes : CancelKeepingInbox(c)) \/ RunMaintenance
            \/ CancelClearsTurns \/ CancelAborts \/ DriverStranded \/ TurnNeverOpens \/ TurnRefused
  BY <1>16, <1>1 DEF Send, Remove, Cancel, CancelKeepingInbox, RunMaintenance, CancelClearsTurns,
      CancelAborts, DriverStranded, TurnNeverOpens, ThrowsBeforeOpening, TurnRefused
<1>17. CASE \/ SendWakes \/ LatchReplays \/ MaintenanceSettles \/ RefusedTurnLeaves \/ PreStepDecides
            \/ StoppingFails \/ TurnContinues \/ DriverExits \/ RegistryCloses \/ UNCHANGED vars
  BY <1>17, <1>1 DEF SendWakes, LatchReplays, MaintenanceSettles, RefusedTurnLeaves, PreStepDecides,
      StoppingFails, TurnContinues, DriverExits, GoesIdle, RegistryCloses, vars
<1>. QED BY <1>5, <1>6, <1>7, <1>8, <1>9, <1>10, <1>11, <1>12, <1>13, <1>14, <1>15, <1>16, <1>17
      DEF Next, Calls, Resumes

\* A turn reported as a success dropped nothing it claimed, and a turn says that
\* it was aborted exactly when its signal had aborted, with the two exceptions
\* EndingTellsTruth names.
THEOREM EndingAlwaysTellsTruth == Spec => EndingTellsTruth
<1>1. TypeOK /\ Account /\ EndsSoFar /\ [Next]_vars =>
         [log'.turns > log.turns =>
            /\ log'.last \in {"completed", "max-tokens"} => \A m \in Msgs : fate[m] # "claimed"
            /\ log'.last # "interrupted" /\ pc \notin {"failed", "decided"} =>
                  (log'.last = "aborted" <=> abort # "none")]_vars
  BY TruthStep DEF TruthfulEnd
<1>. QED BY <1>1, TypeCorrect, AccountAlways, EndsAlways, PTL DEF Spec, EndingTellsTruth
=============================================================================
