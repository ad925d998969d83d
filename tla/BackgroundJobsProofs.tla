------------------------ MODULE BackgroundJobsProofs ------------------------
(***************************************************************************)
(* Proofs about BackgroundJobs for every set of jobs, owners and waiters   *)
(* and every limit.  Ledger, the inductive invariant, ties the three views *)
(* of a job together: what its producer does, what its record says, and    *)
(* which teardown answers for it.                                          *)
(***************************************************************************)
EXTENDS BackgroundJobs, FiniteSetTheorems, TLAPS

Live(j) == status[j] \in {"running", "stopping"}

\* A waiter that is under way waits for a job, and only such a one is counted.
WaitersTrue ==
    \A w \in Waiters :
        /\ wait[w].at # "idle" => wait[w].job \in Jobs
        /\ wait[w].counted => wait[w].at # "idle"

\* Before its end a job is reported exactly when somebody claimed its end.
ClaimsTrue == \A j \in Jobs : ~IsTerminal(j) => (reported[j] <=> told[j] # {})

\* A live record is kept, a job that never started has no producer, and a
\* producer at work has a live record.
RecordsTrue ==
    \A j \in Jobs :
        /\ Live(j) => j \in kept
        /\ j \in kept => status[j] # "none"
        /\ status[j] = "none" => work[j] = "none"
        /\ Working(j) /\ j \notin orphaned => Live(j)

\* A live job of an owner has a cleanup that will stop it, or one that has.
OwnersTrue ==
    \A o \in Owners :
        /\ o \in attached => agent[o] \in {"live", "unloading"}
        /\ \A j \in Jobs :
              Live(j) /\ owner[j] = o =>
                  \/ o \in attached
                  \/ agent[o] = "draining" /\ j \in draining[o]

\* A service that drains waits for all it keeps, and has claimed their ends.
ServiceTrue ==
    /\ service = "draining" => kept \subseteq draining[NoOwner]
    /\ service # "up" => \A j \in Jobs : Live(j) => told[j] # {}
    /\ service = "gone" => kept = {}

Ledger == WaitersTrue /\ ClaimsTrue /\ RecordsTrue /\ OwnersTrue /\ ServiceTrue

-----------------------------------------------------------------------------
\* Typing.

\* What a teardown's cancels leave is well typed, whichever of them throw.
LEMMA CancelType ==
    ASSUME TypeOK, NEW jobs \in SUBSET Jobs, NEW throwing \in SUBSET LiveIn(jobs),
           CancelForTeardown(jobs, throwing)
    PROVE  /\ status' \in [Jobs -> {"none", "running", "stopping"} \cup Terminal]
           /\ reported' \in [Jobs -> BOOLEAN]
           /\ work' \in [Jobs -> {"none", "working", "asked", "over"} \cup Terminal]
           /\ orphaned' \in SUBSET Jobs
           /\ told' \in [Jobs -> SUBSET {"notice", "claim"}]
           /\ wait' \in [Waiters -> WaitRecord]
<1>. USE DEF TypeOK, CancelForTeardown
<1>0. throwing \subseteq jobs
  BY DEF LiveIn
<1>1. status' \in [Jobs -> {"none", "running", "stopping"} \cup Terminal]
  BY DEF TornDown, Terminal
<1>2. reported' \in [Jobs -> BOOLEAN]
  OBVIOUS
<1>3. work' \in [Jobs -> {"none", "working", "asked", "over"} \cup Terminal]
  BY DEF AskedToStop
<1>4. orphaned' \in SUBSET Jobs
  BY <1>0
<1>5. told' \in [Jobs -> SUBSET {"notice", "claim"}]
  BY DEF Told
<1>6. wait' \in [Waiters -> WaitRecord]
  BY DEF ReleaseWaiters, WaitRecord
<1>. QED BY <1>1, <1>2, <1>3, <1>4, <1>5, <1>6

\* Each step keeps the state well typed.
LEMMA TypeStep == TypeOK /\ [Next]_vars => TypeOK'
<1>. SUFFICES ASSUME TypeOK, [Next]_vars PROVE TypeOK'
  OBVIOUS
<1>. USE DEF TypeOK, WaitRecord, NotWaiting, records, producers, teardown
<1>1. ASSUME NEW j \in Jobs, NEW b \in Buckets, Start(j, b) PROVE TypeOK'
  BY <1>1 DEF Start, Attach, Buckets
<1>2. ASSUME NEW j \in Jobs, Read(j) PROVE TypeOK'
  BY <1>2 DEF Read, Told
<1>3. ASSUME NEW j \in Jobs, Kill(j) PROVE TypeOK'
  <2>1. told' \in [Jobs -> SUBSET {"notice", "claim"}]
    BY <1>3 DEF Kill, Told
  <2>2. CASE ~IsTerminal(j) /\ KillLive(j)
    <3>1. work' \in [Jobs -> {"none", "working", "asked", "over"} \cup Terminal]
      BY <2>2 DEF KillLive, AskedToStop
    <3>. QED BY <1>3, <2>1, <2>2, <3>1 DEF Kill, KillLive
  <2>3. CASE IsTerminal(j) /\ reported' = [reported EXCEPT ![j] = TRUE] /\ UNCHANGED <<status, work>>
    BY <1>3, <2>1, <2>3 DEF Kill
  <2>. QED BY <1>3, <2>2, <2>3 DEF Kill
<1>4. ASSUME NEW w \in Waiters, NEW j \in Jobs, WaitBegins(w, j) PROVE TypeOK'
  BY <1>4 DEF WaitBegins
<1>5. ASSUME NEW w \in Waiters, WaitTimesOut(w) PROVE TypeOK'
  BY <1>5 DEF WaitTimesOut
<1>6. ASSUME NEW w \in Waiters, WaitAborts(w) PROVE TypeOK'
  BY <1>6 DEF WaitAborts
<1>7. ASSUME NEW w \in Waiters, WaitReturns(w) PROVE TypeOK'
  <2>1. reported' \in [Jobs -> BOOLEAN]
    BY <1>7 DEF WaitReturns, IsTerminal
  <2>2. told' \in [Jobs -> SUBSET {"notice", "claim"}]
    BY <1>7 DEF WaitReturns, Told
  <2>3. wait' \in [Waiters -> WaitRecord]
    BY <1>7 DEF WaitReturns
  <2>. QED BY <1>7, <2>1, <2>2, <2>3 DEF WaitReturns
<1>8. ASSUME NEW j \in Jobs, NEW outcome \in Terminal, ProducerEnds(j, outcome) PROVE TypeOK'
  BY <1>8 DEF ProducerEnds
<1>9. ASSUME NEW j \in Jobs, DoneSettles(j) PROVE TypeOK'
  <2>1. status' \in [Jobs -> {"none", "running", "stopping"} \cup Terminal]
    BY <1>9 DEF DoneSettles, Settle, SettleAgain
  <2>2. reported' \in [Jobs -> BOOLEAN]
    BY <1>9 DEF DoneSettles, Settle, SettleAgain
  <2>3. wait' \in [Waiters -> WaitRecord]
    BY <1>9 DEF DoneSettles, Settle, SettleAgain, ReleaseWaiters
  <2>4. told' \in [Jobs -> SUBSET {"notice", "claim"}]
    BY <1>9 DEF DoneSettles, Settle, SettleAgain, Told
  <2>. QED BY <1>9, <2>1, <2>2, <2>3, <2>4 DEF DoneSettles
<1>10. ASSUME NEW o \in Owners, OwnerUnloads(o) PROVE TypeOK'
  BY <1>10 DEF OwnerUnloads
<1>11. ASSUME NEW o \in Owners, OwnerDrains(o) PROVE TypeOK'
  <2>1. PICK throwing \in SUBSET LiveIn(OwnedBy(o)) : CancelForTeardown(OwnedBy(o), throwing)
    BY <1>11 DEF OwnerDrains
  <2>2. OwnedBy(o) \in SUBSET Jobs
    BY DEF OwnedBy
  <2>. QED BY <1>11, <2>1, <2>2, CancelType DEF OwnerDrains, Detach
<1>12. ASSUME NEW o \in Owners, OwnerDrained(o) PROVE TypeOK'
  BY <1>12 DEF OwnerDrained
<1>13. ASSUME NEW o \in Owners, OwnerLeaves(o) PROVE TypeOK'
  BY <1>13 DEF OwnerLeaves
<1>14. CASE ServiceDrains
  <2>1. PICK throwing \in SUBSET LiveIn(kept) : CancelForTeardown(kept, throwing)
    BY <1>14 DEF ServiceDrains
  <2>. QED BY <1>14, <2>1, CancelType DEF ServiceDrains
<1>15. CASE ServiceDrained
  BY <1>15 DEF ServiceDrained
<1>16. CASE UNCHANGED vars
  BY <1>16 DEF vars
<1>. QED BY <1>1, <1>2, <1>3, <1>4, <1>5, <1>6, <1>7, <1>8, <1>9, <1>10, <1>11, <1>12, <1>13,
            <1>14, <1>15, <1>16
         DEF Next, Calls, WaitMoves, ProducerMoves, TeardownEnds

\* The state of every registry is well typed.
THEOREM TypeCorrect == Spec => []TypeOK
<1>1. Init => TypeOK
  BY DEF Init, TypeOK, NotWaiting, WaitRecord, Buckets
<1>. QED BY <1>1, TypeStep, PTL DEF Spec
-----------------------------------------------------------------------------
\* The ledger.

\* What the cancels of a teardown do to one job.
LEMMA CancelEffect ==
    ASSUME TypeOK, NEW jobs \in SUBSET Jobs, NEW throwing \in SUBSET LiveIn(jobs),
           CancelForTeardown(jobs, throwing), NEW j \in Jobs
    PROVE  /\ j \notin LiveIn(jobs) =>
                  status'[j] = status[j] /\ reported'[j] = reported[j] /\ told'[j] = told[j]
           /\ j \in LiveIn(jobs) => reported'[j] /\ "claim" \in told'[j]
           /\ j \in throwing => status'[j] = "failed" /\ j \in orphaned'
           /\ j \in LiveIn(jobs) \ throwing => status'[j] = "stopping"
           /\ work'[j] \in {"working", "asked"} <=> Working(j)
           /\ work[j] = "none" => work'[j] = "none"
           /\ orphaned \subseteq orphaned'
<1>. USE DEF TypeOK, CancelForTeardown
<1>0. throwing \subseteq LiveIn(jobs)
  OBVIOUS
<1>1. j \notin LiveIn(jobs) =>
         status'[j] = status[j] /\ reported'[j] = reported[j] /\ told'[j] = told[j]
  BY <1>0 DEF TornDown, Told
<1>2. j \in LiveIn(jobs) => reported'[j] /\ "claim" \in told'[j]
  BY DEF Told
<1>3. j \in throwing => status'[j] = "failed" /\ j \in orphaned'
  BY DEF TornDown
<1>4. j \in LiveIn(jobs) \ throwing => status'[j] = "stopping"
  BY DEF TornDown
<1>5. /\ work'[j] \in {"working", "asked"} <=> Working(j)
      /\ work[j] = "none" => work'[j] = "none"
  BY DEF AskedToStop, Working
<1>6. orphaned \subseteq orphaned'
  OBVIOUS
<1>. QED BY <1>1, <1>2, <1>3, <1>4, <1>5, <1>6

\* A teardown's cancels keep what the ledger says of waiters, claims and records.
LEMMA CancelKeeps ==
    ASSUME TypeOK, Ledger, UNCHANGED kept,
           NEW jobs \in SUBSET kept, NEW throwing \in SUBSET LiveIn(jobs),
           CancelForTeardown(jobs, throwing)
    PROVE  WaitersTrue' /\ ClaimsTrue' /\ RecordsTrue'
<1>0. jobs \in SUBSET Jobs
  BY DEF TypeOK
<1>1. WaitersTrue'
  BY DEF Ledger, WaitersTrue, CancelForTeardown, ReleaseWaiters, TypeOK, WaitRecord
<1>2. ClaimsTrue'
  <2>. SUFFICES ASSUME NEW j \in Jobs, ~IsTerminal(j)' PROVE (reported'[j] <=> told'[j] # {})
    BY DEF ClaimsTrue
  <2>1. CASE j \in LiveIn(jobs)
    BY <1>0, <2>1, CancelEffect
  <2>2. CASE j \notin LiveIn(jobs)
    BY <1>0, <2>2, CancelEffect DEF Ledger, ClaimsTrue, IsTerminal
  <2>. QED BY <2>1, <2>2
<1>3. RecordsTrue'
  <2>. SUFFICES ASSUME NEW j \in Jobs
       PROVE  /\ Live(j)' => j \in kept
              /\ j \in kept => status'[j] # "none"
              /\ status'[j] = "none" => work'[j] = "none"
              /\ Working(j)' /\ j \notin orphaned' => Live(j)'
    BY DEF RecordsTrue
  <2>1. CASE j \in throwing
    BY <1>0, <2>1, CancelEffect DEF Live
  <2>2. CASE j \in LiveIn(jobs) \ throwing
    BY <1>0, <2>2, CancelEffect DEF Live, LiveIn
  <2>3. CASE j \notin LiveIn(jobs)
    <3>1. status'[j] = status[j] /\ (work'[j] \in {"working", "asked"} <=> Working(j))
          /\ (work[j] = "none" => work'[j] = "none") /\ orphaned \subseteq orphaned'
      BY <1>0, <2>3, CancelEffect
    <3>. QED BY <3>1 DEF Ledger, RecordsTrue, Live, Working
  <2>. QED BY <2>1, <2>2, <2>3
<1>. QED BY <1>1, <1>2, <1>3

\* Each step keeps the ledger: one step of the proof per action.
LEMMA LedgerStep == TypeOK /\ Ledger /\ [Next]_vars => Ledger'
<1>. SUFFICES ASSUME TypeOK, Ledger, [Next]_vars PROVE Ledger'
  OBVIOUS
<1>. USE JobsAssumption DEF TypeOK, Ledger, WaitRecord, NotWaiting, records, producers, teardown,
                            IsTerminal, Terminal, Live, Working
<1>1. ASSUME NEW j \in Jobs, NEW b \in Buckets, Start(j, b) PROVE Ledger'
  <2>. USE <1>1 DEF Start
  <2>1. WaitersTrue' /\ ClaimsTrue'
    BY DEF WaitersTrue, ClaimsTrue
  <2>2. RecordsTrue'
    BY DEF RecordsTrue
  <2>3. OwnersTrue'
    BY DEF OwnersTrue, OwnerServed, Attach, Buckets
  <2>4. ServiceTrue'
    BY DEF ServiceTrue
  <2>. QED BY <2>1, <2>2, <2>3, <2>4
<1>2. ASSUME NEW j \in Jobs, Read(j) PROVE Ledger'
  <2>. USE <1>2 DEF Read
  <2>1. WaitersTrue' /\ RecordsTrue' /\ OwnersTrue'
    BY DEF WaitersTrue, RecordsTrue, OwnersTrue
  <2>2. ClaimsTrue'
    BY DEF ClaimsTrue, Told
  <2>3. ServiceTrue'
    BY DEF ServiceTrue, Told
  <2>. QED BY <2>1, <2>2, <2>3
<1>3. ASSUME NEW j \in Jobs, Kill(j) PROVE Ledger'
  <2>. USE <1>3 DEF Kill
  <2>1. WaitersTrue'
    BY DEF WaitersTrue
  <2>2. ClaimsTrue' /\ ServiceTrue'
    <3>1. \A i \in Jobs : "claim" \in told'[j] /\ reported'[j]
                          /\ (i # j => told'[i] = told[i] /\ reported'[i] = reported[i]
                                       /\ status'[i] = status[i])
      BY DEF KillLive, Told
    <3>2. told'[j] # {}
      BY <3>1
    <3>3. ClaimsTrue'
      BY <3>1, <3>2 DEF ClaimsTrue
    <3>. QED BY <3>1, <3>2, <3>3 DEF ServiceTrue
  <2>3. RecordsTrue'
    BY DEF RecordsTrue, KillLive, AskedToStop
  <2>4. OwnersTrue'
    BY DEF OwnersTrue, RecordsTrue, KillLive
  <2>. QED BY <2>1, <2>2, <2>3, <2>4
<1>4. ASSUME NEW w \in Waiters, NEW j \in Jobs, WaitBegins(w, j) PROVE Ledger'
  BY <1>4 DEF WaitBegins, WaitersTrue, ClaimsTrue, RecordsTrue, OwnersTrue, ServiceTrue
<1>5. ASSUME NEW w \in Waiters, WaitTimesOut(w) PROVE Ledger'
  BY <1>5 DEF WaitTimesOut, WaitersTrue, ClaimsTrue, RecordsTrue, OwnersTrue, ServiceTrue
<1>6. ASSUME NEW w \in Waiters, WaitAborts(w) PROVE Ledger'
  BY <1>6 DEF WaitAborts, WaitersTrue, ClaimsTrue, RecordsTrue, OwnersTrue, ServiceTrue
<1>7. ASSUME NEW w \in Waiters, WaitReturns(w) PROVE Ledger'
  <2>. USE <1>7 DEF WaitReturns
  <2>1. WaitersTrue' /\ RecordsTrue' /\ OwnersTrue'
    BY DEF WaitersTrue, RecordsTrue, OwnersTrue
  <2>2. ClaimsTrue' /\ ServiceTrue'
    <3>. DEFINE j == wait[w].job
    <3>1. \A i \in Jobs : i # j => told'[i] = told[i] /\ reported'[i] = reported[i]
      BY DEF Told
    <3>2. j \in Jobs
      BY DEF WaitersTrue
    <3>3. ~IsTerminal(j) => told'[j] = told[j] /\ reported'[j] = reported[j]
      BY <3>2
    <3>4. ClaimsTrue'
      <4>. HIDE DEF j
      <4>. SUFFICES ASSUME NEW i \in Jobs, ~IsTerminal(i) PROVE (reported'[i] <=> told'[i] # {})
        BY DEF ClaimsTrue
      <4>1. told'[i] = told[i] /\ reported'[i] = reported[i]
        BY <3>1, <3>2, <3>3
      <4>. QED BY <4>1 DEF ClaimsTrue
    <3>5. ServiceTrue'
      BY <3>1, <3>2, <3>3 DEF ServiceTrue
    <3>. QED BY <3>4, <3>5
  <2>. QED BY <2>1, <2>2
<1>8. ASSUME NEW j \in Jobs, NEW outcome \in Terminal, ProducerEnds(j, outcome) PROVE Ledger'
  BY <1>8 DEF ProducerEnds, WaitersTrue, ClaimsTrue, RecordsTrue, OwnersTrue, ServiceTrue
<1>9. ASSUME NEW j \in Jobs, DoneSettles(j) PROVE Ledger'
  <2>. USE <1>9 DEF DoneSettles, Settle, SettleAgain
  <2>1. WaitersTrue'
    BY DEF WaitersTrue, ReleaseWaiters
  <2>2. ClaimsTrue' /\ ServiceTrue'
    <3>1. \A i \in Jobs : i # j => told'[i] = told[i] /\ reported'[i] = reported[i]
                                   /\ status'[i] = status[i]
      BY DEF Told
    <3>2. IsTerminal(j)'
      OBVIOUS
    <3>3. ClaimsTrue'
      BY <3>1, <3>2 DEF ClaimsTrue
    <3>. QED BY <3>1, <3>2, <3>3 DEF ServiceTrue
  <2>3. RecordsTrue'
    BY DEF RecordsTrue
  <2>4. OwnersTrue'
    BY DEF OwnersTrue
  <2>. QED BY <2>1, <2>2, <2>3, <2>4
<1>10. ASSUME NEW o \in Owners, OwnerUnloads(o) PROVE Ledger'
  BY <1>10 DEF OwnerUnloads, WaitersTrue, ClaimsTrue, RecordsTrue, OwnersTrue, ServiceTrue
<1>11. ASSUME NEW o \in Owners, OwnerDrains(o) PROVE Ledger'
  <2>1. PICK throwing \in SUBSET LiveIn(OwnedBy(o)) : CancelForTeardown(OwnedBy(o), throwing)
    BY <1>11 DEF OwnerDrains
  <2>2. UNCHANGED <<kept, owner, service>> /\ OwnedBy(o) \in SUBSET kept /\ OwnedBy(o) \in SUBSET Jobs
    BY <1>11 DEF OwnerDrains, OwnedBy
  <2>3. WaitersTrue' /\ ClaimsTrue' /\ RecordsTrue'
    BY <2>1, <2>2, CancelKeeps
  <2>4. \A j \in Jobs : Live(j)' => Live(j)
    <3>. SUFFICES ASSUME NEW j \in Jobs, Live(j)' PROVE Live(j)
      OBVIOUS
    <3>1. CASE j \in LiveIn(OwnedBy(o))
      BY <3>1, <2>2 DEF LiveIn, RecordsTrue
    <3>2. CASE j \notin LiveIn(OwnedBy(o))
      BY <3>2, <2>1, <2>2, CancelEffect
    <3>. QED BY <3>1, <3>2
  <2>5. OwnersTrue'
    BY <1>11, <2>2, <2>4 DEF OwnersTrue, OwnerDrains, Detach, RecordsTrue, OwnedBy
  <2>6. \A j \in Jobs : told[j] # {} => told'[j] # {}
    BY <2>1, <2>2, CancelEffect
  <2>7. ServiceTrue'
    <3>1. o # NoOwner /\ draining'[NoOwner] = draining[NoOwner]
      BY <1>11 DEF OwnerDrains
    <3>. QED BY <2>2, <2>4, <2>6, <3>1 DEF ServiceTrue
  <2>. QED BY <2>3, <2>5, <2>7
<1>12. ASSUME NEW o \in Owners, OwnerDrained(o) PROVE Ledger'
  <2>. USE <1>12 DEF OwnerDrained
  <2>1. WaitersTrue' /\ ClaimsTrue' /\ ServiceTrue'
    BY DEF WaitersTrue, ClaimsTrue, ServiceTrue
  <2>2. RecordsTrue' /\ OwnersTrue'
    BY DEF RecordsTrue, OwnersTrue, AllSettled
  <2>. QED BY <2>1, <2>2
<1>13. ASSUME NEW o \in Owners, OwnerLeaves(o) PROVE Ledger'
  BY <1>13 DEF OwnerLeaves, WaitersTrue, ClaimsTrue, RecordsTrue, OwnersTrue, ServiceTrue
<1>14. CASE ServiceDrains
  <2>1. PICK throwing \in SUBSET LiveIn(kept) : CancelForTeardown(kept, throwing)
    BY <1>14 DEF ServiceDrains
  <2>2. UNCHANGED <<kept, owner, agent, attached>>
    BY <1>14 DEF ServiceDrains
  <2>3. WaitersTrue' /\ ClaimsTrue' /\ RecordsTrue'
    BY <2>1, <2>2, CancelKeeps
  <2>4. \A j \in Jobs : Live(j)' => Live(j) /\ told'[j] # {}
    <3>. SUFFICES ASSUME NEW j \in Jobs, Live(j)' PROVE Live(j) /\ told'[j] # {}
      OBVIOUS
    <3>1. j \in kept
      BY <2>2, <2>3 DEF RecordsTrue
    <3>2. j \in LiveIn(kept)
      BY <3>1, <2>1, CancelEffect DEF LiveIn
    <3>3. Live(j)
      BY <3>1, <3>2 DEF LiveIn, RecordsTrue
    <3>. QED BY <3>2, <3>3, <2>1, CancelEffect
  <2>5. OwnersTrue'
    BY <1>14, <2>2, <2>4 DEF OwnersTrue, ServiceDrains
  <2>6. ServiceTrue'
    BY <1>14, <2>4 DEF ServiceTrue, ServiceDrains, Buckets
  <2>. QED BY <2>3, <2>5, <2>6
<1>15. CASE ServiceDrained
  <2>. USE <1>15 DEF ServiceDrained
  <2>1. \A j \in Jobs : ~Live(j)
    BY DEF RecordsTrue, ServiceTrue, AllSettled
  <2>2. WaitersTrue' /\ ClaimsTrue'
    BY DEF WaitersTrue, ClaimsTrue
  <2>3. RecordsTrue' /\ OwnersTrue' /\ ServiceTrue'
    BY <2>1 DEF RecordsTrue, OwnersTrue, ServiceTrue
  <2>. QED BY <2>2, <2>3
<1>16. CASE UNCHANGED vars
  BY <1>16 DEF vars, WaitersTrue, ClaimsTrue, RecordsTrue, OwnersTrue, ServiceTrue
<1>. QED BY <1>1, <1>2, <1>3, <1>4, <1>5, <1>6, <1>7, <1>8, <1>9, <1>10, <1>11, <1>12, <1>13,
            <1>14, <1>15, <1>16
         DEF Next, Calls, WaitMoves, ProducerMoves, TeardownEnds

\* The ledger holds in every reachable state: no producer works without a live
\* record, and no live record without a cleanup that will stop it.
THEOREM LedgerAlways == Spec => []Ledger
<1>1. Init => Ledger
  BY DEF Init, Ledger, WaitersTrue, ClaimsTrue, RecordsTrue, OwnersTrue, ServiceTrue, NotWaiting,
         IsTerminal, Terminal, Live, Working
<1>. QED BY <1>1, LedgerStep, TypeCorrect, PTL DEF Spec
-----------------------------------------------------------------------------
\* The limit.

\* Each bucket's active records are within the limit.
Bounded ==
    /\ IsFiniteSet(kept)
    /\ \A b \in Buckets : Cardinality(ActiveTasks(b)) <= Limit

\* A step that makes no record active keeps the buckets within the limit.
LEMMA FewerActive ==
    ASSUME Bounded, kept' \subseteq kept, UNCHANGED owner,
           \A j \in kept : Live(j)' => Live(j)
    PROVE  Bounded'
<1>1. IsFiniteSet(kept')
  BY FS_Subset DEF Bounded
<1>2. ASSUME NEW b \in Buckets PROVE Cardinality(ActiveTasks(b)') <= Limit
  <2>1. ActiveTasks(b)' \subseteq ActiveTasks(b)
    BY DEF ActiveTasks, Live
  <2>2. ActiveTasks(b) \subseteq kept
    BY DEF ActiveTasks
  <2>3. IsFiniteSet(ActiveTasks(b))
    BY <2>2, FS_Subset DEF Bounded
  <2>4. /\ Cardinality(ActiveTasks(b)') <= Cardinality(ActiveTasks(b))
        /\ Cardinality(ActiveTasks(b)') \in Nat /\ Cardinality(ActiveTasks(b)) \in Nat
    BY <2>1, <2>3, FS_Subset, FS_CardinalityType
  <2>5. Cardinality(ActiveTasks(b)) <= Limit
    BY DEF Bounded
  <2>. QED BY <2>4, <2>5, JobsAssumption
<1>. QED BY <1>1, <1>2 DEF Bounded, ActiveTasks, Buckets

\* A start adds one record to a bucket that had room.
LEMMA StartBounded ==
    ASSUME TypeOK, Ledger, Bounded, NEW j \in Jobs, NEW b \in Buckets, Start(j, b)
    PROVE  Bounded'
<1>. USE DEF Start
<1>1. j \notin kept
  BY DEF Ledger, RecordsTrue
<1>2. IsFiniteSet(kept')
  BY FS_AddElement DEF Bounded
<1>3. ASSUME NEW c \in Buckets PROVE Cardinality(ActiveTasks(c)') <= Limit
  <2>1. ActiveTasks(c) \subseteq kept /\ IsFiniteSet(ActiveTasks(c))
    BY FS_Subset DEF Bounded, ActiveTasks
  <2>2. Cardinality(ActiveTasks(c)) \in Nat /\ Cardinality(ActiveTasks(c)) <= Limit
    BY <2>1, FS_CardinalityType DEF Bounded
  <2>3. \A i \in kept : owner'[i] = owner[i] /\ status'[i] = status[i]
    BY <1>1 DEF TypeOK
  <2>4. owner'[j] = b /\ status'[j] = "running" /\ kept' = kept \cup {j}
    BY DEF TypeOK
  <2>5. CASE c = b
    <3>1. ActiveTasks(c)' = ActiveTasks(c) \cup {j}
      BY <2>3, <2>4, <2>5 DEF ActiveTasks
    <3>2. Cardinality(ActiveTasks(c)) < Limit
      BY <2>5
    <3>3. Cardinality(ActiveTasks(c)') = Cardinality(ActiveTasks(c)) + 1
      BY <1>1, <2>1, <3>1, FS_AddElement
    <3>. QED BY <2>2, <3>2, <3>3, JobsAssumption
  <2>6. CASE c # b
    <3>1. ActiveTasks(c)' = ActiveTasks(c)
      BY <2>3, <2>4, <2>6 DEF ActiveTasks
    <3>. QED BY <2>2, <3>1
  <2>. QED BY <2>5, <2>6
<1>. QED BY <1>2, <1>3 DEF Bounded, ActiveTasks, Buckets

\* Each step keeps the buckets within the limit.
LEMMA BoundedStep == TypeOK /\ Ledger /\ Bounded /\ [Next]_vars => Bounded'
<1>. SUFFICES ASSUME TypeOK, Ledger, Bounded, [Next]_vars PROVE Bounded'
  OBVIOUS
<1>. USE DEF TypeOK, Live, records, producers, teardown
<1>1. ASSUME NEW j \in Jobs, NEW b \in Buckets, Start(j, b) PROVE Bounded'
  BY <1>1, StartBounded
<1>2. ASSUME NEW j \in Jobs, Read(j) \/ Kill(j) PROVE Bounded'
  <2>1. UNCHANGED <<kept, owner>>
    BY <1>2 DEF Read, Kill
  <2>2. \A i \in kept : Live(i)' => Live(i)
    BY <1>2 DEF Read, Kill, KillLive, IsTerminal, Terminal, Ledger, RecordsTrue
  <2>. QED BY <2>1, <2>2, FewerActive
<1>3. ASSUME NEW w \in Waiters, (\E j \in Jobs : WaitBegins(w, j)) \/ WaitMoves(w) PROVE Bounded'
  <2>1. UNCHANGED <<kept, owner, status>>
    BY <1>3 DEF WaitBegins, WaitMoves, WaitTimesOut, WaitAborts, WaitReturns
  <2>. QED BY <2>1, FewerActive
<1>4. ASSUME NEW j \in Jobs, ProducerMoves(j) PROVE Bounded'
  <2>1. UNCHANGED <<kept, owner>>
    BY <1>4 DEF ProducerMoves, ProducerEnds, DoneSettles
  <2>2. \A i \in kept : Live(i)' => Live(i)
    BY <1>4 DEF ProducerMoves, ProducerEnds, DoneSettles, Settle, SettleAgain, Terminal
  <2>. QED BY <2>1, <2>2, FewerActive
<1>5. ASSUME NEW o \in Owners, OwnerUnloads(o) \/ OwnerDrained(o) \/ OwnerLeaves(o) PROVE Bounded'
  <2>1. kept' \subseteq kept /\ UNCHANGED <<owner, status>>
    BY <1>5 DEF OwnerUnloads, OwnerDrained, OwnerLeaves
  <2>. QED BY <2>1, FewerActive
<1>6. ASSUME NEW jobs \in SUBSET kept, NEW throwing \in SUBSET LiveIn(jobs),
             CancelForTeardown(jobs, throwing), UNCHANGED <<kept, owner>>
      PROVE  Bounded'
  <2>1. ASSUME NEW j \in kept, Live(j)' PROVE Live(j)
    <3>1. CASE j \in LiveIn(jobs)
      BY <3>1 DEF LiveIn, IsTerminal, Ledger, RecordsTrue
    <3>2. CASE j \notin LiveIn(jobs)
      <4>1. jobs \in SUBSET Jobs
        OBVIOUS
      <4>. QED BY <1>6, <2>1, <3>2, <4>1, CancelEffect
    <3>. QED BY <3>1, <3>2
  <2>. QED BY <1>6, <2>1, FewerActive
<1>7. ASSUME NEW o \in Owners, OwnerDrains(o) PROVE Bounded'
  <2>1. OwnedBy(o) \in SUBSET kept
    BY DEF OwnedBy
  <2>. QED BY <1>6, <1>7, <2>1 DEF OwnerDrains
<1>8. CASE ServiceDrains
  BY <1>6, <1>8 DEF ServiceDrains
<1>9. CASE ServiceDrained
  <2>1. kept' \subseteq kept /\ UNCHANGED <<owner, status>>
    BY <1>9 DEF ServiceDrained
  <2>. QED BY <2>1, FewerActive
<1>10. CASE UNCHANGED vars
  BY <1>10, FewerActive DEF vars
<1>. QED BY <1>1, <1>2, <1>3, <1>4, <1>5, <1>7, <1>8, <1>9, <1>10
         DEF Next, Calls, TeardownEnds

\* Producers at work are counted by the limit and gone with their owner: what
\* the registry holds of them is never less than what they do.
THEOREM WorkAlwaysHeld == Spec => []WorkIsHeld
<1>1. Init => Bounded
  <2>1. ASSUME Init, NEW b \in Buckets PROVE ActiveTasks(b) = {}
    BY <2>1 DEF Init, ActiveTasks
  <2>. QED BY <2>1, FS_EmptySet, JobsAssumption DEF Init, Bounded
<1>2. TypeOK /\ Ledger /\ Bounded => WorkIsHeld
  <2>. SUFFICES ASSUME TypeOK, Ledger, Bounded, NEW b \in Buckets
       PROVE  /\ Cardinality(HeldWork(b)) <= Limit
              /\ service = "gone" \/ (b \in Owners /\ agent[b] = "gone") => HeldWork(b) = {}
    BY DEF WorkIsHeld
  <2>1. \A j \in HeldWork(b) : Live(j) /\ j \in kept /\ owner[j] = b
    BY DEF HeldWork, Ledger, RecordsTrue
  <2>2. HeldWork(b) \subseteq ActiveTasks(b)
    BY <2>1 DEF ActiveTasks, Live
  <2>3. IsFiniteSet(ActiveTasks(b)) /\ Cardinality(ActiveTasks(b)) <= Limit
    BY FS_Subset DEF Bounded, ActiveTasks
  <2>4. Cardinality(HeldWork(b)) <= Cardinality(ActiveTasks(b))
        /\ Cardinality(HeldWork(b)) \in Nat /\ Cardinality(ActiveTasks(b)) \in Nat
    BY <2>2, <2>3, FS_Subset, FS_CardinalityType
  <2>5. service = "gone" => HeldWork(b) = {}
    BY <2>1 DEF Ledger, ServiceTrue
  <2>6. b \in Owners /\ agent[b] = "gone" => HeldWork(b) = {}
    BY <2>1 DEF Ledger, OwnersTrue, HeldWork
  <2>. QED BY <2>3, <2>4, <2>5, <2>6, JobsAssumption
<1>. QED BY <1>1, <1>2, BoundedStep, TypeCorrect, LedgerAlways, PTL DEF Spec

-----------------------------------------------------------------------------
\* Ends and notices.

\* What EndsOnce says of one step.
EndStep ==
    \A j \in Jobs :
        /\ IsTerminal(j) => status'[j] = status[j]
        /\ (j \in kept /\ j \notin kept') => IsTerminal(j)
        /\ ("notice" \in told'[j] /\ "notice" \notin told[j]) => told[j] = {} /\ Counted(j) = {}

\* The cancels of a teardown end nothing twice and announce nothing.
LEMMA CancelEnds ==
    ASSUME TypeOK, NEW jobs \in SUBSET kept, NEW throwing \in SUBSET LiveIn(jobs),
           CancelForTeardown(jobs, throwing), UNCHANGED kept
    PROVE  EndStep
<1>. SUFFICES ASSUME NEW j \in Jobs
     PROVE  /\ IsTerminal(j) => status'[j] = status[j]
            /\ "notice" \in told'[j] => "notice" \in told[j]
  BY DEF EndStep
<1>1. jobs \in SUBSET Jobs
  BY DEF TypeOK
<1>2. IsTerminal(j) => status'[j] = status[j]
  BY <1>1, CancelEffect DEF LiveIn
<1>3. "notice" \in told'[j] => "notice" \in told[j]
  BY DEF CancelForTeardown, Told, TypeOK
<1>. QED BY <1>2, <1>3

\* Each step satisfies what EndsOnce says of it.
LEMMA EndNextStep == TypeOK /\ Ledger /\ [Next]_vars => EndStep
<1>. SUFFICES ASSUME TypeOK, Ledger, [Next]_vars PROVE EndStep
  OBVIOUS
<1>. USE DEF TypeOK, EndStep, records, producers, teardown
<1>1. ASSUME NEW j \in Jobs, NEW b \in Buckets, Start(j, b) PROVE EndStep
  BY <1>1 DEF Start, IsTerminal, Terminal
<1>2. ASSUME NEW j \in Jobs, Read(j) PROVE EndStep
  BY <1>2 DEF Read, Told
<1>3. ASSUME NEW j \in Jobs, Kill(j) PROVE EndStep
  BY <1>3 DEF Kill, KillLive, Told
<1>4. ASSUME NEW w \in Waiters, (\E j \in Jobs : WaitBegins(w, j)) \/ WaitTimesOut(w) \/ WaitAborts(w)
      PROVE  EndStep
  BY <1>4 DEF WaitBegins, WaitTimesOut, WaitAborts
<1>5. ASSUME NEW w \in Waiters, WaitReturns(w) PROVE EndStep
  BY <1>5 DEF WaitReturns, Told
<1>6. ASSUME NEW j \in Jobs, NEW outcome \in Terminal, ProducerEnds(j, outcome) PROVE EndStep
  BY <1>6 DEF ProducerEnds
<1>7. ASSUME NEW j \in Jobs, DoneSettles(j) PROVE EndStep
  <2>1. CASE IsTerminal(j)
    BY <1>7, <2>1 DEF DoneSettles, Settle
  <2>2. CASE ~IsTerminal(j)
    <3>1. SettleAgain(j, work[j]) /\ UNCHANGED kept
      BY <1>7, <2>2 DEF DoneSettles, Settle
    <3>2. \A i \in Jobs : IsTerminal(i) => status'[i] = status[i]
      BY <2>2, <3>1 DEF SettleAgain
    <3>3. \A i \in Jobs : i # j => told'[i] = told[i]
      BY <3>1 DEF SettleAgain, Told
    <3>4. CASE Notifies(j)
      <4>1. ~reported'[j] /\ reported'[j] = (reported[j] \/ Counted(j) # {})
        BY <3>1, <3>4 DEF SettleAgain, Notifies
      <4>2. told[j] = {} /\ Counted(j) = {}
        BY <2>2, <4>1 DEF Ledger, ClaimsTrue
      <4>. QED BY <3>1, <3>2, <3>3, <4>2
    <3>5. CASE ~Notifies(j)
      BY <3>1, <3>2, <3>5 DEF SettleAgain
    <3>. QED BY <3>4, <3>5
  <2>. QED BY <2>1, <2>2
<1>8. ASSUME NEW o \in Owners, OwnerUnloads(o) \/ OwnerLeaves(o) PROVE EndStep
  BY <1>8 DEF OwnerUnloads, OwnerLeaves
<1>9. ASSUME NEW o \in Owners, OwnerDrains(o) PROVE EndStep
  <2>1. OwnedBy(o) \in SUBSET kept
    BY DEF OwnedBy
  <2>. QED BY <1>9, <2>1, CancelEnds DEF OwnerDrains
<1>10. ASSUME NEW o \in Owners, OwnerDrained(o) PROVE EndStep
  BY <1>10 DEF OwnerDrained, AllSettled
<1>11. CASE ServiceDrains
  BY <1>11, CancelEnds DEF ServiceDrains
<1>12. CASE ServiceDrained
  BY <1>12 DEF ServiceDrained, AllSettled, Ledger, ServiceTrue
<1>13. CASE UNCHANGED vars
  BY <1>13 DEF vars
<1>. QED BY <1>1, <1>2, <1>3, <1>4, <1>5, <1>6, <1>7, <1>8, <1>9, <1>10, <1>11, <1>12, <1>13
         DEF Next, Calls, WaitMoves, ProducerMoves, TeardownEnds

\* A job ends once, keeps its record until then, and is announced only when
\* nobody has claimed its end and no counted wait is about to.
THEOREM EndsAlwaysOnce == Spec => EndsOnce
<1>1. TypeOK /\ Ledger /\ [Next]_vars => [EndStep]_vars
  BY EndNextStep
<1>. QED BY <1>1, TypeCorrect, LedgerAlways, PTL DEF Spec, EndsOnce, EndStep
-----------------------------------------------------------------------------
\* Delivery.

\* The end of j was handed to somebody, or a wait is about to hand it over.
Delivered(j) == told[j] # {} \/ \E w \in Waiters : wait[w].job = j /\ wait[w].at = "released"

\* The cancels of a teardown claim the ends they cause and take no wait away.
LEMMA CancelDelivers ==
    ASSUME TypeOK, Ledger, NobodyMisses, UNCHANGED <<kept, owner>>,
           NEW jobs \in SUBSET kept, NEW throwing \in SUBSET LiveIn(jobs),
           CancelForTeardown(jobs, throwing)
    PROVE  NobodyMisses'
<1>. SUFFICES ASSUME NEW j \in Jobs, IsTerminal(j)', owner[j] # NoOwner PROVE Delivered(j)'
  BY DEF NobodyMisses, Delivered
<1>1. jobs \in SUBSET Jobs
  BY DEF TypeOK
<1>2. CASE j \in LiveIn(jobs)
  BY <1>1, <1>2, CancelEffect DEF Delivered
<1>3. CASE j \notin LiveIn(jobs)
  <2>1. status'[j] = status[j] /\ told'[j] = told[j]
    BY <1>1, <1>3, CancelEffect
  <2>2. Delivered(j)
    BY <2>1 DEF NobodyMisses, Delivered, IsTerminal
  <2>3. \A w \in Waiters : wait[w].job = j /\ wait[w].at = "released"
                            => wait'[w].job = j /\ wait'[w].at = "released"
    BY DEF CancelForTeardown, ReleaseWaiters, TypeOK, WaitRecord
  <2>. QED BY <2>1, <2>2, <2>3 DEF Delivered
<1>. QED BY <1>2, <1>3

\* The settlement of a live job leaves it delivered: a counted waiter is
\* released, or the end was claimed, or the notice is sent.
LEMMA SettleDelivers ==
    ASSUME TypeOK, Ledger, NEW j \in kept, ~IsTerminal(j), SettleAgain(j, work[j]),
           work[j] \in Terminal, owner[j] # NoOwner
    PROVE  Delivered(j)'
<1>. USE DEF TypeOK
<1>0. Live(j) /\ j \in Jobs
  BY DEF Ledger, RecordsTrue, IsTerminal, Live
<1>1. CASE Counted(j) # {}
  <2>1. PICK w \in Waiters : wait[w].job = j /\ wait[w].counted
    BY <1>1 DEF Counted
  <2>2. wait[w].at \in {"waiting", "released"} /\ wait[w] \in WaitRecord
    BY <2>1 DEF Ledger, WaitersTrue, WaitRecord
  <2>3. wait'[w] = IF wait[w].at = "waiting" THEN [wait[w] EXCEPT !.at = "released"] ELSE wait[w]
    BY <2>1 DEF SettleAgain, ReleaseWaiters
  <2>4. wait'[w].job = j /\ wait'[w].at = "released"
    BY <2>1, <2>2, <2>3 DEF WaitRecord
  <2>. QED BY <2>4 DEF Delivered
<1>2. CASE Counted(j) = {} /\ reported[j]
  <2>1. told[j] # {}
    BY <1>0, <1>2 DEF Ledger, ClaimsTrue
  <2>2. told[j] \subseteq told'[j]
    BY <1>0 DEF SettleAgain, Told
  <2>. QED BY <2>1, <2>2 DEF Delivered
<1>3. CASE Counted(j) = {} /\ ~reported[j]
  <2>1. told[j] = {}
    BY <1>0, <1>3 DEF Ledger, ClaimsTrue
  <2>2. service = "up"
    BY <1>0, <2>1 DEF Ledger, ServiceTrue
  <2>3. Notifies(j)
    BY <1>0, <1>3, <2>2 DEF Notifies, SettleAgain
  <2>4. "notice" \in told'[j]
    BY <1>0, <2>3 DEF SettleAgain, Told
  <2>. QED BY <2>4 DEF Delivered
<1>. QED BY <1>1, <1>2, <1>3

\* Each step keeps every end delivered.
LEMMA MissStep == TypeOK /\ Ledger /\ NobodyMisses /\ [Next]_vars => NobodyMisses'
<1>. SUFFICES ASSUME TypeOK, Ledger, NobodyMisses, [Next]_vars PROVE NobodyMisses'
  OBVIOUS
<1>. USE DEF TypeOK, records, producers, teardown
\* Steps that end no job and keep every delivery.
<1>a. ASSUME UNCHANGED <<status, owner>>,
             \A j \in Jobs : IsTerminal(j) /\ Delivered(j) => Delivered(j)'
      PROVE  NobodyMisses'
  BY <1>a DEF NobodyMisses, Delivered, IsTerminal
<1>1. ASSUME NEW j \in Jobs, NEW b \in Buckets, Start(j, b) PROVE NobodyMisses'
  BY <1>1 DEF Start, NobodyMisses, IsTerminal, Terminal
<1>2. ASSUME NEW j \in Jobs, Read(j) PROVE NobodyMisses'
  <2>1. \A i \in Jobs : told[i] \subseteq told'[i]
    BY <1>2 DEF Read, Told
  <2>2. UNCHANGED <<status, owner, wait>>
    BY <1>2 DEF Read
  <2>. QED BY <2>1, <2>2, <1>a DEF Delivered
<1>3. ASSUME NEW j \in Jobs, Kill(j) PROVE NobodyMisses'
  <2>1. \A i \in Jobs : told[i] \subseteq told'[i]
    BY <1>3 DEF Kill, Told
  <2>2. \A i \in Jobs : IsTerminal(i)' => IsTerminal(i)
    BY <1>3 DEF Kill, KillLive, IsTerminal, Terminal
  <2>3. UNCHANGED <<owner, wait>>
    BY <1>3 DEF Kill
  <2>. QED BY <2>1, <2>2, <2>3 DEF NobodyMisses
<1>4. ASSUME NEW w \in Waiters, NEW j \in Jobs, WaitBegins(w, j) PROVE NobodyMisses'
  <2>1. UNCHANGED <<status, owner, told>>
    BY <1>4 DEF WaitBegins
  <2>2. \A v \in Waiters : wait[v].at = "released" => wait'[v] = wait[v]
    BY <1>4 DEF WaitBegins
  <2>. QED BY <2>1, <2>2, <1>a DEF Delivered
<1>5. ASSUME NEW w \in Waiters, WaitTimesOut(w) \/ WaitAborts(w) PROVE NobodyMisses'
  <2>1. UNCHANGED <<status, owner, told>>
    BY <1>5 DEF WaitTimesOut, WaitAborts
  <2>2. \A v \in Waiters : wait[v].at = "released" => wait'[v] = wait[v]
    BY <1>5 DEF WaitTimesOut, WaitAborts
  <2>. QED BY <2>1, <2>2, <1>a DEF Delivered
<1>6. ASSUME NEW w \in Waiters, WaitReturns(w) PROVE NobodyMisses'
  <2>. DEFINE r == wait[w].job
  <2>1. UNCHANGED <<status, owner>> /\ wait[w].at = "released"
    BY <1>6 DEF WaitReturns
  <2>2. \A i \in Jobs : told[i] \subseteq told'[i]
    BY <1>6 DEF WaitReturns, Told
  <2>3. IsTerminal(r) /\ r \in Jobs => "claim" \in told'[r]
    BY <1>6 DEF WaitReturns, Told
  <2>4. \A v \in Waiters : v # w => wait'[v] = wait[v]
    BY <1>6 DEF WaitReturns
  <2>5. ASSUME NEW j \in Jobs, IsTerminal(j), Delivered(j) PROVE Delivered(j)'
    <3>1. CASE told[j] # {}
      BY <2>2, <3>1 DEF Delivered
    <3>2. CASE j = r
      BY <2>3, <2>5, <3>2 DEF Delivered
    <3>3. CASE told[j] = {} /\ j # r
      <4>1. PICK v \in Waiters : wait[v].job = j /\ wait[v].at = "released"
        BY <2>5, <3>3 DEF Delivered
      <4>2. v # w
        BY <4>1, <3>3
      <4>. QED BY <2>4, <4>1, <4>2 DEF Delivered
    <3>. QED BY <3>1, <3>2, <3>3
  <2>. QED BY <2>1, <2>5, <1>a
<1>7. ASSUME NEW j \in Jobs, NEW outcome \in Terminal, ProducerEnds(j, outcome) PROVE NobodyMisses'
  BY <1>7, <1>a DEF ProducerEnds, Delivered
<1>8. ASSUME NEW j \in Jobs, DoneSettles(j) PROVE NobodyMisses'
  <2>1. CASE IsTerminal(j)
    <3>1. UNCHANGED <<status, owner, told, wait>>
      BY <1>8, <2>1 DEF DoneSettles, Settle
    <3>. QED BY <3>1, <1>a DEF Delivered
  <2>2. CASE ~IsTerminal(j)
    <3>1. SettleAgain(j, work[j]) /\ UNCHANGED owner /\ work[j] \in Terminal
      BY <1>8, <2>2 DEF DoneSettles, Settle
    <3>. SUFFICES ASSUME NEW i \in Jobs, IsTerminal(i)', owner[i] # NoOwner PROVE Delivered(i)'
      BY <3>1 DEF NobodyMisses, Delivered
    <3>2. CASE i = j
      <4>1. j \in kept
        BY <2>2, <3>1 DEF Ledger, RecordsTrue, IsTerminal, Terminal, Live
      <4>. QED BY <2>2, <3>1, <3>2, <4>1, SettleDelivers
    <3>3. CASE i # j
      <4>1. status'[i] = status[i] /\ told'[i] = told[i]
        BY <3>1, <3>3 DEF SettleAgain, Told
      <4>2. Delivered(i)
        BY <4>1 DEF NobodyMisses, Delivered, IsTerminal
      <4>3. \A w \in Waiters : wait[w].at = "released" => wait'[w] = wait[w]
        BY <3>1 DEF SettleAgain, ReleaseWaiters
      <4>. QED BY <4>1, <4>2, <4>3 DEF Delivered
    <3>. QED BY <3>2, <3>3
  <2>. QED BY <2>1, <2>2
<1>9. ASSUME NEW o \in Owners, OwnerUnloads(o) \/ OwnerDrained(o) \/ OwnerLeaves(o) PROVE NobodyMisses'
  <2>1. UNCHANGED <<status, owner, told, wait>>
    BY <1>9 DEF OwnerUnloads, OwnerDrained, OwnerLeaves
  <2>. QED BY <2>1, <1>a DEF Delivered
<1>10. ASSUME NEW o \in Owners, OwnerDrains(o) PROVE NobodyMisses'
  <2>1. OwnedBy(o) \in SUBSET kept /\ UNCHANGED <<kept, owner>>
    BY <1>10 DEF OwnerDrains, OwnedBy
  <2>. QED BY <1>10, <2>1, CancelDelivers DEF OwnerDrains
<1>11. CASE ServiceDrains
  BY <1>11, CancelDelivers DEF ServiceDrains
<1>12. CASE ServiceDrained
  BY <1>12, <1>a DEF ServiceDrained, Delivered
<1>13. CASE UNCHANGED vars
  BY <1>13, <1>a DEF vars, Delivered
<1>. QED BY <1>1, <1>2, <1>3, <1>4, <1>5, <1>6, <1>7, <1>8, <1>9, <1>10, <1>11, <1>12, <1>13
         DEF Next, Calls, WaitMoves, ProducerMoves, TeardownEnds

\* Nobody misses the end of an owned job, whichever deadlines and aborts race
\* its settlement.
THEOREM NobodyEverMisses == Spec => []NobodyMisses
<1>1. Init => NobodyMisses
  BY DEF Init, NobodyMisses, IsTerminal, Terminal
<1>. QED BY <1>1, MissStep, TypeCorrect, LedgerAlways, PTL DEF Spec
=============================================================================
