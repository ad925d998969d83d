--------------------------- MODULE GoalRoundsProofs ---------------------------
(***************************************************************************)
(* Proofs about GoalRounds for every set of caps and every bound.  The     *)
(* handlers of the model are functions from world to world; a lemma        *)
(* named ...Effect says what such a function changes and what it leaves,   *)
(* so that the invariants need not look inside it again.                   *)
(***************************************************************************)
EXTENDS GoalRounds, SequenceTheorems, FiniteSetTheorems, TLAPS

-----------------------------------------------------------------------------
(* The inductive invariant, in parts, as predicates of a world *)

Worlds == [goal : Goals, driver : Drivers, agent : Agents]
GoalPhases == {"none", "active", "paused", "blocked", "complete"}

\* Every commit numbers its revision, and a reservation of the current revision
\* is within its cap.
Refs(w) ==
    LET attempt == w.driver.attempt IN
    /\ w.goal.ref = w.goal.changes
    /\ attempt # None => /\ attempt.round.ref <= w.goal.ref
                         /\ attempt.round.ref = w.goal.ref => attempt.round.round <= w.goal.cap

\* A goal whose turn was aborted is not driven while the driver listens.
Halts(w) == w.goal.halted /\ Listening(w) => ~Driven(w.goal)

Sane(w) == (w.goal.armed => w.goal.phase = "active") /\ Refs(w) /\ Halts(w)

\* A turn claims its batch when it opens and has none of it left once it steps.
Resting(w) == w.agent.pc \in {"idle", "maintenance", "stepping"} => w.agent.batch = None

\* A driven goal with a change that is not stored owes a checkpoint, or one run
\* holds state.run and is in its flush.
Unstored(w) == Driven(w.goal) /\ Listening(w) /\ ~w.goal.stored
Owes(w) ==
    Unstored(w) =>
       /\ w.driver.loops <= (IF w.driver.run THEN 1 ELSE 0)
       /\ ~w.driver.needs => w.driver.run /\ w.driver.loops = 0 /\ w.driver.flushes > 0

\* Once the plugin stops, the turn it aborted holds the only round there is.
NoRounds(queue) == \A i \in DOMAIN queue : ~IsRound(queue[i])
Fence(w) ==
    Stopping(w) =>
       /\ NoRounds(w.agent.queue)
       /\ IsRound(w.agent.batch) => w.agent.aborted /\ w.driver.fiber = "unloading" /\ w.driver.joins

\* What the driver has decided to let in is what the log accepts next.
Accepts(g, m) == g.phase = "active" /\ g.ref = m.ref /\ m.round = g.rounds + 1 /\ m.round <= g.cap
Fits(w) == w.agent.pc = "decided" => IsRound(w.agent.batch) /\ Accepts(w.goal, w.agent.batch)

-----------------------------------------------------------------------------
(* What a handler leaves alone *)

SameDuty(w, v) == v.driver.fiber = w.driver.fiber /\ v.driver.joins = w.driver.joins
SameRuns(w, v) ==
    /\ v.driver.run = w.driver.run /\ v.driver.needs = w.driver.needs
    /\ v.driver.loops = w.driver.loops /\ v.driver.flushes = w.driver.flushes

\* The reservation is the one it was, perhaps marked, or it is gone.
KeepsRound(w, v) ==
    v.driver.attempt # None => w.driver.attempt # None /\ v.driver.attempt.round = w.driver.attempt.round

\* A handler that reserves nothing, whatever it does to the goal.
Plain(w, v) ==
    /\ v \in Worlds /\ SameDuty(w, v) /\ KeepsRound(w, v)
    /\ v.goal.halted = w.goal.halted /\ v.goal.corrupt = w.goal.corrupt
    /\ Sane(w) => Sane(v)
    /\ Owes(w) => Owes(v)

\* A handler that may reserve a round, but only of a goal that is not halted and
\* whose changes are stored.
Fair(w, v) ==
    /\ v \in Worlds /\ SameDuty(w, v)
    /\ v.goal.halted = w.goal.halted /\ v.goal.corrupt = w.goal.corrupt
    /\ Sane(w) => Sane(v) /\ (KeepsRound(w, v) \/ ~v.goal.halted)
    /\ Owes(w) => Owes(v) /\ (KeepsRound(w, v) \/ v.goal.stored)

\* An aborted turn leaves a goal that is driven still, if the driver's own
\* reservation is to pause it when the agent goes idle.
Stops(w) == w.driver.attempt # None /\ Pauses(w.driver.attempt)
NearlySane(w) ==
    /\ w.goal.armed => w.goal.phase = "active"
    /\ Refs(w)
    /\ w.goal.halted /\ Listening(w) /\ Driven(w.goal) => Stops(w)

\* A handler that settles an aborted turn, fair otherwise.
Settles(w, v) ==
    /\ v \in Worlds /\ SameDuty(w, v)
    /\ v.goal.halted = w.goal.halted /\ v.goal.corrupt = w.goal.corrupt
    /\ NearlySane(w) => Sane(v) /\ (KeepsRound(w, v) \/ ~v.goal.halted)
    /\ Owes(w) => Owes(v) /\ (KeepsRound(w, v) \/ v.goal.stored)

\* A handler that puts no round where none may be.
Harmless(w, v) == (Fence(w) => Fence(v)) /\ (Fits(w) => Fits(v)) /\ (Resting(w) => Resting(v))

\* The three steps that the history remembers.
Forgets(w, v) == v.goal.changes # w.goal.changes /\ ~(w.driver.loops <= (IF w.driver.run THEN 1 ELSE 0))
Loosens(w, v) ==
    /\ w.driver.fiber = "active" /\ v.driver.fiber = "unloading"
    /\ w.driver.attempt = None \/ Quiet(w)
Overtakes(w, v) == v.goal.changes # w.goal.changes /\ w.agent.pc = "decided"

\* What every action of the specification is shown to keep.
Moves(w, v) ==
    /\ v \in Worlds
    /\ Sane(w) /\ Resting(w) => Sane(v) /\ Resting(v) /\ (KeepsRound(w, v) \/ ~v.goal.halted)
    /\ Owes(w) => (Owes(v) \/ Forgets(w, v)) /\ (KeepsRound(w, v) \/ v.goal.stored)
    /\ Sane(w) /\ Resting(w) =>
          /\ Fence(w) => Fence(v) \/ Loosens(w, v)
          /\ Fits(w) => Fits(v) \/ Overtakes(w, v)
          /\ Fence(w) /\ Fits(w) /\ ~w.goal.corrupt => ~v.goal.corrupt

LEMMA FairMoves == ASSUME NEW w, NEW v, Fair(w, v), Harmless(w, v) PROVE Moves(w, v)
BY DEF Fair, Harmless, Moves

\* A plain handler before a fair one, or after it with the goal as it was, is fair.
LEMMA PlainThenFair == ASSUME NEW w, NEW u, NEW v, Plain(w, u), Fair(u, v) PROVE Fair(w, v)
BY DEF Plain, Fair, SameDuty, KeepsRound

LEMMA FairThenPlain ==
    ASSUME NEW w, NEW u, NEW v, Fair(w, u), Plain(u, v), v.goal = u.goal PROVE Fair(w, v)
BY DEF Plain, Fair, SameDuty, KeepsRound

LEMMA PlainIsFair == ASSUME NEW w, NEW v, Plain(w, v) PROVE Fair(w, v)
BY DEF Plain, Fair

LEMMA PlainThenPlain == ASSUME NEW w, NEW u, NEW v, Plain(w, u), Plain(u, v) PROVE Plain(w, v)
BY DEF Plain, SameDuty, KeepsRound

\* A handler that leaves goal and runs alone is plain.
LEMMA SameIsPlain ==
    ASSUME NEW w \in Worlds, NEW v \in Worlds, v.goal = w.goal, SameDuty(w, v), KeepsRound(w, v), SameRuns(w, v)
    PROVE  Plain(w, v)
<1>1. Listening(v) = Listening(w)
  BY DEF Listening, SameDuty
<1>2. Sane(w) => Sane(v)
  BY <1>1 DEF Sane, Refs, Halts, KeepsRound
<1>3. Owes(w) => Owes(v)
  BY <1>1 DEF Owes, Unstored, SameRuns
<1>. QED BY <1>2, <1>3 DEF Plain

\* The world that an action reaches.
LEMMA Reached == ASSUME NEW v \in Worlds, Becomes(v) PROVE World' = v
BY DEF Becomes, World, Worlds

-----------------------------------------------------------------------------
(* The goal service *)

\* Disarming takes the authority and nothing else.
LEMMA DisarmEffect ==
    ASSUME NEW w \in Worlds
    PROVE  LET v == Disarm(w) IN
           /\ v \in Worlds /\ v.driver = w.driver /\ v.agent = w.agent
           /\ ~v.goal.armed /\ v.goal.phase = w.goal.phase /\ v.goal.ref = w.goal.ref
           /\ v.goal.cap = w.goal.cap /\ v.goal.rounds = w.goal.rounds /\ v.goal.changes = w.goal.changes
           /\ v.goal.stored = w.goal.stored /\ v.goal.corrupt = w.goal.corrupt /\ v.goal.halted = w.goal.halted
BY DEF Disarm, Worlds, Goals

\* A commit numbers a new revision and leaves the driver and the agent alone.
LEMMA CommitEffect ==
    ASSUME NEW w \in Worlds, NEW p \in GoalPhases, NEW a \in BOOLEAN
    PROVE  LET v == Commit(w, p, a) IN
           /\ v \in Worlds /\ v.driver = w.driver /\ v.agent = w.agent
           /\ v.goal.phase = p /\ v.goal.armed = a
           /\ v.goal.ref = w.goal.changes + 1 /\ v.goal.changes = w.goal.changes + 1
           /\ v.goal.cap = w.goal.cap /\ v.goal.rounds = w.goal.rounds
           /\ ~v.goal.stored /\ v.goal.corrupt = w.goal.corrupt /\ v.goal.halted = w.goal.halted
<1>. DEFINE v == Commit(w, p, a)
            n == w.goal.changes + 1
<1>1. v.goal = [w.goal EXCEPT !.phase = p, !.armed = a, !.stored = FALSE, !.changes = n, !.ref = n]
  BY DEF Commit, Worlds
<1>2. v = [w EXCEPT !.goal = v.goal]
  BY DEF Commit, Worlds
<1>3. n \in Nat /\ w.goal \in Goals
  BY DEF Worlds, Goals
<1>. HIDE DEF v, n
<1>4. v.goal \in Goals
  BY <1>1, <1>3 DEF Goals, GoalPhases
<1>5. v \in Worlds /\ v.driver = w.driver /\ v.agent = w.agent
  BY <1>2, <1>4 DEF Worlds
<1>6. /\ v.goal.phase = p /\ v.goal.armed = a /\ v.goal.ref = n /\ v.goal.changes = n
      /\ v.goal.cap = w.goal.cap /\ v.goal.rounds = w.goal.rounds
      /\ ~v.goal.stored /\ v.goal.corrupt = w.goal.corrupt /\ v.goal.halted = w.goal.halted
  BY <1>1, <1>3 DEF Goals
<1>. QED BY <1>5, <1>6 DEF v, n

-----------------------------------------------------------------------------
(* Runs *)

\* A run that begins stands at the head of its loop.
LEMMA BeginsEffect ==
    ASSUME NEW w \in Worlds
    PROVE  LET v == Begins(w) IN
           /\ v \in Worlds /\ v.goal = w.goal /\ v.agent = w.agent /\ SameDuty(w, v)
           /\ v.driver.attempt = w.driver.attempt /\ v.driver.competing = w.driver.competing
           /\ v.driver.loops = w.driver.loops + 1 /\ v.driver.flushes = w.driver.flushes
           /\ v.driver.needs = w.driver.needs /\ v.driver.run = w.driver.run
<1>. DEFINE v == Begins(w)
<1>1. v.driver = [w.driver EXCEPT !.loops = w.driver.loops + 1, !.requested = FALSE]
  BY DEF Begins, Worlds
<1>2. v = [w EXCEPT !.driver = v.driver]
  BY DEF Begins, Worlds
<1>. HIDE DEF v
<1>3. w.driver \in Drivers /\ w.driver.loops + 1 \in Nat
  BY DEF Worlds, Drivers
<1>4. v.driver \in Drivers
  BY <1>1, <1>3 DEF Drivers
<1>. QED BY <1>1, <1>2, <1>3, <1>4 DEF Worlds, Drivers, v, SameDuty

\* A run that flushes leaves the head of its loop and clears the obligation.
LEMMA FlushesEffect ==
    ASSUME NEW w \in Worlds, w.driver.loops > 0
    PROVE  LET v == Flushes(w) IN
           /\ v \in Worlds /\ v.goal = w.goal /\ v.agent = w.agent /\ SameDuty(w, v)
           /\ v.driver.attempt = w.driver.attempt /\ v.driver.competing = w.driver.competing
           /\ v.driver.loops = w.driver.loops - 1 /\ v.driver.flushes = w.driver.flushes + 1
           /\ ~v.driver.needs /\ v.driver.run = w.driver.run
<1>. DEFINE v == Flushes(w)
            n == w.driver.loops - 1
            m == w.driver.flushes + 1
<1>1. v.driver = [w.driver EXCEPT !.needs = FALSE, !.loops = n, !.flushes = m]
  BY DEF Flushes, Worlds
<1>2. v = [w EXCEPT !.driver = v.driver]
  BY DEF Flushes, Worlds
<1>3. w.driver \in Drivers /\ n \in Nat /\ m \in Nat
  BY DEF Worlds, Drivers
<1>. HIDE DEF v, n, m
<1>4. v.driver \in Drivers
  BY <1>1, <1>3 DEF Drivers
<1>. QED BY <1>1, <1>2, <1>3, <1>4 DEF Worlds, Drivers, v, n, m, SameDuty

\* A run whose flush is over stands at the head of its loop again.
LEMMA FlushOverEffect ==
    ASSUME NEW w \in Worlds, w.driver.flushes > 0
    PROVE  LET v == FlushOver(w) IN
           /\ v \in Worlds /\ v.goal = w.goal /\ v.agent = w.agent /\ SameDuty(w, v)
           /\ v.driver.attempt = w.driver.attempt
<1>. DEFINE v == FlushOver(w)
            n == w.driver.loops + 1
            m == w.driver.flushes - 1
<1>1. v.driver = [w.driver EXCEPT !.loops = n, !.flushes = m]
  BY DEF FlushOver, Worlds
<1>2. v = [w EXCEPT !.driver = v.driver]
  BY DEF FlushOver, Worlds
<1>3. w.driver \in Drivers /\ n \in Nat /\ m \in Nat
  BY DEF Worlds, Drivers
<1>. HIDE DEF v, n, m
<1>4. v.driver \in Drivers
  BY <1>1, <1>3 DEF Drivers
<1>. QED BY <1>1, <1>2, <1>3, <1>4 DEF Worlds, Drivers, v, n, m, SameDuty

\* The flags that a run leaves for the next one and for those who ask for one.
Asks(w, b) == [w EXCEPT !.driver.requested = b]
Holds(w, b) == [w EXCEPT !.driver.run = b]

LEMMA AsksEffect ==
    ASSUME NEW w \in Worlds, NEW b \in BOOLEAN
    PROVE  LET v == Asks(w, b) IN
           /\ v \in Worlds /\ v.goal = w.goal /\ v.agent = w.agent /\ SameDuty(w, v) /\ SameRuns(w, v)
           /\ v.driver.attempt = w.driver.attempt /\ v.driver.competing = w.driver.competing
<1>1. Asks(w, b) \in Worlds
  BY DEF Asks, Worlds, Drivers
<1>. QED BY <1>1 DEF Asks, Worlds, Drivers, SameDuty, SameRuns

LEMMA HoldsEffect ==
    ASSUME NEW w \in Worlds, NEW b \in BOOLEAN
    PROVE  LET v == Holds(w, b) IN
           /\ v \in Worlds /\ v.goal = w.goal /\ v.agent = w.agent /\ SameDuty(w, v)
           /\ v.driver.attempt = w.driver.attempt /\ v.driver.competing = w.driver.competing
           /\ v.driver.loops = w.driver.loops /\ v.driver.flushes = w.driver.flushes
           /\ v.driver.needs = w.driver.needs /\ v.driver.run = b
<1>1. Holds(w, b) \in Worlds
  BY DEF Holds, Worlds, Drivers
<1>. QED BY <1>1 DEF Holds, Worlds, Drivers, SameDuty

\* A change marks its obligation.
LEMMA MarkEffect ==
    ASSUME NEW w \in Worlds
    PROVE  LET v == Mark(w) IN
           /\ v \in Worlds /\ v.goal = w.goal /\ v.agent = w.agent /\ SameDuty(w, v)
           /\ v.driver.attempt = w.driver.attempt /\ v.driver.competing = w.driver.competing
           /\ v.driver.loops = w.driver.loops /\ v.driver.flushes = w.driver.flushes
           /\ v.driver.needs /\ v.driver.run = w.driver.run
<1>1. Mark(w) \in Worlds
  BY DEF Mark, Worlds, Drivers
<1>. QED BY <1>1 DEF Mark, Worlds, Drivers, SameDuty

\* The goal/changed listener keeps the goal, the agent and the reservation, and
\* turns one run at most at the head of its loop into an obligation that is kept.
LEMMA GoalChangedEffect ==
    ASSUME NEW w \in Worlds
    PROVE  LET v == GoalChanged(w) IN
           /\ v \in Worlds /\ v.goal = w.goal /\ v.agent = w.agent /\ SameDuty(w, v)
           /\ v.driver.attempt = w.driver.attempt
           /\ w.driver.loops <= (IF w.driver.run THEN 1 ELSE 0) => Owes(v)
<1>. DEFINE marked == Mark(w)
            asked == Asks(marked, TRUE)
            begun == Holds(Begins(marked), TRUE)
            Settled(v) == /\ v \in Worlds /\ v.goal = w.goal /\ v.agent = w.agent /\ SameDuty(w, v)
                          /\ v.driver.attempt = w.driver.attempt
<1>nat. w.driver.loops \in Nat /\ w.driver.flushes \in Nat
  BY DEF Worlds, Drivers
<1>1. Settled(marked) /\ marked.driver.needs /\ marked.driver.loops = w.driver.loops /\ marked.driver.run = w.driver.run
  BY MarkEffect
<1>2. Settled(asked) /\ asked.driver.needs /\ asked.driver.loops = w.driver.loops /\ asked.driver.run = w.driver.run
  <2>. HIDE DEF marked
  <2>. QED BY <1>1, AsksEffect DEF SameDuty, SameRuns
<1>3. Settled(begun) /\ begun.driver.needs /\ begun.driver.loops = w.driver.loops + 1 /\ begun.driver.run
  <2>. DEFINE head == Begins(marked)
  <2>. HIDE DEF marked
  <2>1. Settled(head) /\ head.driver.needs /\ head.driver.loops = w.driver.loops + 1
    BY <1>1, BeginsEffect DEF SameDuty
  <2>. HIDE DEF head
  <2>2. begun = Holds(head, TRUE)
    BY DEF head
  <2>. HIDE DEF begun
  <2>. QED BY <2>1, <2>2, HoldsEffect DEF SameDuty
<1>4. /\ Settled(Flushes(begun)) /\ ~Flushes(begun).driver.needs /\ Flushes(begun).driver.loops = w.driver.loops
      /\ Flushes(begun).driver.run /\ Flushes(begun).driver.flushes > 0
  <2>. HIDE DEF begun
  <2>1. begun.driver.loops > 0 /\ begun.driver.flushes \in Nat
    BY <1>3, <1>nat DEF Worlds, Drivers
  <2>. QED BY <1>3, <1>nat, <2>1, FlushesEffect DEF SameDuty
<1>5. \/ ~Listening(w) /\ GoalChanged(w) = w
      \/ GoalChanged(w) = marked
      \/ w.driver.run /\ GoalChanged(w) = asked
      \/ ~w.driver.run /\ GoalChanged(w) \in {begun, Flushes(begun)}
  BY DEF GoalChanged, Asks, Holds
<1>. HIDE DEF marked, asked, begun
<1>6. SameDuty(w, w) /\ (~Listening(w) => Owes(w))
  BY DEF SameDuty, Owes, Unstored
<1>. QED BY <1>1, <1>2, <1>3, <1>4, <1>5, <1>6, <1>nat DEF Owes

-----------------------------------------------------------------------------
(* The reservation and the agent *)

\* The reservation becomes another mark of itself, or goes.
Attempt(w, a) == [w EXCEPT !.driver.attempt = a]

LEMMA AttemptEffect ==
    ASSUME NEW w \in Worlds, NEW a \in Attempts \cup {None}
    PROVE  LET v == Attempt(w, a) IN
           /\ v \in Worlds /\ v.goal = w.goal /\ v.agent = w.agent /\ SameDuty(w, v) /\ SameRuns(w, v)
           /\ v.driver.attempt = a /\ v.driver.competing = w.driver.competing
<1>1. Attempt(w, a) \in Worlds
  BY DEF Attempt, Worlds, Drivers
<1>. QED BY <1>1 DEF Attempt, Worlds, Drivers, SameDuty, SameRuns

\* Every mark leaves the round of a reservation what it was.
LEMMA MarksEffect ==
    ASSUME NEW w \in Worlds, w.driver.attempt # None
    PROVE  /\ \A p \in {"queued", "claimed", "admitted"} :
                LET a == [w.driver.attempt EXCEPT !.phase = p] IN
                /\ a \in Attempts /\ a.round = w.driver.attempt.round /\ a.cancelled = w.driver.attempt.cancelled
                /\ a.phase = p /\ [w EXCEPT !.driver.attempt.phase = p] = Attempt(w, a)
           /\ LET a == [w.driver.attempt EXCEPT !.cancelled = TRUE] IN
              /\ a \in Attempts /\ a.round = w.driver.attempt.round /\ a.cancelled
              /\ [w EXCEPT !.driver.attempt.cancelled = TRUE] = Attempt(w, a)
           /\ LET a == [w.driver.attempt EXCEPT !.stale = TRUE] IN
              /\ a \in Attempts /\ a.round = w.driver.attempt.round
              /\ [w EXCEPT !.driver.attempt.stale = TRUE] = Attempt(w, a)
<1>1. w.driver.attempt \in Attempts
  BY DEF Worlds, Drivers
<1>2. /\ \A p \in {"queued", "claimed", "admitted"} :
           LET a == [w.driver.attempt EXCEPT !.phase = p] IN
           a \in Attempts /\ a.round = w.driver.attempt.round /\ a.cancelled = w.driver.attempt.cancelled
             /\ a.phase = p
      /\ LET a == [w.driver.attempt EXCEPT !.cancelled = TRUE] IN
         a \in Attempts /\ a.round = w.driver.attempt.round /\ a.cancelled
      /\ LET a == [w.driver.attempt EXCEPT !.stale = TRUE] IN
         a \in Attempts /\ a.round = w.driver.attempt.round
  BY <1>1 DEF Attempts
<1>3. /\ \A p \in {"queued", "claimed", "admitted"} :
           [w EXCEPT !.driver.attempt.phase = p] = Attempt(w, [w.driver.attempt EXCEPT !.phase = p])
      /\ [w EXCEPT !.driver.attempt.cancelled = TRUE]
           = Attempt(w, [w.driver.attempt EXCEPT !.cancelled = TRUE])
      /\ [w EXCEPT !.driver.attempt.stale = TRUE] = Attempt(w, [w.driver.attempt EXCEPT !.stale = TRUE])
  BY DEF Attempt, Worlds, Drivers
<1>. QED BY <1>2, <1>3

\* The agent opens a turn with the head of its queue.
LEMMA OpenTurnEffect ==
    ASSUME NEW w \in Worlds
    PROVE  LET v == OpenTurn(w) IN
           /\ v \in Worlds /\ v.goal = w.goal /\ SameDuty(w, v) /\ SameRuns(w, v) /\ KeepsRound(w, v)
           /\ w.driver.attempt # None => v.driver.attempt.round = w.driver.attempt.round
           /\ v.agent.pc = "claimed"
           /\ w.agent.queue = <<>> => v.agent.batch = None /\ v.agent.queue = <<>>
           /\ w.agent.queue # <<>> => v.agent.batch = Head(w.agent.queue) /\ v.agent.queue = Tail(w.agent.queue)
<1>. DEFINE head == IF w.agent.queue = <<>> THEN None ELSE Head(w.agent.queue)
            rest == IF w.agent.queue = <<>> THEN w.agent.queue ELSE Tail(w.agent.queue)
            note == IF w.agent.note = "pending" THEN "claimed" ELSE w.agent.note
            a == [w.agent EXCEPT !.pc = "claimed", !.aborted = FALSE, !.latch = FALSE, !.batch = head,
                                 !.queue = rest, !.note = note]
            opened == [w EXCEPT !.agent = a]
            attempt == w.driver.attempt
<1>1. head \in Messages \cup {None} /\ rest \in Seq(Messages)
  <2>. w.agent.queue \in Seq(Messages)
    BY DEF Worlds, Agents
  <2>. QED BY HeadTailProperties
<1>2. note \in {"unsent", "pending", "claimed", "gone"} /\ w.agent \in Agents
  BY DEF Worlds, Agents
<1>3. a \in Agents /\ a.pc = "claimed" /\ a.batch = head /\ a.queue = rest
  <2>. HIDE DEF head, rest, note
  <2>. QED BY <1>1, <1>2 DEF Agents, InTurn
<1>4. OpenTurn(w) = IF Listening(w) /\ OwnRound(attempt, head)
                    THEN [opened EXCEPT !.driver.attempt.phase = "claimed"] ELSE opened
  BY DEF OpenTurn, Worlds, Agents
<1>. HIDE DEF a
<1>5. opened \in Worlds /\ opened.agent = a /\ opened.goal = w.goal /\ opened.driver = w.driver
  BY <1>3 DEF Worlds
<1>. HIDE DEF opened
<1>6. CASE Listening(w) /\ OwnRound(attempt, head)
  <2>1. opened.driver.attempt # None
    BY <1>5, <1>6 DEF OwnRound
  <2>. DEFINE b == [opened.driver.attempt EXCEPT !.phase = "claimed"]
  <2>2. /\ b \in Attempts /\ b.round = opened.driver.attempt.round
        /\ [opened EXCEPT !.driver.attempt.phase = "claimed"] = Attempt(opened, b)
    BY <1>5, <2>1, MarksEffect
  <2>3. OpenTurn(w) = Attempt(opened, b)
    BY <1>4, <1>6, <2>2
  <2>. HIDE DEF b
  <2>. QED BY <1>3, <1>5, <2>1, <2>2, <2>3, AttemptEffect DEF SameDuty, SameRuns, KeepsRound
<1>7. CASE ~(Listening(w) /\ OwnRound(attempt, head))
  BY <1>3, <1>4, <1>5, <1>7 DEF SameDuty, SameRuns, KeepsRound
<1>. QED BY <1>6, <1>7

LEMMA NoRoundsEnters ==
    ASSUME NEW q \in Seq(Messages), NoRounds(q), NEW m \in Messages, ~IsRound(m)
    PROVE  NoRounds(Append(q, m))
BY AppendProperties DEF NoRounds

LEMMA NoRoundsLeaves ==
    ASSUME NEW q \in Seq(Messages), NoRounds(q), q # <<>>
    PROVE  ~IsRound(Head(q)) /\ NoRounds(Tail(q))
<1>1. Head(q) = q[1] /\ 1 \in DOMAIN q
  OBVIOUS
<1>2. \A i \in DOMAIN Tail(q) : i + 1 \in DOMAIN q /\ Tail(q)[i] = q[i + 1]
  BY HeadTailProperties
<1>. QED BY <1>1, <1>2 DEF NoRounds

\* A handler that leaves the agent alone, and the goal's revision while the turn
\* has a decision, is harmless.
LEMMA SameAgentIsHarmless ==
    ASSUME NEW w, NEW v, v.agent = w.agent, SameDuty(w, v),
           \/ w.agent.pc # "decided"
           \/ /\ v.goal.phase = w.goal.phase /\ v.goal.ref = w.goal.ref
              /\ v.goal.rounds = w.goal.rounds /\ v.goal.cap = w.goal.cap
    PROVE  Harmless(w, v)
<1>1. Fence(w) => Fence(v)
  BY DEF Fence, Stopping, SameDuty
<1>2. Fits(w) => Fits(v)
  BY DEF Fits, Accepts
<1>3. Resting(w) => Resting(v)
  BY DEF Resting
<1>. QED BY <1>1, <1>2, <1>3 DEF Harmless

\* A turn that opens has no decision yet.
LEMMA OpenTurnHarmless ==
    ASSUME NEW w \in Worlds PROVE Harmless(w, OpenTurn(w))
<1>. DEFINE v == OpenTurn(w)
<1>1. /\ SameDuty(w, v) /\ v.agent.pc = "claimed"
      /\ w.agent.queue = <<>> => v.agent.batch = None /\ v.agent.queue = <<>>
      /\ w.agent.queue # <<>> => v.agent.batch = Head(w.agent.queue) /\ v.agent.queue = Tail(w.agent.queue)
  BY OpenTurnEffect
<1>. HIDE DEF v
<1>2. w.agent.queue \in Seq(Messages)
  BY DEF Worlds, Agents
<1>3. NoRounds(w.agent.queue) => NoRounds(v.agent.queue) /\ ~IsRound(v.agent.batch)
  BY <1>1, <1>2, NoRoundsLeaves DEF NoRounds, IsRound
<1>4. Fence(w) => Fence(v)
  BY <1>1, <1>3 DEF Fence, Stopping, SameDuty
<1>5. (Fits(w) => Fits(v)) /\ (Resting(w) => Resting(v))
  BY <1>1 DEF Fits, Resting
<1>. QED BY <1>4, <1>5 DEF Harmless, v

\* A message that is sent joins the queue, and opens a turn if the agent is idle.
LEMMA SendEffect ==
    ASSUME NEW w \in Worlds, NEW m \in Messages
    PROVE  LET v == Send(w, m) IN
           /\ v \in Worlds /\ v.goal = w.goal /\ SameDuty(w, v) /\ SameRuns(w, v) /\ KeepsRound(w, v)
           /\ ~IsRound(m) \/ ~Stopping(w) => Harmless(w, v)
<1>. DEFINE attempt == w.driver.attempt
            q == Append(w.agent.queue, m)
            queued == [w EXCEPT !.agent = [w.agent EXCEPT !.queue = q]]
            competes == [queued EXCEPT !.driver.competing = TRUE]
            heard == IF ~Listening(w) \/ OwnRound(attempt, m) THEN queued
                     ELSE IF attempt # None /\ attempt.phase = "queued"
                          THEN [competes EXCEPT !.driver.attempt.stale = TRUE] ELSE competes
            latched == [heard EXCEPT !.agent.latch = TRUE]
            Keeps(v) == /\ v \in Worlds /\ v.goal = w.goal /\ SameDuty(w, v) /\ SameRuns(w, v)
                        /\ KeepsRound(w, v)
            Queues(v) == /\ v.agent.pc = w.agent.pc /\ v.agent.batch = w.agent.batch /\ v.agent.queue = q
                         /\ v.agent.aborted = w.agent.aborted
<1>1. w.agent \in Agents /\ w.agent.queue \in Seq(Messages) /\ q \in Seq(Messages)
  BY AppendProperties DEF Worlds, Agents
<1>2. Keeps(queued) /\ Queues(queued) /\ queued.driver = w.driver
  <2>. HIDE DEF q
  <2>1. [w.agent EXCEPT !.queue = q] \in Agents
    BY <1>1 DEF Agents
  <2>2. Queues(queued)
    BY <1>1 DEF Worlds, Agents
  <2>. QED BY <2>1, <2>2 DEF Worlds, SameDuty, SameRuns, KeepsRound
<1>3. Keeps(competes) /\ Queues(competes) /\ competes.driver.attempt = attempt
  <2>. HIDE DEF queued
  <2>1. competes \in Worlds
    BY <1>2 DEF Worlds, Drivers
  <2>. QED BY <1>2, <2>1 DEF Worlds, Drivers, SameDuty, SameRuns, KeepsRound
<1>4. Keeps(heard) /\ Queues(heard)
  <2>. HIDE DEF queued, competes
  <2>1. CASE attempt # None /\ attempt.phase = "queued" /\ ~(~Listening(w) \/ OwnRound(attempt, m))
    <3>. DEFINE a == [competes.driver.attempt EXCEPT !.stale = TRUE]
    <3>. HIDE DEF competes
    <3>1. /\ a \in Attempts /\ a.round = competes.driver.attempt.round
          /\ [competes EXCEPT !.driver.attempt.stale = TRUE] = Attempt(competes, a)
      <4>1. competes.driver.attempt # None
        BY <1>3, <2>1
      <4>. QED BY <1>3, <4>1, MarksEffect
    <3>2. heard = Attempt(competes, a)
      BY <2>1, <3>1
    <3>. HIDE DEF a, heard
    <3>. QED BY <1>3, <2>1, <3>1, <3>2, AttemptEffect DEF SameDuty, SameRuns, KeepsRound
  <2>2. CASE ~(attempt # None /\ attempt.phase = "queued" /\ ~(~Listening(w) \/ OwnRound(attempt, m)))
    BY <1>2, <1>3, <2>2
  <2>. QED BY <2>1, <2>2
<1>5. Keeps(latched) /\ Queues(latched)
  <2>. HIDE DEF heard
  <2>1. latched \in Worlds /\ latched.goal = heard.goal /\ latched.driver = heard.driver
    BY <1>4 DEF Worlds, Agents
  <2>2. Queues(latched)
    BY <1>4 DEF Worlds, Agents
  <2>. QED BY <1>4, <2>1, <2>2 DEF SameDuty, SameRuns, KeepsRound
<1>6. Send(w, m) = IF w.agent.pc = "idle" THEN OpenTurn(heard)
                   ELSE IF w.agent.pc = "maintenance" \/ w.agent.aborted THEN latched ELSE heard
  <2>1. queued = [w EXCEPT !.agent.queue = Append(@, m)]
    BY DEF Worlds, Agents
  <2>. HIDE DEF queued
  <2>. QED BY <2>1 DEF Send
<1>. HIDE DEF heard, latched
<1>7. ASSUME NEW v, Keeps(v), Queues(v), ~IsRound(m) \/ ~Stopping(w)
      PROVE  Harmless(w, v)
  <2>1. Fence(w) => Fence(v)
    BY <1>1, <1>7, NoRoundsEnters DEF Fence, Stopping, SameDuty
  <2>2. (Fits(w) => Fits(v)) /\ (Resting(w) => Resting(v))
    BY <1>7 DEF Fits, Resting
  <2>. QED BY <2>1, <2>2 DEF Harmless
<1>8. Keeps(OpenTurn(heard))
  BY <1>4, OpenTurnEffect DEF SameDuty, SameRuns, KeepsRound
<1>9. ASSUME ~IsRound(m) \/ ~Stopping(w) PROVE Harmless(w, OpenTurn(heard))
  <2>1. Harmless(w, heard) /\ Harmless(heard, OpenTurn(heard))
    BY <1>4, <1>7, <1>9, OpenTurnHarmless
  <2>. QED BY <2>1 DEF Harmless
<1>. QED BY <1>4, <1>5, <1>6, <1>7, <1>8, <1>9

\* Some number up to one more than the queue is long is no id of its messages.
LEMMA UnusedIdExists ==
    ASSUME NEW q \in Seq(Messages)
    PROVE  UnusedId(q) \in Nat /\ \A i \in DOMAIN q : q[i].id # UnusedId(q)
<1>. DEFINE f == [i \in 1..Len(q) |-> q[i].id]
            S == {f[i] : i \in 1..Len(q)}
            T == 1..(Len(q) + 1)
<1>1. IsFiniteSet(1..Len(q)) /\ Cardinality(1..Len(q)) = Len(q)
  <2>. HIDE DEF f, S, T
  <2>1. Len(q) \in Nat
    OBVIOUS
  <2>. QED BY <2>1, FS_Interval
<1>2. f \in Surjection(1..Len(q), S)
  BY DEF Surjection
<1>3. IsFiniteSet(S) /\ Cardinality(S) <= Len(q)
  BY <1>1, <1>2, FS_Surjection
<1>4. IsFiniteSet(T) /\ Cardinality(T) = Len(q) + 1
  BY FS_Interval
<1>5. \E id \in T : id \notin S
  <2>1. SUFFICES ASSUME T \subseteq S PROVE FALSE
    OBVIOUS
  <2>2. Cardinality(T) <= Cardinality(S)
    BY <1>3, <2>1, FS_Subset
  <2>. QED BY <1>3, <1>4, <2>2, FS_CardinalityType
<1>6. \E id \in T : \A i \in DOMAIN q : q[i].id # id
  BY <1>5
<1>. QED BY <1>6 DEF UnusedId

-----------------------------------------------------------------------------
(* drive() and requestDrive() *)

\* A change that takes the driver's authority is plain.
LEMMA ClosesEffect ==
    ASSUME NEW w \in Worlds, NEW p \in GoalPhases
    PROVE  LET v == GoalChanged(Commit(w, p, FALSE)) IN
           /\ Plain(w, v) /\ v.agent = w.agent /\ v.driver.attempt = w.driver.attempt
           /\ ~v.goal.armed /\ v.goal.ref = w.goal.changes + 1 /\ v.goal.changes = w.goal.changes + 1
           /\ v.goal.phase = p /\ (Refs(w) => Sane(v))
<1>. DEFINE u == Commit(w, p, FALSE)
            v == GoalChanged(u)
<1>1. /\ u \in Worlds /\ u.driver = w.driver /\ u.agent = w.agent /\ ~u.goal.armed /\ u.goal.phase = p
      /\ u.goal.ref = w.goal.changes + 1 /\ u.goal.changes = w.goal.changes + 1
      /\ u.goal.corrupt = w.goal.corrupt /\ u.goal.halted = w.goal.halted
  BY CommitEffect
<1>. HIDE DEF u
<1>2. /\ v \in Worlds /\ v.goal = u.goal /\ v.agent = u.agent /\ SameDuty(u, v)
      /\ v.driver.attempt = u.driver.attempt
  BY <1>1, GoalChangedEffect
<1>. HIDE DEF v
<1>3. w.goal.changes \in Nat
  BY DEF Worlds, Goals
<1>4. ASSUME Refs(w) PROVE Sane(v)
  <2>2. w.driver.attempt # None => w.driver.attempt.round.ref \in Nat
    BY DEF Worlds, Drivers, Attempts, Messages
  <2>3. Refs(v)
    BY <1>1, <1>2, <1>3, <1>4, <2>2 DEF Refs
  <2>. QED BY <1>1, <1>2, <2>3 DEF Sane, Halts, Driven
<1>5. Owes(v)
  BY <1>1, <1>2 DEF Owes, Unstored, Driven
<1>6. Sane(w) => Refs(w)
  BY DEF Sane
<1>. QED BY <1>1, <1>2, <1>4, <1>5, <1>6 DEF Plain, SameDuty, KeepsRound, u, v

\* What drive() does from the checkpoint on: it reserves a round only of a goal
\* that is driven and below its cap.
LEMMA DriveOnEffect ==
    ASSUME NEW w \in Worlds, Ready(w), NEW accepted \in BOOLEAN
    PROVE  LET v == DriveOn(w, accepted) IN
           /\ v \in Worlds /\ SameDuty(w, v)
           /\ v.goal.halted = w.goal.halted /\ v.goal.corrupt = w.goal.corrupt
           /\ Sane(w) => Sane(v) /\ (KeepsRound(w, v) \/ ~v.goal.halted)
           /\ ~Unstored(w) => ~Unstored(v) /\ (KeepsRound(w, v) \/ v.goal.stored)
           /\ Harmless(w, v)
<1>. DEFINE v == DriveOn(w, accepted)
<1>1. ~Stopping(w) /\ Listening(w) /\ w.agent.pc # "decided"
  BY DEF Ready, Stopping, Listening, Quiet
<1>2. CASE w.driver.attempt # None
  <2>1. v = DropAttempt(w)
    BY <1>2 DEF DriveOn
  <2>. HIDE DEF v
  <2>2. /\ v.driver = [w.driver EXCEPT !.attempt = None, !.needs = TRUE, !.requested = TRUE]
        /\ v = [w EXCEPT !.driver = v.driver] /\ w.driver \in Drivers
    BY <2>1 DEF DropAttempt, Worlds
  <2>typed. v.driver \in Drivers
    BY <2>2 DEF Drivers
  <2>3. v \in Worlds /\ v.goal = w.goal /\ v.agent = w.agent /\ SameDuty(w, v) /\ KeepsRound(w, v)
    BY <2>2, <2>typed DEF Worlds, Drivers, SameDuty, KeepsRound
  <2>4. Listening(v) = Listening(w)
    BY <2>3 DEF Listening, SameDuty
  <2>5. (Sane(w) => Sane(v)) /\ (Unstored(v) <=> Unstored(w))
    BY <2>3, <2>4 DEF Sane, Refs, Halts, KeepsRound, Unstored
  <2>. QED BY <2>2, <2>3, <2>5, SameAgentIsHarmless DEF v
<1>3. CASE w.driver.attempt = None /\ (v = w \/ v = Block(w))
  <2>. HIDE DEF v
  <2>1. CASE v = w
    BY <2>1 DEF Harmless, SameDuty, KeepsRound, v
  <2>2. CASE v = Block(w)
    <3>1. Plain(w, v) /\ v.agent = w.agent /\ ~v.goal.armed
      BY <2>2, ClosesEffect DEF Block, GoalPhases
    <3>2. ~Unstored(v)
      BY <3>1 DEF Unstored, Driven
    <3>3. Harmless(w, v)
      BY <1>1, <3>1, SameAgentIsHarmless DEF Plain
    <3>. QED BY <3>1, <3>2, <3>3 DEF Plain, v
  <2>. QED BY <1>3, <2>1, <2>2
<1>4. CASE w.driver.attempt = None /\ v # w /\ v # Block(w)
  <2>. DEFINE m == RoundOf(w.goal.ref, w.goal.rounds + 1, UnusedId(w.agent.queue))
              u == Attempt(w, Reservation(m))
  <2>1. v = Send(u, m) /\ Driven(w.goal) /\ ~(w.goal.rounds >= w.goal.cap)
    BY <1>4 DEF DriveOn, Reserve, Attempt
  <2>. HIDE DEF v
  <2>2. /\ w.goal.rounds \in Nat /\ w.goal.cap \in Nat /\ w.goal.ref \in Nat
        /\ w.agent.queue \in Seq(Messages)
    BY DEF Worlds, Goals, Agents
  <2>3. m \in Messages /\ m.ref = w.goal.ref /\ m.round = w.goal.rounds + 1
    BY <2>2, UnusedIdExists DEF RoundOf, Messages
  <2>. HIDE DEF m
  <2>4. Reservation(m) \in Attempts /\ Reservation(m).round = m
    BY <2>3 DEF Reservation, Attempts
  <2>5. /\ u \in Worlds /\ u.goal = w.goal /\ u.agent = w.agent /\ SameDuty(w, u) /\ SameRuns(w, u)
        /\ u.driver.attempt = Reservation(m)
    BY <2>4, AttemptEffect
  <2>. HIDE DEF u
  <2>6. ~Stopping(u)
    BY <1>1, <2>5 DEF Stopping, SameDuty
  <2>7. /\ v \in Worlds /\ v.goal = w.goal /\ SameDuty(w, v) /\ SameRuns(w, v) /\ KeepsRound(u, v)
        /\ Harmless(u, v)
    BY <2>1, <2>3, <2>5, <2>6, SendEffect DEF SameDuty, SameRuns
  <2>8. Harmless(w, v)
    BY <2>5, <2>7, SameAgentIsHarmless DEF Harmless
  <2>9. Listening(v)
    BY <1>1, <2>7 DEF Listening, SameDuty
  <2>10. ASSUME Sane(w) PROVE Sane(v) /\ ~v.goal.halted
    <3>1. Refs(v)
      BY <1>4, <2>1, <2>2, <2>3, <2>4, <2>5, <2>7, <2>10 DEF Sane, Refs, KeepsRound
    <3>2. ~v.goal.halted
      BY <1>1, <2>1, <2>7, <2>10 DEF Sane, Halts
    <3>. QED BY <2>7, <2>10, <3>1, <3>2 DEF Sane, Halts
  <2>11. ASSUME ~Unstored(w) PROVE ~Unstored(v) /\ v.goal.stored
    BY <1>1, <2>1, <2>7, <2>9, <2>11 DEF Unstored
  <2>. QED BY <2>7, <2>8, <2>10, <2>11 DEF v
<1>. QED BY <1>2, <1>3, <1>4

\* A run at the head of its loop stays there, flushes, or drives on.
LEMMA DriveEffect ==
    ASSUME NEW w \in Worlds, w.driver.loops > 0, NEW accepted \in BOOLEAN
    PROVE  LET v == Drive(w, accepted) IN
           /\ v \in Worlds /\ SameDuty(w, v)
           /\ v.goal.halted = w.goal.halted /\ v.goal.corrupt = w.goal.corrupt
           /\ Sane(w) => Sane(v) /\ (KeepsRound(w, v) \/ ~v.goal.halted)
           /\ Harmless(w, v)
           /\ \/ v = w
              \/ w.driver.needs /\ v = Flushes(w)
              \/ /\ ~w.driver.needs /\ ~Stopping(w)
                 /\ ~Unstored(w) => ~Unstored(v) /\ (KeepsRound(w, v) \/ v.goal.stored)
<1>. DEFINE v == Drive(w, accepted)
<1>1. CASE v = w
  BY <1>1 DEF Harmless, SameDuty, KeepsRound
<1>2. CASE Ready(w) /\ w.driver.needs
  <2>1. v = Flushes(w)
    BY <1>2 DEF Drive
  <2>. HIDE DEF v
  <2>2. /\ v \in Worlds /\ v.goal = w.goal /\ v.agent = w.agent /\ SameDuty(w, v)
        /\ v.driver.attempt = w.driver.attempt
    BY <2>1, FlushesEffect
  <2>3. Sane(w) => Sane(v)
    BY <2>2 DEF Sane, Refs, Halts, Listening, SameDuty
  <2>4. Harmless(w, v)
    BY <2>2, SameAgentIsHarmless
  <2>. QED BY <1>2, <2>1, <2>2, <2>3, <2>4 DEF KeepsRound, v
<1>3. CASE Ready(w) /\ ~w.driver.needs
  <2>1. v = DriveOn(w, accepted)
    BY <1>3 DEF Drive
  <2>. HIDE DEF v
  <2>2. /\ v \in Worlds /\ SameDuty(w, v)
        /\ v.goal.halted = w.goal.halted /\ v.goal.corrupt = w.goal.corrupt
        /\ Sane(w) => Sane(v) /\ (KeepsRound(w, v) \/ ~v.goal.halted)
        /\ ~Unstored(w) => ~Unstored(v) /\ (KeepsRound(w, v) \/ v.goal.stored)
        /\ Harmless(w, v)
    BY <1>3, <2>1, DriveOnEffect
  <2>3. ~Stopping(w)
    BY <1>3 DEF Ready
  <2>. QED BY <1>3, <2>2, <2>3 DEF v
<1>4. ~Ready(w) => v = w
  BY DEF Drive
<1>. HIDE DEF v
<1>. QED BY <1>1, <1>2, <1>3, <1>4

\* A request for a run does nothing once the plugin stops; else it asks the run
\* in progress to loop, or begins one.
LEMMA RequestDriveEffect ==
    ASSUME NEW w \in Worlds, NEW accepted \in BOOLEAN
    PROVE  LET v == RequestDrive(w, accepted) IN
           Fair(w, v) /\ Harmless(w, v) /\ (~Quiet(w) => Plain(w, v) /\ v.agent = w.agent)
<1>. DEFINE v == RequestDrive(w, accepted)
            b == Begins(w)
            x == Drive(b, accepted)
            y == Holds(x, TRUE)
<1>1. CASE v = w
  BY <1>1 DEF Fair, Plain, Harmless, SameDuty, KeepsRound
<1>2. CASE v = Asks(w, TRUE)
  <2>. HIDE DEF v
  <2>1. /\ v \in Worlds /\ v.goal = w.goal /\ v.agent = w.agent /\ SameDuty(w, v) /\ SameRuns(w, v)
        /\ v.driver.attempt = w.driver.attempt
    BY <1>2, AsksEffect
  <2>2. Plain(w, v)
    BY <2>1, SameIsPlain DEF KeepsRound
  <2>. QED BY <2>1, <2>2, PlainIsFair, SameAgentIsHarmless DEF v
<1>3. CASE ~Stopping(w) /\ ~w.driver.run /\ v = y
  <2>1. w.driver.loops \in Nat /\ w.driver.flushes \in Nat
    BY DEF Worlds, Drivers
  <2>2. /\ b \in Worlds /\ b.goal = w.goal /\ b.agent = w.agent /\ SameDuty(w, b)
        /\ b.driver.attempt = w.driver.attempt
        /\ b.driver.loops = w.driver.loops + 1 /\ b.driver.flushes = w.driver.flushes
        /\ b.driver.needs = w.driver.needs
    BY BeginsEffect
  <2>. HIDE DEF b
  <2>3. b.driver.loops > 0
    BY <2>1, <2>2
  <2>4. /\ x \in Worlds /\ SameDuty(b, x)
        /\ x.goal.halted = b.goal.halted /\ x.goal.corrupt = b.goal.corrupt
        /\ Sane(b) => Sane(x) /\ (KeepsRound(b, x) \/ ~x.goal.halted)
        /\ Harmless(b, x)
        /\ \/ x = b
           \/ b.driver.needs /\ x = Flushes(b)
           \/ /\ ~b.driver.needs /\ ~Stopping(b)
              /\ ~Unstored(b) => ~Unstored(x) /\ (KeepsRound(b, x) \/ x.goal.stored)
    BY <2>2, <2>3, DriveEffect
  <2>5. x = Flushes(b) => /\ x.goal = b.goal /\ ~x.driver.needs /\ x.driver.attempt = b.driver.attempt
                          /\ x.driver.loops = b.driver.loops - 1 /\ x.driver.flushes = b.driver.flushes + 1
    BY <2>2, <2>3, FlushesEffect
  <2>. HIDE DEF x
  <2>6. /\ y \in Worlds /\ y.goal = x.goal /\ y.agent = x.agent /\ SameDuty(x, y)
        /\ y.driver.attempt = x.driver.attempt /\ y.driver.loops = x.driver.loops
        /\ y.driver.flushes = x.driver.flushes /\ y.driver.needs = x.driver.needs /\ y.driver.run
    BY <2>4, HoldsEffect
  <2>. HIDE DEF y, v
  <2>7. SameDuty(w, y) /\ y.goal.halted = w.goal.halted /\ y.goal.corrupt = w.goal.corrupt
    BY <2>2, <2>4, <2>6 DEF SameDuty
  <2>8. Listening(w) /\ Listening(b) /\ Listening(x) /\ Listening(y)
    BY <1>3, <2>2, <2>4, <2>7 DEF Listening, Stopping, SameDuty
  <2>9. KeepsRound(b, x) => KeepsRound(w, y)
    BY <2>2, <2>6 DEF KeepsRound
  <2>10. Sane(w) => Sane(y) /\ (KeepsRound(w, y) \/ ~y.goal.halted)
    <3>1. (Sane(w) => Sane(b)) /\ (Sane(x) => Sane(y))
      BY <2>2, <2>6, <2>8 DEF Sane, Refs, Halts
    <3>. QED BY <2>4, <2>6, <2>9, <3>1
  <2>11. ASSUME Owes(w) PROVE Owes(y) /\ (KeepsRound(w, y) \/ y.goal.stored)
    <3>1. CASE x = b
      BY <1>3, <2>1, <2>2, <2>6, <2>8, <2>11, <3>1 DEF Owes, Unstored, KeepsRound
    <3>2. CASE x = Flushes(b)
      BY <1>3, <2>1, <2>2, <2>5, <2>6, <2>8, <2>11, <3>2 DEF Owes, Unstored, KeepsRound
    <3>3. CASE ~b.driver.needs /\ (~Unstored(b) => ~Unstored(x) /\ (KeepsRound(b, x) \/ x.goal.stored))
      <4>1. ~Unstored(w)
        BY <1>3, <2>2, <2>11, <3>3 DEF Owes
      <4>2. ~Unstored(b) /\ (~Unstored(x) => ~Unstored(y))
        BY <2>2, <2>6, <2>8, <4>1 DEF Unstored
      <4>. QED BY <2>6, <2>9, <3>3, <4>2 DEF Owes
    <3>. QED BY <2>4, <3>1, <3>2, <3>3
  <2>12. Harmless(w, y)
    <3>1. Harmless(w, b) /\ Harmless(x, y)
      BY <2>2, <2>6, SameAgentIsHarmless
    <3>. QED BY <2>4, <3>1 DEF Harmless
  <2>13. Fair(w, y)
    BY <2>6, <2>7, <2>10, <2>11 DEF Fair
  <2>14. ~Quiet(w) => y.agent = w.agent /\ KeepsRound(w, y)
    <3>1. ~Quiet(w) => x = b
      BY <2>2 DEF Drive, Ready, Quiet, x
    <3>. QED BY <2>2, <2>6, <3>1 DEF KeepsRound
  <2>. QED BY <1>3, <2>12, <2>13, <2>14 DEF Fair, Plain, v
<1>4. v = w \/ v = Asks(w, TRUE) \/ (~Stopping(w) /\ ~w.driver.run /\ v = y)
  BY DEF RequestDrive, Asks, Holds
<1>. HIDE DEF v
<1>. QED BY <1>1, <1>2, <1>3, <1>4

-----------------------------------------------------------------------------
(* The edges of a turn *)

\* What touches the agent only is plain.
LEMMA AgentOnlyIsPlain ==
    ASSUME NEW w \in Worlds, NEW v \in Worlds, v.goal = w.goal, v.driver = w.driver
    PROVE  Plain(w, v) /\ (NearlySane(w) => NearlySane(v))
<1>1. Plain(w, v)
  BY SameIsPlain DEF SameDuty, SameRuns, KeepsRound
<1>2. NearlySane(w) => NearlySane(v)
  BY DEF NearlySane, Refs, Listening, Stops
<1>. QED BY <1>1, <1>2

\* At idle the driver pauses a goal whose round was stopped, else it drives.
LEMMA HearsIdleEffect ==
    ASSUME NEW w \in Worlds, NEW accepted \in BOOLEAN, w.agent.pc # "decided"
    PROVE  LET v == HearsIdle(w, accepted) IN
           Settles(w, v) /\ Harmless(w, v)
<1>. DEFINE v == HearsIdle(w, accepted)
            rested == [w EXCEPT !.driver.competing = FALSE]
            dropped == Attempt(rested, None)
            paused == PauseGoal(dropped)
            pauses == w.driver.attempt # None /\ Pauses(w.driver.attempt) /\ Driven(w.goal)
<1>1. CASE ~Listening(w)
  <2>1. v = w
    BY <1>1 DEF HearsIdle
  <2>2. NearlySane(w) => Sane(w)
    BY <1>1 DEF NearlySane, Sane, Halts
  <2>. QED BY <2>1, <2>2 DEF Settles, Harmless, SameDuty, KeepsRound
<1>2. /\ rested \in Worlds /\ rested.goal = w.goal /\ rested.agent = w.agent /\ SameDuty(w, rested)
      /\ SameRuns(w, rested) /\ rested.driver.attempt = w.driver.attempt
  <2>1. rested \in Worlds
    BY DEF Worlds, Drivers
  <2>. QED BY <2>1 DEF Worlds, Drivers, SameDuty, SameRuns
<1>. HIDE DEF rested
<1>3. Plain(w, rested) /\ Harmless(w, rested)
  BY <1>2, SameIsPlain, SameAgentIsHarmless DEF KeepsRound
<1>4. CASE Listening(w) /\ ~pauses
  <2>1. v = RequestDrive(rested, accepted)
    BY <1>4 DEF HearsIdle, rested
  <2>. HIDE DEF v
  <2>2. Fair(rested, v) /\ Harmless(rested, v)
    BY <1>2, <2>1, RequestDriveEffect
  <2>3. Fair(w, v) /\ Harmless(w, v)
    BY <1>3, <2>2, PlainThenFair DEF Harmless
  <2>4. NearlySane(w) => Sane(w)
    BY <1>4 DEF NearlySane, Sane, Halts, Stops
  <2>. QED BY <2>3, <2>4 DEF Fair, Settles, v
<1>5. CASE Listening(w) /\ pauses
  <2>1. v = RequestDrive(paused, accepted)
    BY <1>5 DEF HearsIdle, rested, Attempt
  <2>. HIDE DEF v
  <2>2. /\ dropped \in Worlds /\ dropped.goal = w.goal /\ dropped.agent = w.agent /\ SameDuty(w, dropped)
        /\ SameRuns(w, dropped) /\ dropped.driver.attempt = None
    BY <1>2, AttemptEffect DEF SameDuty, SameRuns
  <2>. HIDE DEF dropped
  <2>3. Plain(w, dropped) /\ Harmless(w, dropped)
    BY <2>2, SameIsPlain, SameAgentIsHarmless DEF KeepsRound
  <2>4. /\ Plain(dropped, paused) /\ paused.agent = dropped.agent /\ (Refs(dropped) => Sane(paused))
        /\ paused.driver.attempt = None
    BY <2>2, ClosesEffect DEF PauseGoal, GoalPhases
  <2>. HIDE DEF paused
  <2>5. Harmless(dropped, paused)
    BY <2>2, <2>4, SameAgentIsHarmless DEF Plain
  <2>6. Fair(paused, v) /\ Harmless(paused, v)
    BY <2>1, <2>4, RequestDriveEffect DEF Plain
  <2>7. Fair(w, v) /\ Harmless(w, v)
    BY <2>3, <2>4, <2>5, <2>6, PlainThenPlain, PlainThenFair DEF Harmless
  <2>8. ASSUME NearlySane(w) PROVE Sane(v) /\ (KeepsRound(w, v) \/ ~v.goal.halted)
    <3>1. Refs(dropped)
      BY <2>2, <2>8 DEF NearlySane, Refs
    <3>2. Sane(v) /\ (KeepsRound(paused, v) \/ ~v.goal.halted)
      BY <2>4, <2>6, <3>1 DEF Fair
    <3>. QED BY <2>4, <3>2 DEF KeepsRound
  <2>. QED BY <2>7, <2>8 DEF Fair, Settles, v
<1>. HIDE DEF v
<1>. QED BY <1>1, <1>4, <1>5

\* The driver of the agent leaves, the driver of rounds hears it, and a latched
\* wake is replayed.
LEMMA GoIdleEffect ==
    ASSUME NEW w \in Worlds, NEW accepted \in BOOLEAN
    PROVE  LET v == GoIdle(w, accepted) IN
           Settles(w, v) /\ Harmless(w, v)
<1>. DEFINE note == IF w.agent.note = "claimed" THEN "gone" ELSE w.agent.note
            a == [w.agent EXCEPT !.pc = "idle", !.aborted = FALSE, !.latch = FALSE, !.batch = None, !.note = note]
            rests == [w EXCEPT !.agent = a]
            idle == HearsIdle(rests, accepted)
            v == GoIdle(w, accepted)
<1>1. v \in {idle, OpenTurn(idle)}
  <2>1. rests = [w EXCEPT !.agent.pc = "idle", !.agent.aborted = FALSE, !.agent.latch = FALSE,
                          !.agent.batch = None, !.agent.note = IF @ = "claimed" THEN "gone" ELSE @]
    BY DEF Worlds, Agents
  <2>. HIDE DEF rests
  <2>. QED BY <2>1 DEF GoIdle
<1>2. /\ a \in Agents /\ a.pc = "idle" /\ a.queue = w.agent.queue /\ a.batch = None
  <2>1. note \in {"unsent", "pending", "claimed", "gone"} /\ w.agent \in Agents
    BY DEF Worlds, Agents
  <2>. HIDE DEF note
  <2>. QED BY <2>1 DEF Agents
<1>. HIDE DEF a
<1>3. rests \in Worlds /\ rests.goal = w.goal /\ rests.driver = w.driver /\ rests.agent = a
  BY <1>2 DEF Worlds
<1>. HIDE DEF rests, v
<1>4. Plain(w, rests) /\ (NearlySane(w) => NearlySane(rests))
  BY <1>3, AgentOnlyIsPlain
<1>5. Harmless(w, rests)
  BY <1>2, <1>3 DEF Harmless, Fence, Fits, Resting, Stopping, IsRound
<1>6. Settles(rests, idle) /\ Harmless(rests, idle)
  BY <1>2, <1>3, HearsIdleEffect
<1>. HIDE DEF idle
<1>7. Settles(w, idle) /\ Harmless(w, idle)
  <2>1. KeepsRound(rests, idle) => KeepsRound(w, idle)
    BY <1>4 DEF Plain, KeepsRound
  <2>. QED BY <1>4, <1>5, <1>6, <2>1 DEF Plain, Settles, Harmless, SameDuty
<1>8. ASSUME v = OpenTurn(idle) PROVE Settles(w, v) /\ Harmless(w, v)
  <2>1. idle \in Worlds
    BY <1>7 DEF Settles
  <2>2. v \in Worlds /\ v.goal = idle.goal /\ SameDuty(idle, v) /\ SameRuns(idle, v) /\ KeepsRound(idle, v)
    BY <1>8, <2>1, OpenTurnEffect
  <2>3. Plain(idle, v) /\ Harmless(idle, v)
    BY <1>8, <2>1, <2>2, SameIsPlain, OpenTurnHarmless
  <2>. QED BY <1>7, <2>2, <2>3 DEF Settles, Plain, Harmless, SameDuty, KeepsRound
<1>. QED BY <1>1, <1>7, <1>8 DEF v

-----------------------------------------------------------------------------
(* Runs and flushes continue *)

LEMMA RunLoopsMoves ==
    ASSUME World \in Worlds, NEW accepted \in BOOLEAN, RunLoops(accepted)
    PROVE  Moves(World, World')
<1>. DEFINE w == World
            asked == Asks(w, FALSE)
            v == Drive(asked, accepted)
            d == [w.driver EXCEPT !.loops = w.driver.loops - 1, !.run = FALSE]
            gone == [w EXCEPT !.driver = d]
<1>1. w.driver.loops > 0 /\ w.driver.loops \in Nat /\ w.driver.flushes \in Nat
  BY DEF RunLoops, World, Worlds, Drivers
<1>2. Becomes(v) \/ Becomes(gone)
  BY DEF RunLoops, Asks, Worlds
<1>. HIDE DEF w
<1>3. CASE Becomes(v)
  <2>1. /\ asked \in Worlds /\ asked.goal = w.goal /\ asked.agent = w.agent /\ SameDuty(w, asked)
        /\ SameRuns(w, asked) /\ asked.driver.attempt = w.driver.attempt
    BY AsksEffect DEF w
  <2>. HIDE DEF asked
  <2>2. asked.driver.loops > 0 /\ asked.driver.loops \in Nat /\ asked.driver.flushes \in Nat
    BY <1>1, <2>1 DEF SameRuns
  <2>3. Plain(w, asked) /\ Harmless(w, asked)
    BY <2>1, SameIsPlain, SameAgentIsHarmless DEF KeepsRound, w
  <2>4. /\ v \in Worlds /\ SameDuty(asked, v)
        /\ v.goal.halted = asked.goal.halted /\ v.goal.corrupt = asked.goal.corrupt
        /\ Sane(asked) => Sane(v) /\ (KeepsRound(asked, v) \/ ~v.goal.halted)
        /\ Harmless(asked, v)
        /\ \/ v = asked
           \/ asked.driver.needs /\ v = Flushes(asked)
           \/ /\ ~asked.driver.needs /\ ~Stopping(asked)
              /\ ~Unstored(asked) => ~Unstored(v) /\ (KeepsRound(asked, v) \/ v.goal.stored)
    BY <2>1, <2>2, DriveEffect
  <2>5. v = Flushes(asked) => /\ v.goal = asked.goal /\ ~v.driver.needs /\ v.driver.attempt = asked.driver.attempt
                              /\ v.driver.run = asked.driver.run
                              /\ v.driver.loops = asked.driver.loops - 1
                              /\ v.driver.flushes = asked.driver.flushes + 1
    BY <2>1, <2>2, FlushesEffect
  <2>. HIDE DEF v
  <2>6. ASSUME Owes(asked) PROVE Owes(v) /\ (KeepsRound(asked, v) \/ v.goal.stored)
    <3>1. CASE v = asked
      BY <2>6, <3>1 DEF KeepsRound
    <3>2. CASE asked.driver.needs /\ v = Flushes(asked)
      <4>1. KeepsRound(asked, v) /\ Listening(v) = Listening(asked)
        BY <2>4, <2>5, <3>2 DEF KeepsRound, Listening, SameDuty
      <4>2. Owes(v)
        BY <2>2, <2>5, <2>6, <3>2, <4>1 DEF Owes, Unstored
      <4>. QED BY <4>1, <4>2
    <3>3. CASE ~asked.driver.needs /\ (~Unstored(asked) => ~Unstored(v) /\ (KeepsRound(asked, v) \/ v.goal.stored))
      <4>1. ~Unstored(asked)
        BY <2>2, <2>6, <3>3 DEF Owes
      <4>. QED BY <3>3, <4>1 DEF Owes
    <3>. QED BY <2>4, <3>1, <3>2, <3>3
  <2>7. Fair(asked, v)
    BY <2>4, <2>6 DEF Fair
  <2>8. Moves(w, v)
    BY <2>3, <2>4, <2>7, PlainThenFair, FairMoves DEF Harmless
  <2>9. World' = v
    BY <1>3, <2>4, Reached
  <2>. QED BY <2>8, <2>9 DEF w
<1>4. CASE Becomes(gone)
  <2>1. w.driver.loops - 1 \in Nat /\ w.driver \in Drivers /\ w \in Worlds
    BY <1>1 DEF Worlds, w
  <2>. DEFINE n == w.driver.loops - 1
  <2>2. d \in Drivers /\ d.loops = n /\ d.flushes = w.driver.flushes /\ d.needs = w.driver.needs
        /\ d.attempt = w.driver.attempt /\ d.fiber = w.driver.fiber /\ d.joins = w.driver.joins /\ ~d.run
    <3>. HIDE DEF n
    <3>1. d = [w.driver EXCEPT !.loops = n, !.run = FALSE] /\ n \in Nat
      BY <2>1 DEF n
    <3>. HIDE DEF d
    <3>. QED BY <2>1, <3>1 DEF Drivers
  <2>. HIDE DEF d
  <2>3. gone \in Worlds /\ gone.goal = w.goal /\ gone.agent = w.agent /\ gone.driver = d
    BY <2>1, <2>2 DEF Worlds
  <2>. HIDE DEF gone
  <2>4. KeepsRound(w, gone) /\ SameDuty(w, gone) /\ Listening(gone) = Listening(w)
    BY <2>2, <2>3 DEF KeepsRound, SameDuty, Listening
  <2>5. Sane(w) => Sane(gone)
    BY <2>2, <2>3, <2>4 DEF Sane, Refs, Halts
  <2>6. Owes(w) => Owes(gone)
    BY <1>1, <2>2, <2>3, <2>4 DEF Owes, Unstored
  <2>7. Fair(w, gone) /\ Harmless(w, gone)
    BY <2>3, <2>4, <2>5, <2>6, SameAgentIsHarmless DEF Fair
  <2>8. World' = gone
    BY <1>4, <2>3, Reached
  <2>. QED BY <2>7, <2>8, FairMoves DEF w
<1>. QED BY <1>2, <1>3, <1>4

\* A flush that settles leaves nothing unstored, so the run may drive on.
LEMMA FlushSettlesMoves ==
    ASSUME World \in Worlds, NEW accepted \in BOOLEAN, FlushSettles(accepted)
    PROVE  Moves(World, World')
<1>. DEFINE w == World
            over == FlushOver(w)
            stored == [over EXCEPT !.goal.stored = TRUE]
            v == IF ReadyAfterCheckpoint(stored) THEN DriveOn(stored, accepted) ELSE stored
<1>1. w.driver.flushes > 0 /\ w \in Worlds /\ Becomes(v)
  BY DEF FlushSettles, World
<1>. HIDE DEF w
<1>2. /\ over \in Worlds /\ over.goal = w.goal /\ over.agent = w.agent /\ SameDuty(w, over)
      /\ over.driver.attempt = w.driver.attempt
  BY <1>1, FlushOverEffect
<1>. HIDE DEF over
<1>3. /\ stored \in Worlds /\ stored.driver = over.driver /\ stored.agent = w.agent /\ stored.goal.stored
      /\ stored.goal.halted = w.goal.halted /\ stored.goal.corrupt = w.goal.corrupt
      /\ stored.goal.phase = w.goal.phase /\ stored.goal.ref = w.goal.ref /\ stored.goal.cap = w.goal.cap
      /\ stored.goal.armed = w.goal.armed /\ stored.goal.rounds = w.goal.rounds
      /\ stored.goal.changes = w.goal.changes
  BY <1>2 DEF Worlds, Goals
<1>. HIDE DEF stored
<1>4. SameDuty(w, stored) /\ KeepsRound(w, stored) /\ Listening(stored) = Listening(w)
  BY <1>2, <1>3 DEF SameDuty, KeepsRound, Listening
<1>5. Harmless(w, stored) /\ ~Unstored(stored) /\ (Sane(w) => Sane(stored))
  <2>1. Harmless(w, stored)
    BY <1>3, <1>4, SameAgentIsHarmless
  <2>2. Sane(w) => Sane(stored)
    BY <1>2, <1>3, <1>4 DEF Sane, Refs, Halts, Driven
  <2>. QED BY <1>3, <2>1, <2>2 DEF Unstored
<1>6. Fair(w, stored)
  BY <1>3, <1>4, <1>5 DEF Fair, Owes
<1>7. CASE v = stored
  BY <1>1, <1>3, <1>5, <1>6, <1>7, FairMoves, Reached DEF w
<1>8. CASE ReadyAfterCheckpoint(stored) /\ v = DriveOn(stored, accepted)
  <2>. HIDE DEF v
  <2>1. /\ v \in Worlds /\ SameDuty(stored, v)
        /\ v.goal.halted = stored.goal.halted /\ v.goal.corrupt = stored.goal.corrupt
        /\ Sane(stored) => Sane(v) /\ (KeepsRound(stored, v) \/ ~v.goal.halted)
        /\ ~Unstored(stored) => ~Unstored(v) /\ (KeepsRound(stored, v) \/ v.goal.stored)
        /\ Harmless(stored, v)
    BY <1>3, <1>8, DriveOnEffect DEF ReadyAfterCheckpoint
  <2>2. KeepsRound(stored, v) => KeepsRound(w, v)
    BY <1>4 DEF KeepsRound
  <2>3. Fair(w, v)
    BY <1>3, <1>4, <1>5, <2>1, <2>2 DEF Fair, Owes, SameDuty
  <2>4. Harmless(w, v)
    BY <1>5, <2>1 DEF Harmless
  <2>5. World' = v
    BY <1>1, <2>1, Reached
  <2>. QED BY <2>3, <2>4, <2>5, FairMoves DEF w
<1>. QED BY <1>7, <1>8

\* A flush that fails takes the authority.
LEMMA FlushFailsMoves ==
    ASSUME World \in Worlds, FlushFails
    PROVE  Moves(World, World')
<1>. DEFINE w == World
            over == FlushOver(w)
            v == Disarm(over)
<1>1. w.driver.flushes > 0 /\ w \in Worlds /\ Becomes(v)
  BY DEF FlushFails, World
<1>. HIDE DEF w
<1>2. /\ over \in Worlds /\ over.goal = w.goal /\ over.agent = w.agent /\ SameDuty(w, over)
      /\ over.driver.attempt = w.driver.attempt
  BY <1>1, FlushOverEffect
<1>. HIDE DEF over
<1>3. /\ v \in Worlds /\ v.driver = over.driver /\ v.agent = over.agent /\ ~v.goal.armed
      /\ v.goal.phase = w.goal.phase /\ v.goal.ref = w.goal.ref /\ v.goal.cap = w.goal.cap
      /\ v.goal.rounds = w.goal.rounds /\ v.goal.changes = w.goal.changes
      /\ v.goal.corrupt = w.goal.corrupt /\ v.goal.halted = w.goal.halted
  BY <1>2, DisarmEffect
<1>. HIDE DEF v
<1>4. SameDuty(w, v) /\ KeepsRound(w, v)
  BY <1>2, <1>3 DEF SameDuty, KeepsRound
<1>5. (Sane(w) => Sane(v)) /\ Owes(v)
  BY <1>2, <1>3 DEF Sane, Refs, Halts, Driven, Owes, Unstored
<1>6. Fair(w, v) /\ Harmless(w, v)
  BY <1>2, <1>3, <1>4, <1>5, SameAgentIsHarmless DEF Fair
<1>7. World' = v
  BY <1>1, <1>3, Reached
<1>. QED BY <1>6, <1>7, FairMoves DEF w

-----------------------------------------------------------------------------
(* The turn ends *)

\* The injected note returns to the inbox, and nothing else moves.
LEMMA RestoreEffect ==
    ASSUME NEW w \in Worlds
    PROVE  LET v == Restore(w) IN
           /\ v \in Worlds /\ v.goal = w.goal /\ v.driver = w.driver /\ v.agent.pc = w.agent.pc
           /\ v.agent.batch = w.agent.batch /\ Plain(w, v) /\ Harmless(w, v)
<1>. DEFINE v == Restore(w)
            note == IF w.agent.note = "claimed" THEN "pending" ELSE w.agent.note
            a == [w.agent EXCEPT !.note = note]
<1>1. v = [w EXCEPT !.agent = a]
  BY DEF Restore, Worlds, Agents
<1>2. note \in {"unsent", "pending", "claimed", "gone"} /\ w.agent \in Agents
  BY DEF Worlds, Agents
<1>. HIDE DEF note, v
<1>3. /\ a \in Agents /\ a.pc = w.agent.pc /\ a.batch = w.agent.batch /\ a.queue = w.agent.queue
      /\ a.aborted = w.agent.aborted
  BY <1>2 DEF Agents
<1>. HIDE DEF a
<1>4. v \in Worlds /\ v.goal = w.goal /\ v.driver = w.driver /\ v.agent = a
  BY <1>1, <1>3 DEF Worlds
<1>5. Harmless(w, v)
  BY <1>3, <1>4 DEF Harmless, Fence, Stopping, Fits, Resting
<1>. QED BY <1>3, <1>4, <1>5, AgentOnlyIsPlain DEF v

\* The turn goes to another place in the pipeline before its step.
Stands(w, p) == [w EXCEPT !.agent.pc = p]

LEMMA StandsEffect ==
    ASSUME NEW w \in Worlds, NEW p \in {"claimed", "checked", "rejecting"}
    PROVE  LET v == Stands(w, p) IN
           v \in Worlds /\ v.goal = w.goal /\ Plain(w, v) /\ Harmless(w, v)
<1>. DEFINE v == Stands(w, p)
<1>1. v \in Worlds
  BY DEF Stands, Worlds, Agents, InTurn
<1>2. /\ v.goal = w.goal /\ v.driver = w.driver /\ v.agent.pc = p /\ v.agent.batch = w.agent.batch
      /\ v.agent.queue = w.agent.queue /\ v.agent.aborted = w.agent.aborted
  BY DEF Stands, Worlds, Agents
<1>. HIDE DEF v
<1>3. Harmless(w, v)
  BY <1>2 DEF Harmless, Fence, Stopping, Fits, Resting
<1>. QED BY <1>1, <1>2, <1>3, AgentOnlyIsPlain DEF v

\* The end of an aborted turn, as the driver hears it: its own reservation is
\* marked, or the goal loses its authority.
LEMMA HearsAbortEffect ==
    ASSUME NEW w \in Worlds
    PROVE  LET v == HearsAbort([w EXCEPT !.goal.halted = w.goal.halted \/ Driven(w.goal)]) IN
           /\ v \in Worlds /\ SameDuty(w, v) /\ KeepsRound(w, v) /\ v.agent = w.agent
           /\ v.goal.corrupt = w.goal.corrupt
           /\ Sane(w) => NearlySane(v)
           /\ Owes(w) => Owes(v)
           /\ Harmless(w, v)
<1>. DEFINE h == w.goal.halted \/ Driven(w.goal)
            u == [w EXCEPT !.goal.halted = h]
            v == HearsAbort(u)
<1>1. h \in BOOLEAN
  BY DEF Driven
<1>2. /\ u \in Worlds /\ u.driver = w.driver /\ u.agent = w.agent
      /\ u.goal.phase = w.goal.phase /\ u.goal.ref = w.goal.ref /\ u.goal.cap = w.goal.cap
      /\ u.goal.rounds = w.goal.rounds /\ u.goal.changes = w.goal.changes /\ u.goal.armed = w.goal.armed
      /\ u.goal.stored = w.goal.stored /\ u.goal.corrupt = w.goal.corrupt
  <2>. HIDE DEF h
  <2>. QED BY <1>1 DEF Worlds, Goals
<1>. HIDE DEF u
<1>3. Harmless(w, u) /\ SameDuty(w, u) /\ SameRuns(w, u) /\ (Owes(w) => Owes(u))
      /\ (Sane(w) => Refs(u) /\ (u.goal.armed => u.goal.phase = "active"))
  <2>1. SameDuty(w, u) /\ SameRuns(w, u)
    BY <1>2 DEF SameDuty, SameRuns
  <2>2. Owes(w) => Owes(u)
    BY <1>2 DEF Owes, Unstored, Driven, Listening
  <2>3. Sane(w) => Refs(u) /\ (u.goal.armed => u.goal.phase = "active")
    BY <1>2 DEF Sane, Refs
  <2>. QED BY <1>2, <2>1, <2>2, <2>3, SameAgentIsHarmless
<1>4. CASE ~Listening(u)
  <2>1. v = u
    BY <1>4 DEF HearsAbort
  <2>. QED BY <1>2, <1>3, <1>4, <2>1 DEF NearlySane, KeepsRound, u
<1>5. CASE Listening(u) /\ u.driver.attempt # None /\ u.driver.attempt.phase \in {"claimed", "admitted"}
  <2>. DEFINE a == [u.driver.attempt EXCEPT !.cancelled = TRUE]
  <2>1. a \in Attempts /\ a.round = u.driver.attempt.round /\ a.cancelled
        /\ [u EXCEPT !.driver.attempt.cancelled = TRUE] = Attempt(u, a)
    BY <1>2, <1>5, MarksEffect
  <2>2. v = Attempt(u, a)
    BY <1>5, <2>1 DEF HearsAbort
  <2>. HIDE DEF a, v
  <2>3. /\ v \in Worlds /\ v.goal = u.goal /\ v.agent = u.agent /\ SameDuty(u, v) /\ SameRuns(u, v)
        /\ v.driver.attempt = a
    BY <1>2, <2>1, <2>2, AttemptEffect
  <2>4. KeepsRound(u, v) /\ KeepsRound(w, v)
    BY <1>2, <1>5, <2>1, <2>3 DEF KeepsRound
  <2>5. Plain(u, v) /\ Harmless(u, v)
    BY <1>2, <2>3, <2>4, SameIsPlain, SameAgentIsHarmless
  <2>6. Stops(v)
    BY <2>1, <2>3, NoneAssumption DEF Stops, Pauses
  <2>7. Sane(w) => NearlySane(v)
    <3>1. Sane(w) => Refs(v)
      BY <1>3, <1>5, <2>1, <2>3 DEF Refs
    <3>. QED BY <1>3, <2>3, <2>6, <3>1 DEF NearlySane
  <2>. QED BY <1>2, <1>3, <2>3, <2>4, <2>5, <2>7 DEF Plain, Harmless, SameDuty, u, v
<1>6. CASE Listening(u) /\ ~(u.driver.attempt # None /\ u.driver.attempt.phase \in {"claimed", "admitted"})
  <2>1. v = Disarm(u)
    BY <1>6 DEF HearsAbort
  <2>. HIDE DEF v
  <2>2. /\ v \in Worlds /\ v.driver = u.driver /\ v.agent = u.agent /\ ~v.goal.armed
        /\ v.goal.phase = u.goal.phase /\ v.goal.ref = u.goal.ref /\ v.goal.cap = u.goal.cap
        /\ v.goal.rounds = u.goal.rounds /\ v.goal.changes = u.goal.changes
        /\ v.goal.corrupt = u.goal.corrupt
    BY <1>2, <2>1, DisarmEffect
  <2>3. SameDuty(u, v) /\ KeepsRound(w, v) /\ Owes(v)
    BY <1>2, <2>2 DEF SameDuty, KeepsRound, Owes, Unstored, Driven
  <2>4. Harmless(u, v)
    BY <2>2, <2>3, SameAgentIsHarmless
  <2>5. Sane(w) => NearlySane(v)
    BY <1>3, <2>2 DEF NearlySane, Refs, Driven
  <2>. QED BY <1>2, <1>3, <2>2, <2>3, <2>4, <2>5 DEF Harmless, SameDuty, u, v
<1>. HIDE DEF v
<1>. QED BY <1>4, <1>5, <1>6

\* Disarming is plain.
LEMMA DisarmIsPlain ==
    ASSUME NEW w \in Worlds
    PROVE  Disarm(w) \in Worlds /\ Plain(w, Disarm(w)) /\ Harmless(w, Disarm(w))
<1>. DEFINE v == Disarm(w)
<1>1. /\ v \in Worlds /\ v.driver = w.driver /\ v.agent = w.agent /\ ~v.goal.armed
      /\ v.goal.phase = w.goal.phase /\ v.goal.ref = w.goal.ref /\ v.goal.cap = w.goal.cap
      /\ v.goal.rounds = w.goal.rounds /\ v.goal.changes = w.goal.changes
      /\ v.goal.corrupt = w.goal.corrupt /\ v.goal.halted = w.goal.halted
  BY DisarmEffect
<1>. HIDE DEF v
<1>2. SameDuty(w, v) /\ KeepsRound(w, v) /\ Owes(v) /\ (Sane(w) => Sane(v))
  BY <1>1 DEF SameDuty, KeepsRound, Owes, Unstored, Driven, Sane, Refs, Halts
<1>3. Harmless(w, v)
  BY <1>1, <1>2, SameAgentIsHarmless
<1>. QED BY <1>1, <1>2, <1>3 DEF Plain, v

\* A settled turn is a fair one.
LEMMA SettlesIsFair == ASSUME NEW w, NEW v, Settles(w, v) PROVE Fair(w, v)
<1>1. Sane(w) => NearlySane(w)
  BY DEF Sane, NearlySane, Halts
<1>. QED BY <1>1 DEF Settles, Fair

\* A plain and harmless handler, then the end of the turn.
LEMMA GoIdleMoves ==
    ASSUME World \in Worlds, NEW u \in Worlds, Plain(World, u), Harmless(World, u), NEW accepted \in BOOLEAN,
           World' = GoIdle(u, accepted)
    PROVE  Moves(World, World')
<1>. DEFINE v == GoIdle(u, accepted)
<1>1. Settles(u, v) /\ Harmless(u, v)
  BY GoIdleEffect
<1>. HIDE DEF v
<1>2. Fair(World, v) /\ Harmless(World, v)
  BY <1>1, SettlesIsFair, PlainThenFair DEF Harmless
<1>. QED BY <1>2, FairMoves DEF v

\* The turn of an idle world is one too.
LEMMA GoIdleIsWorld ==
    ASSUME NEW u \in Worlds, NEW accepted \in BOOLEAN PROVE GoIdle(u, accepted) \in Worlds
BY GoIdleEffect DEF Settles

LEMMA TurnAbortsMoves ==
    ASSUME World \in Worlds, NEW accepted \in BOOLEAN, TurnAborts(accepted)
    PROVE  Moves(World, World')
<1>1. PICK w \in {World, Restore(World)} :
         Becomes(GoIdle(HearsAbort([w EXCEPT !.goal.halted = w.goal.halted \/ Driven(goal)]), accepted))
  <2>1. \A w \in {World, Restore(World)} :
           [w EXCEPT !.goal.halted = @ \/ Driven(goal)] = [w EXCEPT !.goal.halted = w.goal.halted \/ Driven(goal)]
    <3>1. World \in Worlds /\ Restore(World) \in Worlds
      BY RestoreEffect
    <3>. QED BY <3>1 DEF Worlds, Goals
  <2>. QED BY <2>1 DEF TurnAborts
<1>2. /\ w \in Worlds /\ Plain(World, w) /\ Harmless(World, w) /\ w.goal = goal
  <2>1. World.goal = goal
    BY DEF World
  <2>2. CASE w = World
    BY <2>1, <2>2, AgentOnlyIsPlain DEF Harmless
  <2>3. CASE w = Restore(World)
    BY <2>1, <2>3, RestoreEffect
  <2>. QED BY <1>1, <2>2, <2>3
<1>. DEFINE u == HearsAbort([w EXCEPT !.goal.halted = w.goal.halted \/ Driven(w.goal)])
            v == GoIdle(u, accepted)
<1>3. /\ u \in Worlds /\ SameDuty(w, u) /\ KeepsRound(w, u) /\ u.agent = w.agent
      /\ u.goal.corrupt = w.goal.corrupt
      /\ Sane(w) => NearlySane(u)
      /\ Owes(w) => Owes(u)
      /\ Harmless(w, u)
  BY <1>2, HearsAbortEffect
<1>4. Becomes(v)
  BY <1>1, <1>2
<1>. HIDE DEF u
<1>5. Settles(u, v) /\ Harmless(u, v)
  BY <1>3, GoIdleEffect
<1>6. World' = v
  BY <1>3, <1>4, GoIdleIsWorld, Reached
<1>. HIDE DEF v
<1>7. KeepsRound(u, v) => KeepsRound(World, v)
  BY <1>2, <1>3 DEF Plain, KeepsRound
<1>8. Harmless(World, v)
  BY <1>2, <1>3, <1>5 DEF Harmless
<1>. QED BY <1>2, <1>3, <1>5, <1>6, <1>7, <1>8 DEF Settles, Plain, Moves, Harmless

LEMMA TurnFailsMoves ==
    ASSUME World \in Worlds, NEW accepted \in BOOLEAN, TurnFails(accepted)
    PROVE  Moves(World, World')
<1>. DEFINE dropped == Attempt(World, None)
            w == IF agent.pc = "checked" /\ Listening(World) THEN RequestDrive(dropped, accepted) ELSE World
            u == IF Listening(w) THEN Disarm(w) ELSE w
<1>1. Becomes(GoIdle(u, accepted))
  BY DEF TurnFails, Attempt
<1>2. w \in Worlds /\ Plain(World, w) /\ Harmless(World, w)
  <2>1. CASE agent.pc = "checked" /\ Listening(World)
    <3>1. /\ dropped \in Worlds /\ dropped.goal = World.goal /\ dropped.agent = World.agent
          /\ SameDuty(World, dropped) /\ SameRuns(World, dropped) /\ dropped.driver.attempt = None
      BY AttemptEffect
    <3>2. World.agent.pc = "checked" /\ w = RequestDrive(dropped, accepted)
      BY <2>1 DEF World
    <3>. HIDE DEF dropped
    <3>3. Plain(World, dropped) /\ Harmless(World, dropped)
      BY <3>1, SameIsPlain, SameAgentIsHarmless DEF KeepsRound
    <3>4. ~Quiet(dropped)
      BY <3>1, <3>2 DEF Quiet
    <3>. HIDE DEF w
    <3>5. Plain(dropped, w) /\ Harmless(dropped, w)
      BY <3>1, <3>2, <3>4, RequestDriveEffect
    <3>. QED BY <3>3, <3>5, PlainThenPlain DEF Harmless, Plain
  <2>2. CASE ~(agent.pc = "checked" /\ Listening(World))
    BY <2>2, AgentOnlyIsPlain DEF Harmless
  <2>. QED BY <2>1, <2>2
<1>. HIDE DEF w
<1>3. u \in Worlds /\ Plain(World, u) /\ Harmless(World, u)
  <2>1. Disarm(w) \in Worlds /\ Plain(w, Disarm(w)) /\ Harmless(w, Disarm(w))
    BY <1>2, DisarmIsPlain
  <2>. QED BY <1>2, <2>1, PlainThenPlain DEF Harmless
<1>. HIDE DEF u
<1>4. World' = GoIdle(u, accepted)
  BY <1>1, <1>3, GoIdleIsWorld, Reached
<1>. QED BY <1>3, <1>4, GoIdleMoves

LEMMA RejectionReturnsMoves ==
    ASSUME World \in Worlds, NEW accepted \in BOOLEAN, RejectionReturns(accepted)
    PROVE  Moves(World, World')
<1>1. World' = GoIdle(World, accepted)
  BY GoIdleIsWorld, Reached DEF RejectionReturns
<1>2. Plain(World, World) /\ Harmless(World, World)
  BY AgentOnlyIsPlain DEF Harmless
<1>. QED BY <1>1, <1>2, GoIdleMoves

-----------------------------------------------------------------------------
(* The pre-step pipeline *)

\* A plain and harmless world, reached.
LEMMA PlainMoves ==
    ASSUME NEW v \in Worlds, Becomes(v), Plain(World, v), Harmless(World, v)
    PROVE  Moves(World, World')
BY Reached, PlainIsFair, FairMoves

LEMMA FirstCheckPassesMoves ==
    ASSUME World \in Worlds, FirstCheckPasses
    PROVE  Moves(World, World')
<1>1. Becomes(Stands(World, "checked"))
  BY DEF FirstCheckPasses, Stands
<1>. QED BY <1>1, StandsEffect, PlainMoves

\* What a rejection does from a world that was plainly reached before the step.
LEMMA RejectedMoves ==
    ASSUME World \in Worlds, NEW u \in Worlds, Plain(World, u), Harmless(World, u), Becomes(Rejected(u))
    PROVE  Moves(World, World')
<1>1. Rejected(u) = Stands(u, "rejecting")
  BY DEF Rejected, Stands
<1>2. Rejected(u) \in Worlds /\ Plain(u, Rejected(u)) /\ Harmless(u, Rejected(u))
  BY <1>1, StandsEffect
<1>. QED BY <1>2, PlainThenPlain, PlainMoves DEF Harmless

\* Dropping the reservation in a turn, giving the note back and asking for a run
\* is plain: no run drives on before the turn is over.
LEMMA DropsPlainly ==
    ASSUME NEW w \in Worlds, NEW u \in {w, Attempt(w, None)}, ~Quiet(w), NEW accepted \in BOOLEAN
    PROVE  LET v == RequestDrive(Restore(u), accepted) IN
           v \in Worlds /\ Plain(w, v) /\ Harmless(w, v)
<1>. DEFINE r == Restore(u)
            v == RequestDrive(r, accepted)
<1>1. u \in Worlds /\ Plain(w, u) /\ Harmless(w, u) /\ u.agent = w.agent
  <2>1. CASE u = w
    BY <2>1, AgentOnlyIsPlain DEF Harmless
  <2>2. CASE u = Attempt(w, None)
    <3>1. /\ u \in Worlds /\ u.goal = w.goal /\ u.agent = w.agent /\ SameDuty(w, u) /\ SameRuns(w, u)
          /\ u.driver.attempt = None
      BY <2>2, AttemptEffect
    <3>. QED BY <3>1, SameIsPlain, SameAgentIsHarmless DEF KeepsRound
  <2>. QED BY <2>1, <2>2
<1>2. r \in Worlds /\ Plain(u, r) /\ Harmless(u, r) /\ r.agent.pc = u.agent.pc
  BY <1>1, RestoreEffect
<1>. HIDE DEF r
<1>3. ~Quiet(r)
  BY <1>1, <1>2 DEF Quiet
<1>4. Plain(r, v) /\ Harmless(r, v)
  BY <1>2, <1>3, RequestDriveEffect
<1>. HIDE DEF v
<1>5. Plain(w, v) /\ Harmless(w, v)
  BY <1>1, <1>2, <1>4, PlainThenPlain DEF Harmless
<1>. QED BY <1>5 DEF Plain, v, r

LEMMA FirstCheckRejectsMoves ==
    ASSUME World \in Worlds, NEW accepted \in BOOLEAN, FirstCheckRejects(accepted)
    PROVE  Moves(World, World')
<1>. DEFINE w == IF OwnRound(driver.attempt, agent.batch) THEN Attempt(World, None) ELSE World
            v == RequestDrive(Restore(w), accepted)
<1>1. Becomes(Rejected(v)) /\ World.agent.pc = "claimed"
  BY DEF FirstCheckRejects, Attempt, World
<1>2. ~Quiet(World) /\ w \in {World, Attempt(World, None)}
  BY <1>1 DEF Quiet
<1>. HIDE DEF w
<1>3. v \in Worlds /\ Plain(World, v) /\ Harmless(World, v)
  BY <1>2, DropsPlainly
<1>. HIDE DEF v
<1>. QED BY <1>1, <1>3, RejectedMoves

\* A round that the second check lets in is what the log accepts next, for its
\* reservation is of this revision and within its cap.
LEMMA ValidIsAccepted ==
    ASSUME NEW w \in Worlds, Refs(w), ValidReservation(w)
    PROVE  IsRound(w.agent.batch) /\ Accepts(w.goal, w.agent.batch)
<1>1. /\ w.driver.attempt # None /\ OwnRound(w.driver.attempt, w.agent.batch)
      /\ Driven(w.goal) /\ w.goal.ref = w.agent.batch.ref /\ w.agent.batch.round = w.goal.rounds + 1
  BY DEF ValidReservation
<1>2. /\ IsRound(w.agent.batch) /\ w.driver.attempt.round.ref = w.agent.batch.ref
      /\ w.driver.attempt.round.round = w.agent.batch.round
  BY <1>1 DEF OwnRound
<1>3. w.driver.attempt.round.round <= w.goal.cap
  BY <1>1, <1>2 DEF Refs
<1>. QED BY <1>1, <1>2, <1>3 DEF Accepts, Driven

LEMMA SecondCheckMoves ==
    ASSUME World \in Worlds, NEW accepted \in BOOLEAN, SecondCheck(accepted)
    PROVE  Moves(World, World')
<1>1. World.agent.pc = "checked"
  BY DEF SecondCheck, World
<1>2. CASE StillValid(World) /\ Becomes([World EXCEPT !.agent.pc = "decided"])
  <2>. DEFINE w == World
              v == [w EXCEPT !.agent.pc = "decided"]
  <2>0. w \in Worlds /\ Becomes(v) /\ ValidReservation(w)
    BY <1>2 DEF StillValid
  <2>. HIDE DEF w
  <2>1. v \in Worlds
    BY <2>0 DEF Worlds, Agents, InTurn
  <2>2. /\ v.goal = w.goal /\ v.driver = w.driver /\ v.agent.pc = "decided" /\ v.agent.batch = w.agent.batch
        /\ v.agent.queue = w.agent.queue /\ v.agent.aborted = w.agent.aborted
    BY <2>0 DEF Worlds, Agents
  <2>. HIDE DEF v
  <2>3. Plain(w, v)
    BY <2>0, <2>1, <2>2, AgentOnlyIsPlain
  <2>4. (Fence(w) => Fence(v)) /\ Resting(v)
    BY <2>2 DEF Fence, Stopping, Resting
  <2>5. Sane(w) => Fits(v)
    BY <2>0, <2>2, ValidIsAccepted DEF Sane, Fits
  <2>6. Moves(w, v)
    BY <2>3, <2>4, <2>5 DEF Plain, Moves
  <2>7. World' = v
    BY <2>0, <2>1, Reached
  <2>. QED BY <2>6, <2>7 DEF w
<1>3. CASE Becomes(Rejected(RequestDrive(Restore([World EXCEPT !.driver.attempt = None]), accepted)))
  <2>. DEFINE v == RequestDrive(Restore(Attempt(World, None)), accepted)
  <2>1. Becomes(Rejected(v)) /\ ~Quiet(World)
    BY <1>1, <1>3 DEF Attempt, Quiet
  <2>2. v \in Worlds /\ Plain(World, v) /\ Harmless(World, v)
    BY <2>1, DropsPlainly
  <2>. HIDE DEF v
  <2>. QED BY <2>1, <2>2, RejectedMoves
<1>. QED BY <1>2, <1>3 DEF SecondCheck

LEMMA HookRejectsMoves ==
    ASSUME World \in Worlds, HookRejects
    PROVE  Moves(World, World')
<1>. DEFINE w == Attempt(World, None)
            u == IF Driven(goal) /\ goal.ref = agent.batch.ref THEN Block(w) ELSE w
<1>1. Becomes(Rejected(u)) /\ World.agent.pc = "checked"
  BY DEF HookRejects, Attempt, World
<1>2. /\ w \in Worlds /\ w.goal = World.goal /\ w.agent = World.agent /\ SameDuty(World, w)
      /\ SameRuns(World, w) /\ w.driver.attempt = None
  BY AttemptEffect
<1>. HIDE DEF w
<1>3. Plain(World, w) /\ Harmless(World, w)
  BY <1>2, SameIsPlain, SameAgentIsHarmless DEF KeepsRound
<1>4. Plain(w, Block(w)) /\ Harmless(w, Block(w))
  <2>1. Plain(w, Block(w)) /\ Block(w).agent = w.agent
    BY <1>2, ClosesEffect DEF Block, GoalPhases
  <2>. QED BY <1>1, <1>2, <2>1, SameAgentIsHarmless DEF Plain
<1>5. u \in Worlds /\ Plain(World, u) /\ Harmless(World, u)
  <2>1. Plain(World, Block(w)) /\ Harmless(World, Block(w))
    BY <1>3, <1>4, PlainThenPlain DEF Harmless
  <2>. QED BY <1>2, <1>3, <2>1 DEF Plain
<1>. HIDE DEF u
<1>. QED BY <1>1, <1>5, RejectedMoves

LEMMA HookRejectsOtherMoves ==
    ASSUME World \in Worlds, HookRejectsOther
    PROVE  Moves(World, World')
<1>1. Plain(World, World) /\ Harmless(World, World) /\ Becomes(Rejected(World))
  BY AgentOnlyIsPlain DEF HookRejectsOther, Harmless
<1>. QED BY <1>1, RejectedMoves

-----------------------------------------------------------------------------
(* The step *)

\* The messages of a step enter the log: the rounds of the goal are counted, or
\* its log is corrupt; what the driver relies on stays.
LEMMA StepsEffect ==
    ASSUME NEW w \in Worlds
    PROVE  LET v == Steps(w) IN
           /\ v \in Worlds /\ SameDuty(w, v) /\ SameRuns(w, v) /\ KeepsRound(w, v)
           /\ v.goal.phase = w.goal.phase /\ v.goal.ref = w.goal.ref /\ v.goal.cap = w.goal.cap
           /\ v.goal.armed = w.goal.armed /\ v.goal.changes = w.goal.changes
           /\ v.goal.stored = w.goal.stored /\ v.goal.halted = w.goal.halted
           /\ v.agent.pc = "stepping" /\ v.agent.batch = None /\ v.agent.queue = w.agent.queue
           /\ ~IsRound(w.agent.batch) \/ Accepts(w.goal, w.agent.batch) => v.goal.corrupt = w.goal.corrupt
           /\ w.driver.attempt # None => v.driver.attempt.round = w.driver.attempt.round
<1>. DEFINE m == w.agent.batch
            logged == IF ~IsRound(m) THEN w
                      ELSE IF Accepts(w.goal, m) THEN [w EXCEPT !.goal.rounds = m.round]
                      ELSE [w EXCEPT !.goal.corrupt = TRUE]
            entered == Enters(w)
            note == IF entered.agent.note = "claimed" THEN "gone" ELSE entered.agent.note
            a == [entered.agent EXCEPT !.pc = "stepping", !.batch = None, !.note = note]
            v == Steps(w)
<1>1. /\ logged \in Worlds /\ logged.driver = w.driver /\ logged.agent = w.agent
      /\ logged.goal.phase = w.goal.phase /\ logged.goal.ref = w.goal.ref /\ logged.goal.cap = w.goal.cap
      /\ logged.goal.armed = w.goal.armed /\ logged.goal.changes = w.goal.changes
      /\ logged.goal.stored = w.goal.stored /\ logged.goal.halted = w.goal.halted
      /\ ~IsRound(m) \/ Accepts(w.goal, m) => logged.goal.corrupt = w.goal.corrupt
  <2>1. CASE ~IsRound(m)
    BY <2>1
  <2>2. CASE IsRound(m) /\ Accepts(w.goal, m)
    <3>1. logged = [w EXCEPT !.goal.rounds = m.round]
      BY <2>2
    <3>2. m.round \in Nat
      BY <2>2 DEF IsRound, Worlds, Agents, Messages
    <3>. HIDE DEF logged
    <3>. QED BY <3>1, <3>2 DEF Worlds, Goals
  <2>3. CASE IsRound(m) /\ ~Accepts(w.goal, m)
    <3>1. logged = [w EXCEPT !.goal.corrupt = TRUE]
      BY <2>3
    <3>. HIDE DEF logged
    <3>. QED BY <2>3, <3>1 DEF Worlds, Goals
  <2>. QED BY <2>1, <2>2, <2>3
<1>2. entered = IF Listening(w) /\ w.driver.attempt # None /\ IsRound(m) /\ w.driver.attempt.round = m
                THEN [logged EXCEPT !.driver.attempt.phase = "admitted"] ELSE logged
  BY DEF Enters, Accepts
<1>. HIDE DEF logged
<1>3. /\ entered \in Worlds /\ entered.goal = logged.goal /\ entered.agent = w.agent
      /\ SameDuty(w, entered) /\ SameRuns(w, entered) /\ KeepsRound(w, entered)
      /\ w.driver.attempt # None => entered.driver.attempt.round = w.driver.attempt.round
  <2>1. CASE Listening(w) /\ w.driver.attempt # None /\ IsRound(m) /\ w.driver.attempt.round = m
    <3>. DEFINE b == [logged.driver.attempt EXCEPT !.phase = "admitted"]
    <3>1. /\ b \in Attempts /\ b.round = logged.driver.attempt.round
          /\ [logged EXCEPT !.driver.attempt.phase = "admitted"] = Attempt(logged, b)
      <4>1. logged.driver.attempt # None
        BY <1>1, <2>1
      <4>. QED BY <1>1, <4>1, MarksEffect
    <3>2. entered = Attempt(logged, b)
      BY <1>2, <2>1, <3>1
    <3>. HIDE DEF b, entered
    <3>3. /\ entered \in Worlds /\ entered.goal = logged.goal /\ entered.agent = logged.agent
          /\ SameDuty(logged, entered) /\ SameRuns(logged, entered) /\ entered.driver.attempt = b
      BY <1>1, <3>1, <3>2, AttemptEffect
    <3>. QED BY <1>1, <2>1, <3>1, <3>3 DEF SameDuty, SameRuns, KeepsRound
  <2>2. CASE ~(Listening(w) /\ w.driver.attempt # None /\ IsRound(m) /\ w.driver.attempt.round = m)
    BY <1>1, <1>2, <2>2 DEF SameDuty, SameRuns, KeepsRound
  <2>. QED BY <2>1, <2>2
<1>4. v = [entered EXCEPT !.agent = a]
  <2>1. v = [entered EXCEPT !.agent.pc = "stepping", !.agent.batch = None,
                            !.agent.note = IF @ = "claimed" THEN "gone" ELSE @]
    BY DEF Steps
  <2>. HIDE DEF entered, v
  <2>. QED BY <1>3, <2>1 DEF Worlds, Agents
<1>. HIDE DEF entered, v
<1>5. a \in Agents /\ a.pc = "stepping" /\ a.batch = None /\ a.queue = w.agent.queue
  <2>1. note \in {"unsent", "pending", "claimed", "gone"} /\ entered.agent \in Agents
    BY <1>3 DEF Worlds, Agents
  <2>. HIDE DEF note
  <2>. QED BY <1>3, <2>1 DEF Agents, InTurn
<1>. HIDE DEF a
<1>6. v \in Worlds /\ v.goal = logged.goal /\ v.driver = entered.driver /\ v.agent = a
  BY <1>3, <1>4, <1>5 DEF Worlds
<1>. QED BY <1>1, <1>3, <1>5, <1>6 DEF SameDuty, SameRuns, KeepsRound, v

\* A step whose batch is no round, or one the log accepts, is safe.
LEMMA StepsMoves ==
    ASSUME World \in Worlds, Becomes(Steps(World)),
           \/ ~IsRound(World.agent.batch)
           \/ Fits(World) => Accepts(World.goal, World.agent.batch)
           \/ ~Fence(World)
    PROVE  Moves(World, World')
<1>. DEFINE w == World
            v == Steps(w)
<1>1. /\ v \in Worlds /\ SameDuty(w, v) /\ SameRuns(w, v) /\ KeepsRound(w, v)
      /\ v.goal.phase = w.goal.phase /\ v.goal.ref = w.goal.ref /\ v.goal.cap = w.goal.cap
      /\ v.goal.armed = w.goal.armed /\ v.goal.changes = w.goal.changes
      /\ v.goal.stored = w.goal.stored /\ v.goal.halted = w.goal.halted
      /\ v.agent.pc = "stepping" /\ v.agent.batch = None /\ v.agent.queue = w.agent.queue
      /\ ~IsRound(w.agent.batch) \/ Accepts(w.goal, w.agent.batch) => v.goal.corrupt = w.goal.corrupt
      /\ w.driver.attempt # None => v.driver.attempt.round = w.driver.attempt.round
  BY StepsEffect
<1>2. World' = v
  BY <1>1, Reached
<1>. HIDE DEF v
<1>3. Listening(v) = Listening(w) /\ Stopping(v) = Stopping(w)
  BY <1>1 DEF Listening, Stopping, SameDuty
<1>4. Sane(w) => Sane(v)
  BY <1>1, <1>3 DEF Sane, Refs, Halts, Driven, KeepsRound
<1>5. Owes(w) => Owes(v)
  BY <1>1, <1>3 DEF Owes, Unstored, Driven, SameRuns
<1>6. (Fence(w) => Fence(v)) /\ Fits(v) /\ Resting(v)
  BY <1>1, <1>3 DEF Fence, Fits, Resting, IsRound
<1>. QED BY <1>1, <1>2, <1>4, <1>5, <1>6 DEF Moves

LEMMA LateHookReturnsMoves ==
    ASSUME World \in Worlds, LateHookReturns
    PROVE  Moves(World, World')
<1>1. World.agent.pc = "decided" /\ Becomes(Steps(World))
  BY DEF LateHookReturns, World
<1>2. Fits(World) => Accepts(World.goal, World.agent.batch)
  BY <1>1 DEF Fits
<1>. QED BY <1>1, <1>2, StepsMoves

\* No round passes by once the listeners have gone: the one turn that might have
\* held it was aborted.
LEMMA PassesByMoves ==
    ASSUME World \in Worlds, PassesBy
    PROVE  Moves(World, World')
<1>1. /\ ~World.agent.aborted /\ Becomes(Steps(World))
      /\ IsRound(World.agent.batch) => ~Listening(World)
  BY DEF PassesBy, World
<1>2. ~IsRound(World.agent.batch) \/ ~Fence(World)
  BY <1>1 DEF Fence, Listening, Stopping
<1>. QED BY <1>1, <1>2, StepsMoves

LEMMA NoteJoinsMoves ==
    ASSUME World \in Worlds, NoteJoins
    PROVE  Moves(World, World')
<1>. DEFINE w == World
            v == [w EXCEPT !.agent.note = "gone"]
<1>1. w \in Worlds /\ Becomes(v)
  BY DEF NoteJoins
<1>. HIDE DEF w
<1>2. v \in Worlds
  BY <1>1 DEF Worlds, Agents
<1>3. /\ v.goal = w.goal /\ v.driver = w.driver /\ v.agent.pc = w.agent.pc /\ v.agent.batch = w.agent.batch
      /\ v.agent.queue = w.agent.queue /\ v.agent.aborted = w.agent.aborted
  BY <1>1 DEF Worlds, Agents
<1>. HIDE DEF v
<1>4. Plain(w, v) /\ Harmless(w, v)
  BY <1>1, <1>2, <1>3, AgentOnlyIsPlain DEF Harmless, Fence, Stopping, Fits, Resting
<1>. QED BY <1>1, <1>2, <1>4, PlainMoves DEF w

\* Opening a turn is plain and harmless.
LEMMA OpenTurnIsPlain ==
    ASSUME NEW w \in Worlds
    PROVE  OpenTurn(w) \in Worlds /\ Plain(w, OpenTurn(w)) /\ Harmless(w, OpenTurn(w))
<1>1. LET v == OpenTurn(w) IN
      v \in Worlds /\ v.goal = w.goal /\ SameDuty(w, v) /\ SameRuns(w, v) /\ KeepsRound(w, v)
  BY OpenTurnEffect
<1>. QED BY <1>1, SameIsPlain, OpenTurnHarmless

LEMMA TurnCompletesMoves ==
    ASSUME World \in Worlds, NEW accepted \in BOOLEAN, TurnCompletes(accepted)
    PROVE  Moves(World, World')
<1>1. PICK w \in {World, Disarm(World)} :
         Becomes(IF agent.queue # <<>> THEN OpenTurn(w) ELSE GoIdle(w, accepted))
  BY DEF TurnCompletes
<1>2. w \in Worlds /\ Plain(World, w) /\ Harmless(World, w)
  <2>1. CASE w = World
    BY <2>1, AgentOnlyIsPlain DEF Harmless
  <2>2. CASE w = Disarm(World)
    BY <2>2, DisarmIsPlain
  <2>. QED BY <1>1, <2>1, <2>2
<1>3. CASE Becomes(OpenTurn(w))
  <2>1. OpenTurn(w) \in Worlds /\ Plain(w, OpenTurn(w)) /\ Harmless(w, OpenTurn(w))
    BY <1>2, OpenTurnIsPlain
  <2>. QED BY <1>2, <1>3, <2>1, PlainThenPlain, PlainMoves DEF Harmless
<1>4. CASE Becomes(GoIdle(w, accepted))
  <2>1. World' = GoIdle(w, accepted)
    BY <1>2, <1>4, GoIdleIsWorld, Reached
  <2>. QED BY <1>2, <2>1, GoIdleMoves
<1>. QED BY <1>1, <1>3, <1>4

-----------------------------------------------------------------------------
(* Humans *)

LEMMA HumanPromptsMoves ==
    ASSUME World \in Worlds, HumanPrompts
    PROVE  Moves(World, World')
<1>. DEFINE w == World
            n == w.agent.prompts + 1
            u == [w EXCEPT !.agent.prompts = n]
            v == Send(u, Prompt)
<1>1. w \in Worlds /\ Becomes(v)
  BY DEF HumanPrompts, Worlds, Agents
<1>2. n \in Nat
  BY DEF Worlds, Agents
<1>. HIDE DEF w, n
<1>3. /\ u \in Worlds /\ u.goal = w.goal /\ u.driver = w.driver /\ u.agent.pc = w.agent.pc
      /\ u.agent.batch = w.agent.batch /\ u.agent.queue = w.agent.queue /\ u.agent.aborted = w.agent.aborted
  <2>1. u \in Worlds
    BY <1>1, <1>2 DEF Worlds, Agents
  <2>. QED BY <1>1, <2>1 DEF Worlds, Agents
<1>. HIDE DEF u
<1>4. Plain(w, u) /\ Harmless(w, u)
  BY <1>1, <1>3, AgentOnlyIsPlain DEF Harmless, Fence, Stopping, Fits, Resting
<1>5. Prompt \in Messages /\ ~IsRound(Prompt)
  BY DEF Prompt, Messages, IsRound
<1>6. /\ v \in Worlds /\ v.goal = u.goal /\ SameDuty(u, v) /\ SameRuns(u, v) /\ KeepsRound(u, v)
      /\ Harmless(u, v)
  BY <1>3, <1>5, SendEffect
<1>. HIDE DEF v
<1>7. Plain(u, v)
  BY <1>3, <1>6, SameIsPlain
<1>8. Plain(w, v) /\ Harmless(w, v)
  BY <1>4, <1>6, <1>7, PlainThenPlain DEF Harmless
<1>. QED BY <1>1, <1>6, <1>8, PlainMoves DEF w

LEMMA InjectNoteMoves ==
    ASSUME World \in Worlds, InjectNote
    PROVE  Moves(World, World')
<1>. DEFINE w == World
            v == [w EXCEPT !.agent.note = "pending"]
<1>1. w \in Worlds /\ Becomes(v)
  BY DEF InjectNote
<1>. HIDE DEF w
<1>2. v \in Worlds
  BY <1>1 DEF Worlds, Agents
<1>3. /\ v.goal = w.goal /\ v.driver = w.driver /\ v.agent.pc = w.agent.pc /\ v.agent.batch = w.agent.batch
      /\ v.agent.queue = w.agent.queue /\ v.agent.aborted = w.agent.aborted
  BY <1>1 DEF Worlds, Agents
<1>. HIDE DEF v
<1>4. Plain(w, v) /\ Harmless(w, v)
  BY <1>1, <1>2, <1>3, AgentOnlyIsPlain DEF Harmless, Fence, Stopping, Fits, Resting
<1>. QED BY <1>1, <1>2, <1>4, PlainMoves DEF w

\* cancel() aborts the turn there is and, unless it keeps the inbox, empties it.
LEMMA CancelWorldEffect ==
    ASSUME NEW w \in Worlds, NEW keepInbox \in BOOLEAN
    PROVE  LET v == CancelWorld(w, keepInbox) IN
           /\ v \in Worlds /\ v.goal = w.goal /\ SameDuty(w, v) /\ SameRuns(w, v) /\ KeepsRound(w, v)
           /\ v.agent.pc = w.agent.pc /\ v.agent.batch = w.agent.batch
           /\ v.agent.queue = IF keepInbox THEN w.agent.queue ELSE <<>>
           /\ v.agent.aborted = (w.agent.aborted \/ w.agent.pc \in InTurn)
<1>. DEFINE own == \E i \in DOMAIN w.agent.queue : OwnRound(w.driver.attempt, w.agent.queue[i])
            heard == IF own /\ Listening(w) THEN [w EXCEPT !.driver.attempt.cancelled = TRUE] ELSE w
            note == IF w.agent.note = "pending" THEN "gone" ELSE w.agent.note
            a == [w.agent EXCEPT !.queue = <<>>, !.latch = FALSE, !.note = note]
            cleared == IF keepInbox THEN w ELSE [heard EXCEPT !.agent = a]
            aborted == cleared.agent.aborted \/ w.agent.pc \in InTurn
            v == [cleared EXCEPT !.agent.aborted = aborted]
<1>1. /\ heard \in Worlds /\ heard.goal = w.goal /\ heard.agent = w.agent /\ SameDuty(w, heard)
      /\ SameRuns(w, heard) /\ KeepsRound(w, heard)
  <2>1. CASE own /\ Listening(w)
    <3>1. w.driver.attempt # None
      BY <2>1 DEF OwnRound
    <3>. DEFINE b == [w.driver.attempt EXCEPT !.cancelled = TRUE]
    <3>2. /\ b \in Attempts /\ b.round = w.driver.attempt.round
          /\ [w EXCEPT !.driver.attempt.cancelled = TRUE] = Attempt(w, b)
      BY <3>1, MarksEffect
    <3>3. heard = Attempt(w, b)
      BY <2>1, <3>2
    <3>. HIDE DEF b, heard
    <3>4. /\ heard \in Worlds /\ heard.goal = w.goal /\ heard.agent = w.agent /\ SameDuty(w, heard)
          /\ SameRuns(w, heard) /\ heard.driver.attempt = b
      BY <3>2, <3>3, AttemptEffect
    <3>. QED BY <3>1, <3>2, <3>4 DEF KeepsRound
  <2>2. CASE ~(own /\ Listening(w))
    BY <2>2 DEF SameDuty, SameRuns, KeepsRound
  <2>. QED BY <2>1, <2>2
<1>. HIDE DEF own
<1>2. /\ a \in Agents /\ a.pc = w.agent.pc /\ a.batch = w.agent.batch /\ a.queue = <<>>
      /\ a.aborted = w.agent.aborted
  <2>1. note \in {"unsent", "pending", "claimed", "gone"} /\ w.agent \in Agents
    BY DEF Worlds, Agents
  <2>. HIDE DEF note
  <2>2. <<>> \in Seq(Messages)
    OBVIOUS
  <2>. QED BY <2>1, <2>2 DEF Agents
<1>3. CancelWorld(w, keepInbox) = v
  <2>1. cleared = IF keepInbox THEN w
                  ELSE [heard EXCEPT !.agent.queue = <<>>, !.agent.latch = FALSE,
                                     !.agent.note = IF @ = "pending" THEN "gone" ELSE @]
    <3>. HIDE DEF heard
    <3>. QED BY <1>1 DEF Worlds, Agents
  <2>2. cleared \in Worlds
    <3>. HIDE DEF heard, a
    <3>. QED BY <1>1, <1>2 DEF Worlds
  <2>. HIDE DEF cleared
  <2>3. v = [cleared EXCEPT !.agent.aborted = @ \/ w.agent.pc \in InTurn]
    BY <2>2 DEF Worlds, Agents
  <2>. HIDE DEF v
  <2>. QED BY <2>1, <2>3 DEF CancelWorld, own
<1>. HIDE DEF heard, a
<1>4. /\ cleared \in Worlds /\ cleared.goal = w.goal /\ SameDuty(w, cleared) /\ SameRuns(w, cleared)
      /\ KeepsRound(w, cleared) /\ cleared.agent.pc = w.agent.pc /\ cleared.agent.batch = w.agent.batch
      /\ cleared.agent.queue = IF keepInbox THEN w.agent.queue ELSE <<>>
      /\ cleared.agent.aborted = w.agent.aborted
  <2>1. CASE keepInbox
    BY <2>1 DEF SameDuty, SameRuns, KeepsRound
  <2>2. CASE ~keepInbox
    <3>1. cleared \in Worlds /\ cleared.goal = heard.goal /\ cleared.driver = heard.driver /\ cleared.agent = a
      BY <1>1, <1>2, <2>2 DEF Worlds
    <3>. QED BY <1>1, <1>2, <2>2, <3>1 DEF SameDuty, SameRuns, KeepsRound
  <2>. QED BY <2>1, <2>2
<1>. HIDE DEF cleared
<1>5. aborted \in BOOLEAN
  BY <1>4 DEF Worlds, Agents
<1>6. /\ v \in Worlds /\ v.goal = cleared.goal /\ v.driver = cleared.driver
      /\ v.agent.pc = cleared.agent.pc /\ v.agent.batch = cleared.agent.batch
      /\ v.agent.queue = cleared.agent.queue /\ v.agent.aborted = aborted
  <2>. HIDE DEF aborted
  <2>1. v \in Worlds
    BY <1>4, <1>5 DEF Worlds, Agents
  <2>. QED BY <1>4, <2>1 DEF Worlds, Agents
<1>. HIDE DEF v
<1>. QED BY <1>3, <1>4, <1>6 DEF SameDuty, SameRuns, KeepsRound

LEMMA CancelMoves ==
    ASSUME World \in Worlds, NEW keepInbox \in BOOLEAN, Cancel(keepInbox)
    PROVE  Moves(World, World')
<1>. DEFINE w == World
            v == CancelWorld(w, keepInbox)
<1>1. /\ v \in Worlds /\ v.goal = w.goal /\ SameDuty(w, v) /\ SameRuns(w, v) /\ KeepsRound(w, v)
      /\ v.agent.pc = w.agent.pc /\ v.agent.batch = w.agent.batch
      /\ v.agent.queue = IF keepInbox THEN w.agent.queue ELSE <<>>
      /\ v.agent.aborted = (w.agent.aborted \/ w.agent.pc \in InTurn)
  BY CancelWorldEffect
<1>2. Becomes(v)
  BY DEF Cancel
<1>. HIDE DEF v
<1>3. Plain(w, v)
  BY <1>1, SameIsPlain
<1>4. Harmless(w, v)
  <2>1. NoRounds(w.agent.queue) => NoRounds(v.agent.queue)
    BY <1>1 DEF NoRounds
  <2>2. w.agent.aborted => v.agent.aborted
    BY <1>1
  <2>3. Fence(w) => Fence(v)
    BY <1>1, <2>1, <2>2 DEF Fence, Stopping, SameDuty
  <2>. QED BY <1>1, <2>3 DEF Harmless, Fits, Resting
<1>. QED BY <1>1, <1>2, <1>3, <1>4, PlainMoves

\* A human's change of the goal is a new revision, which no reservation is of;
\* the listener turns it into an obligation.
LEMMA ChangeMoves ==
    ASSUME World \in Worlds, MayChange, NEW u \in Worlds, u.driver = World.driver, u.agent = World.agent,
           u.goal.ref = World.goal.changes + 1, u.goal.changes = World.goal.changes + 1,
           Sane(World) => (u.goal.armed => u.goal.phase = "active") /\ Halts(u),
           u.goal.corrupt = World.goal.corrupt,
           Becomes(GoalChanged(u))
    PROVE  Moves(World, World')
<1>. DEFINE w == World
            v == GoalChanged(u)
<1>1. /\ v \in Worlds /\ v.goal = u.goal /\ v.agent = u.agent /\ SameDuty(u, v)
      /\ v.driver.attempt = u.driver.attempt
      /\ u.driver.loops <= (IF u.driver.run THEN 1 ELSE 0) => Owes(v)
  BY GoalChangedEffect
<1>2. World' = v
  BY <1>1, Reached
<1>. HIDE DEF v
<1>3. w.driver = driver /\ w.agent = agent /\ w.goal = goal
  BY DEF World
<1>4. w.driver.loops \in Nat /\ w.goal.changes \in Nat
      /\ (w.driver.attempt # None => w.driver.attempt.round.ref \in Nat)
  BY DEF Worlds, Drivers, Goals, Attempts, Messages
<1>c. v.goal.changes # w.goal.changes
  BY <1>1, <1>4
<1>5. Owes(v) \/ Forgets(w, v)
  BY <1>1, <1>c DEF Forgets
<1>6. Harmless(w, v) \/ (Overtakes(w, v) /\ (Fence(w) => Fence(v)))
  <2>1. SameDuty(w, v) /\ v.agent = w.agent
    BY <1>1 DEF SameDuty
  <2>2. Fence(w) => Fence(v)
    BY <2>1 DEF Fence, Stopping, SameDuty
  <2>3. CASE w.agent.pc # "decided"
    BY <2>1, <2>3, SameAgentIsHarmless
  <2>4. CASE w.agent.pc = "decided"
    BY <1>c, <2>2, <2>4 DEF Overtakes
  <2>. QED BY <2>3, <2>4
<1>7. KeepsRound(w, v) /\ (Resting(w) => Resting(v))
  BY <1>1 DEF KeepsRound, Resting
<1>8. Sane(w) => Sane(v)
  <2>1. Sane(w) => Refs(v)
    BY <1>1, <1>4 DEF Sane, Refs
  <2>2. Halts(u) => Halts(v)
    BY <1>1 DEF Halts, Listening, SameDuty
  <2>. QED BY <1>1, <2>1, <2>2 DEF Sane
<1>. QED BY <1>1, <1>2, <1>5, <1>6, <1>7, <1>8 DEF Moves, Harmless

LEMMA CreateMoves ==
    ASSUME World \in Worlds, NEW cap \in Caps, Create(cap)
    PROVE  Moves(World, World')
<1>. DEFINE c == Commit(World, "active", TRUE)
            u == [c EXCEPT !.goal.cap = cap, !.goal.rounds = 0, !.goal.halted = FALSE]
            g == [c.goal EXCEPT !.cap = cap, !.rounds = 0, !.halted = FALSE]
<1>1. MayChange /\ Becomes(GoalChanged(u))
  BY DEF Create
<1>2. /\ c \in Worlds /\ c.driver = World.driver /\ c.agent = World.agent
      /\ c.goal.phase = "active" /\ c.goal.ref = World.goal.changes + 1
      /\ c.goal.changes = World.goal.changes + 1 /\ c.goal.corrupt = World.goal.corrupt
  BY CommitEffect DEF GoalPhases
<1>. HIDE DEF c
<1>3. u = [c EXCEPT !.goal = g]
  BY <1>2 DEF Worlds
<1>4. /\ g \in Goals /\ g.phase = "active" /\ g.ref = c.goal.ref /\ g.changes = c.goal.changes
      /\ g.corrupt = c.goal.corrupt /\ ~g.halted
  <2>1. c.goal \in Goals /\ cap \in Nat
    BY <1>2, RoundsAssumption DEF Worlds
  <2>. QED BY <1>2, <2>1 DEF Goals
<1>. HIDE DEF u, g
<1>5. u \in Worlds /\ u.goal = g /\ u.driver = c.driver /\ u.agent = c.agent
  BY <1>2, <1>3, <1>4 DEF Worlds
<1>. QED BY <1>1, <1>2, <1>4, <1>5, ChangeMoves DEF Halts

LEMMA EditMoves ==
    ASSUME World \in Worlds, NEW cap \in Caps, Edit(cap)
    PROVE  Moves(World, World')
<1>. DEFINE w == World
            c == Commit(w, w.goal.phase, w.goal.armed)
            u == [c EXCEPT !.goal.cap = cap]
<1>1. MayChange /\ Becomes(GoalChanged(u))
  BY DEF Edit, World
<1>0. w.goal.phase \in GoalPhases /\ w.goal.armed \in BOOLEAN /\ w \in Worlds
  BY DEF Worlds, Goals, GoalPhases
<1>. HIDE DEF w
<1>2. /\ c \in Worlds /\ c.driver = w.driver /\ c.agent = w.agent
      /\ c.goal.phase = w.goal.phase /\ c.goal.armed = w.goal.armed
      /\ c.goal.ref = w.goal.changes + 1 /\ c.goal.changes = w.goal.changes + 1
      /\ c.goal.corrupt = w.goal.corrupt /\ c.goal.halted = w.goal.halted
  BY <1>0, CommitEffect
<1>. HIDE DEF c
<1>3. cap \in Nat
  BY RoundsAssumption
<1>4. /\ u \in Worlds /\ u.driver = c.driver /\ u.agent = c.agent
      /\ u.goal.phase = c.goal.phase /\ u.goal.armed = c.goal.armed /\ u.goal.ref = c.goal.ref
      /\ u.goal.changes = c.goal.changes /\ u.goal.corrupt = c.goal.corrupt /\ u.goal.halted = c.goal.halted
  BY <1>2, <1>3 DEF Worlds, Goals
<1>. HIDE DEF u
<1>5. Sane(w) => (u.goal.armed => u.goal.phase = "active") /\ Halts(u)
  BY <1>2, <1>4 DEF Sane, Halts, Driven, Listening
<1>. QED BY <1>0, <1>1, <1>2, <1>4, <1>5, ChangeMoves DEF w

LEMMA ResumeMoves ==
    ASSUME World \in Worlds, Resume
    PROVE  Moves(World, World')
<1>. DEFINE c == Commit(World, "active", TRUE)
            u == [c EXCEPT !.goal.halted = FALSE]
<1>1. MayChange /\ Becomes(GoalChanged(u))
  BY DEF Resume
<1>2. /\ c \in Worlds /\ c.driver = World.driver /\ c.agent = World.agent
      /\ c.goal.phase = "active" /\ c.goal.ref = World.goal.changes + 1
      /\ c.goal.changes = World.goal.changes + 1 /\ c.goal.corrupt = World.goal.corrupt
  BY CommitEffect DEF GoalPhases
<1>. HIDE DEF c
<1>3. /\ u \in Worlds /\ u.driver = c.driver /\ u.agent = c.agent
      /\ u.goal.phase = c.goal.phase /\ u.goal.ref = c.goal.ref
      /\ u.goal.changes = c.goal.changes /\ u.goal.corrupt = c.goal.corrupt /\ ~u.goal.halted
  BY <1>2 DEF Worlds, Goals
<1>. HIDE DEF u
<1>. QED BY <1>1, <1>2, <1>3, ChangeMoves DEF Halts

\* Pausing, completing and clearing leave the goal without authority.
LEMMA DisarmingChangeMoves ==
    ASSUME World \in Worlds, MayChange, NEW u \in Worlds, u.driver = World.driver, u.agent = World.agent,
           u.goal.ref = World.goal.changes + 1, u.goal.changes = World.goal.changes + 1,
           ~u.goal.armed, u.goal.corrupt = World.goal.corrupt,
           Becomes(GoalChanged(u))
    PROVE  Moves(World, World')
BY ChangeMoves DEF Halts, Driven

LEMMA ClosingMoves ==
    ASSUME World \in Worlds, MayChange, NEW p \in GoalPhases, Becomes(GoalChanged(Commit(World, p, FALSE)))
    PROVE  Moves(World, World')
<1>1. LET u == Commit(World, p, FALSE) IN
      /\ u \in Worlds /\ u.driver = World.driver /\ u.agent = World.agent
      /\ u.goal.ref = World.goal.changes + 1 /\ u.goal.changes = World.goal.changes + 1
      /\ ~u.goal.armed /\ u.goal.corrupt = World.goal.corrupt
  BY CommitEffect
<1>. QED BY <1>1, DisarmingChangeMoves

LEMMA ClearMoves ==
    ASSUME World \in Worlds, Clear
    PROVE  Moves(World, World')
<1>. DEFINE c == Commit(World, "none", FALSE)
            u == [c EXCEPT !.goal.cap = 0, !.goal.rounds = 0]
            g == [c.goal EXCEPT !.cap = 0, !.rounds = 0]
<1>1. MayChange /\ Becomes(GoalChanged(u))
  BY DEF Clear
<1>2. /\ c \in Worlds /\ c.driver = World.driver /\ c.agent = World.agent
      /\ ~c.goal.armed /\ c.goal.ref = World.goal.changes + 1
      /\ c.goal.changes = World.goal.changes + 1 /\ c.goal.corrupt = World.goal.corrupt
  BY CommitEffect DEF GoalPhases
<1>. HIDE DEF c
<1>3. u = [c EXCEPT !.goal = g]
  BY <1>2 DEF Worlds
<1>4. /\ g \in Goals /\ ~g.armed /\ g.ref = c.goal.ref /\ g.changes = c.goal.changes
      /\ g.corrupt = c.goal.corrupt
  <2>1. c.goal \in Goals
    BY <1>2 DEF Worlds
  <2>. QED BY <1>2, <2>1 DEF Goals
<1>. HIDE DEF u, g
<1>5. u \in Worlds /\ u.goal = g /\ u.driver = c.driver /\ u.agent = c.agent
  BY <1>2, <1>3, <1>4 DEF Worlds
<1>. QED BY <1>1, <1>2, <1>4, <1>5, DisarmingChangeMoves

-----------------------------------------------------------------------------
(* Lifecycle *)

LEMMA BeginMaintenanceMoves ==
    ASSUME World \in Worlds, BeginMaintenance
    PROVE  Moves(World, World')
<1>. DEFINE w == World
            v == [w EXCEPT !.agent.pc = "maintenance"]
<1>1. w \in Worlds /\ Becomes(v) /\ w.agent.pc = "idle"
  BY DEF BeginMaintenance, World
<1>. HIDE DEF w
<1>2. v \in Worlds
  BY <1>1 DEF Worlds, Agents
<1>3. /\ v.goal = w.goal /\ v.driver = w.driver /\ v.agent.pc = "maintenance" /\ v.agent.batch = w.agent.batch
      /\ v.agent.queue = w.agent.queue /\ v.agent.aborted = w.agent.aborted
  BY <1>1 DEF Worlds, Agents
<1>. HIDE DEF v
<1>4. Plain(w, v) /\ Harmless(w, v)
  BY <1>1, <1>2, <1>3, AgentOnlyIsPlain DEF Harmless, Fence, Stopping, Fits, Resting
<1>. QED BY <1>1, <1>2, <1>4, PlainMoves DEF w

LEMMA EndMaintenanceMoves ==
    ASSUME World \in Worlds, EndMaintenance
    PROVE  Moves(World, World')
<1>. DEFINE w == World
            a == [w.agent EXCEPT !.pc = "idle", !.latch = FALSE]
            u == [w EXCEPT !.agent = a]
<1>0. w.agent.pc = "maintenance" /\ w \in Worlds /\ w.agent \in Agents
  BY DEF EndMaintenance, World, Worlds
<1>1. Becomes(u) \/ Becomes(OpenTurn(u))
  <2>1. u = [w EXCEPT !.agent.pc = "idle", !.agent.latch = FALSE]
    BY <1>0 DEF Worlds
  <2>. HIDE DEF u
  <2>. QED BY <2>1 DEF EndMaintenance
<1>. HIDE DEF w
<1>2. /\ a \in Agents /\ a.pc = "idle" /\ a.batch = w.agent.batch /\ a.queue = w.agent.queue
      /\ a.aborted = w.agent.aborted
  BY <1>0 DEF Agents
<1>. HIDE DEF a
<1>3. u \in Worlds /\ u.goal = w.goal /\ u.driver = w.driver /\ u.agent = a
  BY <1>0, <1>2 DEF Worlds
<1>. HIDE DEF u
<1>4. Plain(w, u) /\ Harmless(w, u)
  BY <1>0, <1>2, <1>3, AgentOnlyIsPlain DEF Harmless, Fence, Stopping, Fits, Resting
<1>5. OpenTurn(u) \in Worlds /\ Plain(w, OpenTurn(u)) /\ Harmless(w, OpenTurn(u))
  BY <1>3, <1>4, OpenTurnIsPlain, PlainThenPlain DEF Harmless
<1>. QED BY <1>1, <1>3, <1>4, <1>5, PlainMoves DEF w

\* Unloading aborts the turn of a reservation and empties the inbox, so that no
\* round is left queued, or claimed by a turn that goes on; without such a turn it
\* leaves the rounds there are.
LEMMA UnloadMoves ==
    ASSUME World \in Worlds, Unload
    PROVE  Moves(World, World')
<1>. DEFINE w == World
            d == [w.driver EXCEPT !.fiber = "unloading", !.joins = JoinsTurn]
            leaving == [w EXCEPT !.driver = d]
            stopped == Disarm(leaving)
            stale == IF driver.attempt = None THEN stopped ELSE [stopped EXCEPT !.driver.attempt.stale = TRUE]
            cancelled == CancelWorld(stale, FALSE)
            v == IF JoinsTurn THEN cancelled ELSE stale
<1>1. /\ w \in Worlds /\ w.driver \in Drivers /\ w.driver = driver /\ w.agent = agent
      /\ JoinsTurn \in BOOLEAN
  BY DEF World, Worlds, JoinsTurn
<1>2. Becomes(v) /\ w.driver.fiber = "active"
  <2>1. leaving = [w EXCEPT !.driver.fiber = "unloading", !.driver.joins = JoinsTurn]
    BY <1>1 DEF Worlds
  <2>. HIDE DEF leaving
  <2>. QED BY <1>1, <2>1 DEF Unload
<1>3. JoinsTurn => w.agent.pc \in InTurn
  <2>1. JoinsTurn => ~Quiet(w)
    BY DEF JoinsTurn
  <2>. QED BY <1>1, <2>1 DEF Quiet, Worlds, Agents
<1>4. ~JoinsTurn => w.driver.attempt = None \/ Quiet(w)
  BY <1>1 DEF JoinsTurn
<1>. HIDE DEF w
<1>5. /\ d \in Drivers /\ d.fiber = "unloading" /\ d.joins = JoinsTurn /\ d.attempt = w.driver.attempt
  BY <1>1 DEF Drivers
<1>. HIDE DEF d
<1>6. leaving \in Worlds /\ leaving.goal = w.goal /\ leaving.driver = d /\ leaving.agent = w.agent
  BY <1>1, <1>5 DEF Worlds
<1>. HIDE DEF leaving
<1>7. /\ stopped \in Worlds /\ stopped.driver = d /\ stopped.agent = w.agent
      /\ ~stopped.goal.armed /\ stopped.goal.phase = w.goal.phase /\ stopped.goal.ref = w.goal.ref
      /\ stopped.goal.cap = w.goal.cap /\ stopped.goal.rounds = w.goal.rounds
      /\ stopped.goal.changes = w.goal.changes /\ stopped.goal.corrupt = w.goal.corrupt
  BY <1>6, DisarmEffect
<1>. HIDE DEF stopped
<1>8. /\ stale \in Worlds /\ stale.goal = stopped.goal /\ stale.agent = w.agent /\ SameDuty(stopped, stale)
      /\ stale.driver.attempt # None =>
           w.driver.attempt # None /\ stale.driver.attempt.round = w.driver.attempt.round
  <2>1. CASE driver.attempt = None
    BY <1>1, <1>5, <1>7, <2>1 DEF SameDuty
  <2>2. CASE driver.attempt # None
    <3>. DEFINE b == [stopped.driver.attempt EXCEPT !.stale = TRUE]
    <3>1. stopped.driver.attempt # None
      BY <1>1, <1>5, <1>7, <2>2
    <3>2. /\ b \in Attempts /\ b.round = stopped.driver.attempt.round
          /\ [stopped EXCEPT !.driver.attempt.stale = TRUE] = Attempt(stopped, b)
      BY <1>7, <3>1, MarksEffect
    <3>3. stale = Attempt(stopped, b)
      BY <2>2, <3>2
    <3>. HIDE DEF b, stale
    <3>4. /\ stale \in Worlds /\ stale.goal = stopped.goal /\ stale.agent = stopped.agent
          /\ SameDuty(stopped, stale) /\ stale.driver.attempt = b
      BY <1>7, <3>2, <3>3, AttemptEffect
    <3>. QED BY <1>1, <1>5, <1>7, <2>2, <3>2, <3>4
  <2>. QED BY <2>1, <2>2
<1>. HIDE DEF stale
<1>9. /\ cancelled \in Worlds /\ cancelled.goal = stale.goal /\ SameDuty(stale, cancelled)
      /\ KeepsRound(stale, cancelled) /\ cancelled.agent.pc = stale.agent.pc
      /\ cancelled.agent.batch = stale.agent.batch /\ cancelled.agent.queue = <<>>
      /\ cancelled.agent.aborted = (stale.agent.aborted \/ stale.agent.pc \in InTurn)
  <2>1. LET c == CancelWorld(stale, FALSE) IN
        /\ c \in Worlds /\ c.goal = stale.goal /\ SameDuty(stale, c) /\ KeepsRound(stale, c)
        /\ c.agent.pc = stale.agent.pc /\ c.agent.batch = stale.agent.batch
        /\ c.agent.queue = (IF FALSE THEN stale.agent.queue ELSE <<>>)
        /\ c.agent.aborted = (stale.agent.aborted \/ stale.agent.pc \in InTurn)
    BY <1>8, CancelWorldEffect
  <2>. QED BY <2>1
<1>. HIDE DEF cancelled
<1>10. /\ v \in Worlds /\ v.goal = stopped.goal /\ KeepsRound(w, v) /\ v.driver.fiber = "unloading"
       /\ v.driver.joins = JoinsTurn /\ v.agent.pc = w.agent.pc /\ v.agent.batch = w.agent.batch
       /\ JoinsTurn => v.agent.queue = <<>> /\ v.agent.aborted
       /\ ~JoinsTurn => v.agent.queue = w.agent.queue
  <2>1. CASE JoinsTurn
    BY <1>3, <1>5, <1>7, <1>8, <1>9, <2>1 DEF SameDuty, KeepsRound
  <2>2. CASE ~JoinsTurn
    BY <1>5, <1>7, <1>8, <2>2 DEF SameDuty, KeepsRound
  <2>. QED BY <2>1, <2>2
<1>11. World' = v
  BY <1>2, <1>10, Reached
<1>. HIDE DEF v
<1>12. Sane(w) => Sane(v)
  BY <1>7, <1>10 DEF Sane, Refs, Halts, Driven, KeepsRound
<1>13. Owes(v)
  BY <1>7, <1>10 DEF Owes, Unstored, Driven
<1>14. Fence(v) \/ Loosens(w, v)
  <2>1. CASE JoinsTurn
    <3>1. NoRounds(<<>>)
      BY DEF NoRounds
    <3>2. Fence(v)
      BY <1>10, <2>1, <3>1 DEF Fence
    <3>. QED BY <3>2
  <2>2. CASE ~JoinsTurn
    BY <1>2, <1>4, <1>10, <2>2 DEF Loosens
  <2>. QED BY <2>1, <2>2
<1>15. (Fits(w) => Fits(v)) /\ (Resting(w) => Resting(v)) /\ v.goal.corrupt = w.goal.corrupt
  BY <1>7, <1>10 DEF Fits, Accepts, Resting
<1>. QED BY <1>10, <1>11, <1>12, <1>13, <1>14, <1>15 DEF Moves, w

LEMMA FreshDriverIsDriver ==
    /\ FreshDriver \in Drivers /\ FreshDriver.attempt = None /\ FreshDriver.fiber = "active"
    /\ FreshDriver.loops = 0 /\ FreshDriver.flushes = 0
BY DEF FreshDriver, Drivers

\* The listeners go when the turn they joined is over, and with it its batch.
LEMMA UnloadedMoves ==
    ASSUME World \in Worlds, Unloaded
    PROVE  Moves(World, World')
<1>. DEFINE w == World
            d == [FreshDriver EXCEPT !.fiber = "unloaded", !.loops = w.driver.loops, !.flushes = w.driver.flushes]
            v == [w EXCEPT !.driver = d]
<1>1. /\ w \in Worlds /\ Becomes(v) /\ w.driver.fiber = "unloading"
      /\ w.driver.joins => w.agent.pc = "idle"
  BY DEF Unloaded, World
<1>. HIDE DEF w
<1>2. w.driver.loops \in Nat /\ w.driver.flushes \in Nat
  BY <1>1 DEF Worlds, Drivers
<1>3. d \in Drivers /\ d.attempt = None /\ d.fiber = "unloaded"
  BY <1>2, FreshDriverIsDriver DEF Drivers
<1>. HIDE DEF d
<1>4. v \in Worlds /\ v.goal = w.goal /\ v.agent = w.agent /\ v.driver = d
  BY <1>1, <1>3 DEF Worlds
<1>5. World' = v
  BY <1>1, <1>4, Reached
<1>. HIDE DEF v
<1>6. ~Listening(v) /\ KeepsRound(w, v)
  BY <1>3, <1>4 DEF Listening, KeepsRound
<1>7. Sane(w) => Sane(v)
  BY <1>3, <1>4, <1>6 DEF Sane, Refs, Halts
<1>8. Owes(v)
  BY <1>6 DEF Owes, Unstored
<1>9. Fence(w) /\ Resting(w) => Fence(v)
  <2>1. Fence(w) => NoRounds(w.agent.queue) /\ (IsRound(w.agent.batch) => w.driver.joins)
    BY <1>1 DEF Fence, Stopping
  <2>2. Resting(w) /\ w.driver.joins => ~IsRound(w.agent.batch)
    BY <1>1 DEF Resting, IsRound
  <2>. QED BY <1>4, <2>1, <2>2 DEF Fence
<1>10. (Fits(w) => Fits(v)) /\ (Resting(w) => Resting(v))
  BY <1>4 DEF Fits, Resting
<1>. QED BY <1>4, <1>5, <1>6, <1>7, <1>8, <1>9, <1>10 DEF Moves, w

\* A driver that starts fresh over a goal without authority, whatever the agent does.
LEMMA FreshMoves ==
    ASSUME World \in Worlds, NEW v \in Worlds, Becomes(v), v.driver = FreshDriver, ~v.goal.armed,
           v.goal.ref = World.goal.ref, v.goal.changes = World.goal.changes,
           v.goal.corrupt = World.goal.corrupt,
           (Fits(World) => Fits(v)) /\ (Resting(World) => Resting(v))
    PROVE  Moves(World, World')
<1>1. World' = v
  BY Reached
<1>2. ~Stopping(v) /\ KeepsRound(World, v)
  BY FreshDriverIsDriver DEF Stopping, KeepsRound
<1>3. (Sane(World) => Sane(v)) /\ Owes(v) /\ Fence(v)
  BY <1>2, FreshDriverIsDriver DEF Sane, Refs, Halts, Driven, Owes, Unstored, Fence
<1>. QED BY <1>1, <1>2, <1>3 DEF Moves

LEMMA LoadMoves ==
    ASSUME World \in Worlds, Load
    PROVE  Moves(World, World')
<1>. DEFINE w == World
            u == [w EXCEPT !.driver = FreshDriver]
            v == Disarm(u)
<1>1. Becomes(v) /\ w \in Worlds
  BY DEF Load
<1>. HIDE DEF w
<1>2. u \in Worlds /\ u.goal = w.goal /\ u.agent = w.agent /\ u.driver = FreshDriver
  BY <1>1, FreshDriverIsDriver DEF Worlds
<1>. HIDE DEF u
<1>3. /\ v \in Worlds /\ v.driver = FreshDriver /\ v.agent = w.agent /\ ~v.goal.armed
      /\ v.goal.phase = w.goal.phase /\ v.goal.ref = w.goal.ref /\ v.goal.cap = w.goal.cap
      /\ v.goal.rounds = w.goal.rounds /\ v.goal.changes = w.goal.changes /\ v.goal.corrupt = w.goal.corrupt
  BY <1>2, DisarmEffect
<1>. HIDE DEF v
<1>4. (Fits(w) => Fits(v)) /\ (Resting(w) => Resting(v))
  BY <1>3 DEF Fits, Accepts, Resting
<1>. QED BY <1>1, <1>3, <1>4, FreshMoves DEF w

LEMMA RestartMoves ==
    ASSUME World \in Worlds, Restart
    PROVE  Moves(World, World')
<1>. DEFINE w == World
            note == IF w.agent.note = "claimed" THEN "gone" ELSE w.agent.note
            a == [IdleAgent EXCEPT !.queue = w.agent.queue, !.prompts = w.agent.prompts, !.note = note]
            g == [w.goal EXCEPT !.stored = TRUE]
            u == [w EXCEPT !.driver = FreshDriver, !.goal = g, !.agent = a]
            v == Disarm(u)
<1>1. Becomes(v) /\ w \in Worlds
  <2>1. u = [w EXCEPT !.driver = FreshDriver, !.goal.stored = TRUE, !.agent = a]
    BY DEF Worlds
  <2>2. a = [IdleAgent EXCEPT !.queue = agent.queue, !.prompts = agent.prompts,
                              !.note = IF agent.note = "claimed" THEN "gone" ELSE agent.note]
    BY DEF World
  <2>. HIDE DEF u, a
  <2>. QED BY <2>1, <2>2 DEF Restart
<1>. HIDE DEF w
<1>2. a \in Agents /\ a.pc = "idle" /\ a.batch = None
  <2>1. /\ w.agent.queue \in Seq(Messages) /\ w.agent.prompts \in Nat
        /\ note \in {"unsent", "pending", "claimed", "gone"}
    BY <1>1 DEF Worlds, Agents
  <2>. HIDE DEF note
  <2>. QED BY <2>1 DEF IdleAgent, Agents
<1>3. /\ g \in Goals /\ g.ref = w.goal.ref /\ g.changes = w.goal.changes /\ g.corrupt = w.goal.corrupt
  BY <1>1 DEF Worlds, Goals
<1>. HIDE DEF a, g
<1>4. u \in Worlds /\ u.goal = g /\ u.agent = a /\ u.driver = FreshDriver
  BY <1>1, <1>2, <1>3, FreshDriverIsDriver DEF Worlds
<1>. HIDE DEF u
<1>5. /\ v \in Worlds /\ v.driver = FreshDriver /\ v.agent = a /\ ~v.goal.armed
      /\ v.goal.ref = g.ref /\ v.goal.changes = g.changes /\ v.goal.corrupt = g.corrupt
  BY <1>4, DisarmEffect
<1>. HIDE DEF v
<1>6. Fits(v) /\ Resting(v)
  BY <1>2, <1>5 DEF Fits, Resting
<1>. QED BY <1>1, <1>3, <1>5, <1>6, FreshMoves DEF w

-----------------------------------------------------------------------------
(* The specification *)

LEMMA NextMoves ==
    ASSUME World \in Worlds, Acts
    PROVE  Moves(World, World')
<1>1. CASE SomeRunLoops \/ SomeFlushEnds
  BY <1>1, RunLoopsMoves, FlushFailsMoves, FlushSettlesMoves DEF SomeRunLoops, SomeFlushEnds
<1>2. CASE PipelineMoves
  BY <1>2, TurnAbortsMoves, FirstCheckPassesMoves, FirstCheckRejectsMoves, SecondCheckMoves, HookRejectsMoves,
     LateHookReturnsMoves, PassesByMoves, HookRejectsOtherMoves, RejectionReturnsMoves DEF PipelineMoves
<1>3. CASE StepMoves
  BY <1>3, TurnFailsMoves, NoteJoinsMoves, TurnCompletesMoves DEF StepMoves
<1>4. CASE Pause \/ Complete
  <2>1. MayChange /\ \E p \in GoalPhases : Becomes(GoalChanged(Commit(World, p, FALSE)))
    BY <1>4 DEF Pause, PauseGoal, Complete, GoalPhases
  <2>. QED BY <2>1, ClosingMoves
<1>5. CASE Humans /\ ~Pause /\ ~Complete
  BY <1>5, HumanPromptsMoves, InjectNoteMoves, CancelMoves, CreateMoves, EditMoves, ResumeMoves, ClearMoves
     DEF Humans
<1>6. CASE Lifecycle
  BY <1>6, BeginMaintenanceMoves, EndMaintenanceMoves, UnloadMoves, UnloadedMoves, LoadMoves, RestartMoves
     DEF Lifecycle
<1>. QED BY <1>1, <1>2, <1>3, <1>4, <1>5, <1>6 DEF Acts, Humans

LEMMA StutterMoves ==
    ASSUME World \in Worlds, UNCHANGED vars
    PROVE  Moves(World, World')
<1>1. World' = World
  BY DEF vars, World
<1>2. Plain(World, World) /\ Harmless(World, World)
  BY AgentOnlyIsPlain DEF Harmless
<1>. QED BY <1>1, <1>2, PlainIsFair, FairMoves

\* What the driver starts from.
LEMMA InitIsSound ==
    ASSUME Init
    PROVE  /\ World \in Worlds /\ Sane(World) /\ Resting(World) /\ Owes(World)
           /\ Fence(World) /\ Fits(World) /\ ~World.goal.corrupt
<1>1. NoGoal \in Goals /\ IdleAgent \in Agents
  BY DEF NoGoal, Goals, IdleAgent, Agents
<1>2. World = [goal |-> NoGoal, driver |-> FreshDriver, agent |-> IdleAgent]
  BY DEF Init, World
<1>3. /\ World.goal = NoGoal /\ World.driver = FreshDriver /\ World.agent = IdleAgent /\ World \in Worlds
  BY <1>1, <1>2, FreshDriverIsDriver DEF Worlds
<1>4. /\ ~NoGoal.armed /\ NoGoal.ref = NoGoal.changes /\ ~NoGoal.corrupt
      /\ IdleAgent.pc = "idle" /\ IdleAgent.batch = None
  BY DEF NoGoal, IdleAgent
<1>5. Sane(World) /\ Owes(World)
  BY <1>3, <1>4, FreshDriverIsDriver DEF Sane, Refs, Halts, Driven, Owes, Unstored
<1>6. Resting(World) /\ Fence(World) /\ Fits(World)
  BY <1>3, <1>4, FreshDriverIsDriver DEF Resting, Fence, Stopping, Fits
<1>. QED BY <1>3, <1>4, <1>5, <1>6

Histories == [late : BOOLEAN, loose : BOOLEAN, forgot : BOOLEAN]
Sound == World \in Worlds /\ Sane(World) /\ Resting(World) /\ past \in Histories

\* A reservation is a round that was not there before.
LEMMA ReservesIsNotKept == Reserves => ~KeepsRound(World, World')
BY DEF Reserves, KeepsRound, World

\* The history follows every step.
LEMMA Remembered ==
    ASSUME Remembers
    PROVE  /\ past' \in Histories
           /\ past'.late = ComesLate /\ past'.loose = HangsLoose /\ past'.forgot = IsForgotten
<1>1. ComesLate \in BOOLEAN /\ HangsLoose \in BOOLEAN /\ IsForgotten \in BOOLEAN
  BY DEF ComesLate, HangsLoose, IsForgotten
<1>. QED BY <1>1 DEF Remembers, Histories

\* Every step keeps the sound part, and reserves no round of a halted goal.
LEMMA SoundStep == Sound /\ [Next]_vars => Moves(World, World') /\ Sound' /\ (Reserves => ~goal'.halted)
<1>1. SUFFICES ASSUME Sound, [Next]_vars PROVE Moves(World, World') /\ Sound' /\ (Reserves => ~goal'.halted)
  OBVIOUS
<1>2. Moves(World, World')
  BY <1>1, NextMoves, StutterMoves DEF Sound, Next
<1>3. Sane(World') /\ Resting(World') /\ World' \in Worlds /\ (KeepsRound(World, World') \/ ~World'.goal.halted)
  BY <1>1, <1>2 DEF Sound, Moves
<1>4. World'.goal = goal'
  BY DEF World
<1>5. past' \in Histories
  BY <1>1, Remembered DEF Sound, Next, vars
<1>. QED BY <1>2, <1>3, <1>4, <1>5, ReservesIsNotKept DEF Sound, Sane, Refs, Halts, Resting

LEMMA AlwaysSound == Spec => []Sound
<1>1. Init => Sound
  BY InitIsSound DEF Sound, Init, Nothing, Histories
<1>. QED BY <1>1, SoundStep, PTL DEF Spec

\* Every state is well typed, and a goal is armed only while it is active.
THEOREM TypeCorrect == Spec => []TypeOK
<1>1. Sound => TypeOK
  BY DEF Sound, World, Worlds, Sane, TypeOK, Histories
<1>. QED BY <1>1, AlwaysSound, PTL

\* index.ts, agent/status and turn/end: a goal whose driven turn was aborted has
\* no round reserved until a human resumes it, whatever the order of runs,
\* flushes, messages, changes, reloads and restarts.
THEOREM AbortAlwaysHalts == Spec => AbortHalts
<1>1. Sound /\ [Next]_vars => [Reserves => ~goal'.halted]_vars
  BY SoundStep
<1>. QED BY <1>1, AlwaysSound, PTL DEF Spec, AbortHalts

\* A checkpoint is owed, or a run that made it was forgotten.
Obliged == past.forgot \/ Owes(World)

LEMMA ObligedStep == Sound /\ Obliged /\ [Next]_vars => Obliged' /\ [Reserves => goal'.stored \/ past'.forgot]_vars
<1>1. SUFFICES ASSUME Sound, Obliged, [Next]_vars
               PROVE  Obliged' /\ [Reserves => goal'.stored \/ past'.forgot]_vars
  OBVIOUS
<1>2. World.goal = goal /\ World'.goal = goal' /\ World.driver = driver
  BY DEF World
<1>3. Moves(World, World')
  BY <1>1, SoundStep
<1>4. CASE UNCHANGED vars
  BY <1>1, <1>4 DEF Obliged, vars, World, Owes, Unstored
<1>5. CASE Next
  <2>1. past'.forgot = IsForgotten
    BY <1>5, Remembered DEF Next
  <2>2. ASSUME past.forgot PROVE past'.forgot \/ goal'.stored
    BY <2>1, <2>2 DEF IsForgotten
  <2>3. ASSUME goal'.stored PROVE Owes(World')
    BY <1>2, <2>3 DEF Owes, Unstored
  <2>4. ASSUME Owes(World) PROVE Owes(World') \/ past'.forgot
    <3>1. CASE Forgets(World, World') /\ ~Owes(World')
      <4>1. Driven(goal') /\ ~goal'.stored
        BY <1>2, <3>1 DEF Owes, Unstored
      <4>2. StaleRun /\ Changes
        <5>1. driver.loops \in Nat
          BY <1>1, <1>2 DEF Sound, Worlds, Drivers
        <5>. QED BY <1>2, <3>1, <5>1 DEF Forgets, StaleRun, Changes
      <4>. QED BY <2>1, <4>1, <4>2 DEF IsForgotten
    <3>. QED BY <1>3, <2>4, <3>1 DEF Moves
  <2>5. ASSUME Owes(World), Reserves PROVE goal'.stored
    BY <1>2, <1>3, <2>5, ReservesIsNotKept DEF Moves
  <2>6. Owes(World') \/ past'.forgot
    BY <1>1, <2>2, <2>3, <2>4 DEF Obliged
  <2>7. Reserves => goal'.stored \/ past'.forgot
    BY <1>1, <2>2, <2>5 DEF Obliged
  <2>8. Obliged'
    BY <2>6 DEF Obliged, Owes, Unstored
  <2>. QED BY <2>7, <2>8
<1>. QED BY <1>1, <1>4, <1>5

\* index.ts, drive(), goal/changed and retire(): a round is reserved only when every
\* change of the goal is stored, however changes, flushes and runs overlap, unless
\* the change came while a run retired that state.run no longer held.
THEOREM AlwaysCheckpointed == Spec => Checkpointed
<1>1. Init => Obliged
  BY InitIsSound DEF Obliged
<1>. QED BY <1>1, ObligedStep, AlwaysSound, PTL DEF Spec, Checkpointed

\* A round is fenced off, or one hangs loose; a decision stands, or a change has
\* come too late for it.
Guarded == (past.loose \/ Fence(World)) /\ (past.late \/ Fits(World))

LEMMA GuardedStep == Sound /\ Guarded /\ [Next]_vars => Guarded' /\ [goal'.corrupt => past.late \/ past.loose]_vars
<1>1. SUFFICES ASSUME Sound, Guarded, [Next]_vars
               PROVE  Guarded' /\ [goal'.corrupt => past.late \/ past.loose]_vars
  OBVIOUS
<1>2. /\ World.goal = goal /\ World'.goal = goal' /\ World.driver = driver /\ World'.driver = driver'
      /\ World.agent = agent /\ World'.agent = agent'
  BY DEF World
<1>3. Moves(World, World') /\ Sane(World) /\ Resting(World)
  BY <1>1, SoundStep DEF Sound
<1>4. CASE UNCHANGED vars
  BY <1>1, <1>4 DEF Guarded, vars, World, Fence, Fits
<1>5. CASE Next
  <2>1. past'.late = ComesLate /\ past'.loose = HangsLoose /\ ~goal.corrupt
    BY <1>5, Remembered DEF Next
  <2>2. ASSUME driver'.fiber = "active" \/ NoLooseRound' PROVE Fence(World')
    BY <1>2, <2>2 DEF Fence, Stopping, NoLooseRound, NoRounds
  <2>3. past'.loose \/ Fence(World')
    <3>1. CASE past.loose
      BY <2>1, <2>2, <3>1 DEF HangsLoose
    <3>2. CASE Loosens(World, World')
      <4>1. Unloads /\ ~JoinsTurn
        BY <1>2, <3>2 DEF Loosens, Unloads, JoinsTurn
      <4>. QED BY <2>1, <2>2, <4>1 DEF HangsLoose
    <3>. QED BY <1>1, <1>3, <3>1, <3>2 DEF Guarded, Moves
  <2>4. past'.late \/ Fits(World')
    <3>1. CASE agent'.pc # "decided"
      BY <1>2, <3>1 DEF Fits
    <3>2. CASE agent'.pc = "decided" /\ past.late
      BY <2>1, <3>2 DEF ComesLate
    <3>3. CASE agent'.pc = "decided" /\ Overtakes(World, World')
      BY <1>2, <2>1, <3>3 DEF ComesLate, Overtakes, Changes
    <3>. QED BY <1>1, <1>3, <3>1, <3>2, <3>3 DEF Guarded, Moves
  <2>5. goal'.corrupt => past.late \/ past.loose
    BY <1>1, <1>2, <1>3, <2>1 DEF Guarded, Moves
  <2>6. Guarded'
    BY <2>3, <2>4 DEF Guarded, Fence, Fits
  <2>. QED BY <2>5, <2>6
<1>. QED BY <1>1, <1>4, <1>5

\* index.ts, the two checks of the pre-step hook and the disposer, with the fold of
\* goal/src: every round that enters the log is the next of the current revision of
\* an active goal, unless a change overtook the second check or the plugin unloaded
\* past the round.
THEOREM LogAlwaysFolds == Spec => LogFolds
<1>1. Init => Guarded
  BY InitIsSound DEF Guarded
<1>. QED BY <1>1, GuardedStep, AlwaysSound, PTL DEF Spec, LogFolds
=============================================================================
