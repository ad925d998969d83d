------------------------------- MODULE TurnLog -------------------------------
(***************************************************************************)
(* What one session log promises about turns and steps, as its invariant   *)
(* companion validates it (packages/core/session/src/invariant.ts): turns  *)
(* are numbered from 1 without a gap and never overlap; inside a turn the   *)
(* steps are numbered from 1 without a gap and never overlap; a turn never  *)
(* ends over an open step.  The log is whatever appends to it; this is the  *)
(* abstract specification the agent driver is shown to implement.           *)
(***************************************************************************)
EXTENDS Naturals

VARIABLES openTurn, openStep,   \* number of the open turn / step, 0 when none
          nextTurn, nextStep    \* the only number the next start may carry

logVars == <<openTurn, openStep, nextTurn, nextStep>>

Init == openTurn = 0 /\ openStep = 0 /\ nextTurn = 1 /\ nextStep = 1

TurnStart == /\ openTurn = 0
             /\ openTurn' = nextTurn
             /\ nextStep' = 1
             /\ UNCHANGED <<openStep, nextTurn>>

TurnEnd == /\ openTurn # 0 /\ openStep = 0
           /\ openTurn' = 0
           /\ nextTurn' = nextTurn + 1
           /\ UNCHANGED <<openStep, nextStep>>

StepStart == /\ openTurn # 0 /\ openStep = 0
             /\ openStep' = nextStep
             /\ UNCHANGED <<openTurn, nextTurn, nextStep>>

StepEnd == /\ openTurn # 0 /\ openStep # 0
           /\ openStep' = 0
           /\ nextStep' = nextStep + 1
           /\ UNCHANGED <<openTurn, nextTurn>>

\* The closers a crash repair appends after a torn tail, in one batch: the
\* open step's end, then the open turn's.
Interrupt == /\ openTurn # 0
             /\ openTurn' = 0 /\ openStep' = 0
             /\ nextTurn' = nextTurn + 1
             /\ nextStep' = nextStep + (IF openStep # 0 THEN 1 ELSE 0)

Next == TurnStart \/ TurnEnd \/ StepStart \/ StepEnd \/ Interrupt

Spec == Init /\ [][Next]_logVars
=============================================================================
