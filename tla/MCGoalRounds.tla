----------------------------- MODULE MCGoalRounds -----------------------------
\* An instance of GoalRounds for TLC, with the constants the .cfg files give.
EXTENDS GoalRounds
=============================================================================
