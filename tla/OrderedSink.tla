---------------------------- MODULE OrderedSink ----------------------------
(***************************************************************************)
(* What a write controller promises to the session that feeds it: the      *)
(* events it accepts become durable in the order they were accepted, each  *)
(* at most once, and nothing it accepted is ever dropped.                  *)
(***************************************************************************)
EXTENDS Naturals, Sequences

CONSTANT Event                   \* the events a session can emit

VARIABLES accepted,              \* every event handed over, in order
          durable                \* every event the sink has stored, in order

vars == <<accepted, durable>>

Init == accepted = <<>> /\ durable = <<>>

Accept == \E e \in Event : /\ accepted' = Append(accepted, e)
                           /\ UNCHANGED durable

\* A store makes a longer prefix of what was accepted durable.
Store == \E n \in Len(durable)..Len(accepted) :
            /\ durable' = SubSeq(accepted, 1, n)
            /\ UNCHANGED accepted

Next == Accept \/ Store

Spec == Init /\ [][Next]_vars
=============================================================================
