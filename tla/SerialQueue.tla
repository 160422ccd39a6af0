---------------------------- MODULE SerialQueue ----------------------------
(***************************************************************************)
(* What the docstring of queue_model_retraining promises                   *)
(* (scheduler_engine.py: "Queue an affected training job once and run      *)
(* model families sequentially"): families wait in arrival order, a family *)
(* is admitted at most once, and at most one of them has the turn.         *)
(***************************************************************************)
EXTENDS Naturals, Sequences

CONSTANTS
  Families,
  None       \* not a family

VARIABLES
  waiting,     \* families that wait for a turn, oldest first
  turn,        \* the family whose turn it is, or None
  past         \* the families that were ever given the turn, in order

vars == <<waiting, turn, past>>

Within(f, s) == \E i \in DOMAIN s : s[i] = f

Init ==
  /\ waiting = <<>>
  /\ turn = None
  /\ past = <<>>

\* A family that neither waits nor has had its turn joins the end of the queue.
Arrive(f) ==
  /\ ~Within(f, past)
  /\ ~Within(f, waiting)
  /\ waiting' = Append(waiting, f)
  /\ UNCHANGED <<turn, past>>

\* With the turn free, the oldest waiting family takes it.
TakeTurn ==
  /\ turn = None
  /\ waiting # <<>>
  /\ turn' = Head(waiting)
  /\ past' = Append(past, Head(waiting))
  /\ waiting' = Tail(waiting)

EndTurn ==
  /\ turn # None
  /\ turn' = None
  /\ UNCHANGED <<waiting, past>>

Next == (\E f \in Families : Arrive(f)) \/ TakeTurn \/ EndTurn

Spec == Init /\ [][Next]_vars
=============================================================================
