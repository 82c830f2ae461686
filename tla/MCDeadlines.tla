----------------------------- MODULE MCDeadlines ----------------------------
(* Deadlines for TLC: every operation, with the code's seconds. *)
EXTENDS Deadlines
=============================================================================
