------------------------- MODULE MCTurnCancellation -------------------------
(* Instances of TurnCancellation small enough for TLC. *)
EXTENDS TurnCancellation, TLC

AnyThread == Permutations(Threads)
=============================================================================
