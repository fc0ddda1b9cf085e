--------------------------- MODULE MCConversation ---------------------------
(* Instances of Conversation small enough for TLC. *)
EXTENDS Conversation, TLC

CONSTANT TheClient

(* Every session belongs to the one browser. *)
OneClient == {TheClient}
OneClientOwnsAll == [s \in SessionIds |-> TheClient]

AnyThread == Permutations(Threads)
=============================================================================
