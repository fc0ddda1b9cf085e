--------------------------- MODULE MCPlaybackQueue ---------------------------
(* Instances of PlaybackQueue small enough for TLC. *)
EXTENDS PlaybackQueue, TLC

AnyName == Permutations(Clients) \cup Permutations(Sessions)
=============================================================================
