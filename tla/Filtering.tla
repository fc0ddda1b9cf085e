------------------------------- MODULE Filtering -------------------------------
(***************************************************************************)
(* How the queues of src/metis_head are thinned out: a deque is rebuilt    *)
(* from those of its members that stay, in their order.  This is SelectSeq *)
(* of the standard modules, written as a recursive function of the length  *)
(* and with the members that stay as a set, so that SequenceLemmas can     *)
(* reason about it.                                                        *)
(***************************************************************************)
EXTENDS Integers, Sequences

Only(seq, keep) ==
    LET kept[n \in 0 .. Len(seq)] ==
            IF n = 0 THEN <<>>
            ELSE IF seq[n] \in keep THEN Append(kept[n - 1], seq[n]) ELSE kept[n - 1]
    IN  kept[Len(seq)]
=============================================================================
