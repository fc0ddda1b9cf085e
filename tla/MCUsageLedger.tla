--------------------------- MODULE MCUsageLedger ----------------------------
(* Two processes on one ledger file, with small amounts of money. *)
EXTENDS UsageLedger
=============================================================================
