------------------------- MODULE MCGovernedAccounts -------------------------
(***************************************************************************)
(* What needs the operator's word: the proposals and plans that run tools, *)
(* and the accounts that are connected and let go.  Neither calls the      *)
(* other, so that a behaviour is about one of them, its focus.             *)
(***************************************************************************)
EXTENDS MCGovernedActions, Accounts

VARIABLE focus

MCInit ==
    /\ Init /\ AccountsInit
    /\ \/ focus = "accounts"
       \/ focus = "governed" /\ \A a \in GoogleAccounts : ~Connected(a) /\ records[a] = NoRecord

MCNext ==
    /\ \/ focus = "governed" /\ Next /\ UNCHANGED accountVars
       \/ focus = "accounts" /\ AccountsNext /\ UNCHANGED vars
       \/ focus = "accounts" /\ UNCHANGED <<vars, accountVars>>   \* they may rest
    /\ UNCHANGED focus

MCSpec == MCInit /\ [][MCNext]_<<vars, accountVars, focus>>

AnyName == Symmetry \cup Permutations(Requests)
=============================================================================
