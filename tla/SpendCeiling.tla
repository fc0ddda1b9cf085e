---------------------------- MODULE SpendCeiling ----------------------------
(***************************************************************************)
(* What the paid-usage ledger promises, without its file, its lock or its  *)
(* processes: one ceiling for everybody, an approval only while what is    *)
(* already committed and the new estimate fit under it, and an approval    *)
(* that is settled at most once, by releasing it or by charging it.        *)
(***************************************************************************)
EXTENDS Naturals, Sequences, Functions

CONSTANTS Amounts,    \* estimates approved and bills charged
          Budgets,    \* amounts METIS_PAID_BUDGET_USD may name
          Unset,      \* no budget configured: every paid call is refused
          NoFile      \* no ceiling has been recorded yet

VARIABLES ceiling, records

Spend == [status: {"reserved", "reconciled", "released"}, reserved: Nat, actual: Nat]

\* What a record counts towards the budget.
Charged(spend) ==
    CASE spend.status = "reserved"   -> spend.reserved
      [] spend.status = "reconciled" -> spend.actual
      [] OTHER                       -> 0

Committed(spends) == SumFunction([i \in DOMAIN spends |-> Charged(spends[i])])

Settle(spends, i, status, amount) ==
    [spends EXCEPT ![i] = [status |-> status, reserved |-> @.reserved, actual |-> amount]]

Init == ceiling = NoFile /\ records = <<>>

\* The first process fixes the ceiling for good.
FixCeiling(budget) ==
    /\ ceiling = NoFile
    /\ ceiling' = budget
    /\ UNCHANGED records

Approve(amount) ==
    /\ ceiling \in Budgets
    /\ Committed(records) + amount <= ceiling
    /\ records' = Append(records, [status |-> "reserved", reserved |-> amount, actual |-> 0])
    /\ UNCHANGED ceiling

Release(i) ==
    /\ records[i].status = "reserved"
    /\ records' = Settle(records, i, "released", 0)
    /\ UNCHANGED ceiling

Charge(i, amount) ==
    /\ records[i].status = "reserved"
    /\ records' = Settle(records, i, "reconciled", amount)
    /\ UNCHANGED ceiling

Next ==
    \/ \E budget \in Budgets \cup {Unset} : FixCeiling(budget)
    \/ \E amount \in Amounts : Approve(amount)
    \/ \E i \in DOMAIN records : Release(i)
    \/ \E i \in DOMAIN records, amount \in Amounts : Charge(i, amount)

Spec == Init /\ [][Next]_<<ceiling, records>>
=============================================================================
