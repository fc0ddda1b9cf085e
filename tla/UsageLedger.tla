---------------------------- MODULE UsageLedger -----------------------------
(***************************************************************************)
(* The durable ledger of paid model calls (metis_head/usage/accounting.py) *)
(* and the reservation-first executor that is its only caller              *)
(* (metis_head/usage/paid_calls.py).  Every worker is a process with a     *)
(* UsageLedger of its own on one shared file.  A transaction is two steps: *)
(* Enter takes the sidecar file lock and reloads the file into _records,   *)
(* the step after it changes _records, replaces the file and unlocks.  A   *)
(* process may crash between any two steps; the operating system drops its *)
(* lock, and os.replace leaves either the old or the new file.             *)
(*                                                                         *)
(* Money is a number of micro-dollars: ModelPrice.cost and _money both     *)
(* produce six decimals.  The provider is external: it bills a dispatched  *)
(* call what it likes, at the moment of dispatch, whether or not an answer *)
(* comes back.  Left out: metadata, timestamps, provider and model names.  *)
(***************************************************************************)
EXTENDS Naturals, Sequences, Functions

CONSTANTS Workers,      \* processes that may use the ledger
          Budgets,      \* amounts METIS_PAID_BUDGET_USD may name
          Unset,        \* METIS_PAID_BUDGET_USD is not configured
          NoFile,       \* the ledger file does not exist
          Estimates,    \* price.cost(maximum_usage) of the calls made
          Unknown,      \* no price for the model: estimated_usd = None
          Bills,        \* what the provider may bill a call
          NotCalled,    \* the provider was never asked
          NoWorker,     \* nobody holds the file lock
          MaxRecords    \* bound of the model: no call is begun beyond it

ASSUME AmountsAreNumbers ==
    /\ Budgets \subseteq Nat /\ Estimates \subseteq Nat /\ Bills \subseteq Nat
    /\ Unset \notin Nat /\ NoFile \notin Nat \cup {Unset}
    /\ Unknown \notin Nat /\ NotCalled \notin Nat
    /\ NoWorker \notin Workers /\ MaxRecords \in Nat

VARIABLES file_budget,  \* "budget_usd" in the file, or NoFile
          records,      \* "records" in the file; a reservation_id is a position
          holder,       \* who holds the lock on the sidecar file
          cache,        \* _records of each worker's ledger
          configured,   \* budget_usd of each worker's ledger
          pc,           \* where each worker is in PaidCallExecutor.execute
          estimate,     \* estimated_usd of its call
          rid,          \* reservation.reservation_id of its call, 0 before
          actual,       \* the amount it is about to reconcile
          billed        \* external: what the provider billed for each reservation

vars == <<file_budget, records, holder, cache, configured, pc, estimate, rid, actual, billed>>
ledger_file == <<file_budget, records>>
call == <<estimate, rid, actual>>

Ceiling == INSTANCE SpendCeiling WITH ceiling <- file_budget, Amounts <- Estimates \cup Bills

Reservation == Ceiling!Spend
Committed(spends) == Ceiling!Committed(spends)

Waiting == {"opening", "reserving", "releasing", "reconciling"}
InCall == {"approved", "releasing", "calling", "reconciling"}
Steps == Waiting \cup InCall \cup {"off", "idle"}

Init ==
    /\ file_budget = NoFile /\ records = <<>> /\ billed = <<>>
    /\ holder = NoWorker
    /\ cache = [w \in Workers |-> <<>>]
    /\ configured = [w \in Workers |-> Unset]
    /\ pc = [w \in Workers |-> "off"]
    /\ estimate = [w \in Workers |-> Unknown]
    /\ rid = [w \in Workers |-> 0]
    /\ actual = [w \in Workers |-> 0]

Goto(w, step) == pc' = [pc EXCEPT ![w] = step]

\* Where an exception leaves the worker: without a ledger, or without its call.
Raise(w) == Goto(w, IF pc[w] = "opening" THEN "off" ELSE "idle")

(***************************************************************************)
(* The transaction                                                         *)
(***************************************************************************)
BudgetAgrees(w) == file_budget \in {NoFile, configured[w]}

\* Faulty variant: _records is loaded by the first transaction only.
ReloadedOnce(w) == cache' = [cache EXCEPT ![w] = IF cache[w] = <<>> THEN records ELSE cache[w]]

Reloaded(w) == cache' = [cache EXCEPT ![w] = records]

Enter(w) ==
    /\ pc[w] \in Waiting
    /\ holder = NoWorker /\ BudgetAgrees(w)
    /\ holder' = w
    /\ Reloaded(w)
    /\ UNCHANGED <<ledger_file, configured, pc, call, billed>>

\* _load_unlocked raises LedgerConfigurationError and the lock is given back.
EnterRefused(w) ==
    /\ pc[w] \in Waiting
    /\ holder = NoWorker /\ ~BudgetAgrees(w)
    /\ Raise(w)
    /\ UNCHANGED <<ledger_file, holder, cache, configured, call, billed>>

\* _save_unlocked replaces the file and the transaction ends.
Save(w, spends) ==
    /\ records' = spends
    /\ cache' = [cache EXCEPT ![w] = spends]
    /\ file_budget' = configured[w]
    /\ holder' = NoWorker

\* The transaction ends without saving.
Leave(w) == holder' = NoWorker /\ UNCHANGED <<ledger_file, cache>>

(***************************************************************************)
(* UsageLedger                                                             *)
(***************************************************************************)
Open(w, budget) ==
    /\ pc[w] = "off"
    /\ configured' = [configured EXCEPT ![w] = budget]
    /\ Goto(w, "opening")
    /\ UNCHANGED <<ledger_file, holder, cache, call, billed>>

Opened(w) ==
    /\ holder = w /\ pc[w] = "opening"
    /\ IF file_budget = NoFile THEN Save(w, cache[w]) ELSE Leave(w)
    /\ Goto(w, "idle")
    /\ UNCHANGED <<configured, call, billed>>

\* Faulty variant: what is already committed is not counted.
FitsAlone(w) ==
    /\ estimate[w] # Unknown
    /\ configured[w] # Unset
    /\ estimate[w] <= configured[w]

Fits(w) ==
    /\ estimate[w] # Unknown
    /\ configured[w] # Unset
    /\ Committed(cache[w]) + estimate[w] <= configured[w]

Reserve(w) ==
    /\ holder = w /\ pc[w] = "reserving" /\ Fits(w)
    /\ Save(w, Append(cache[w], [status |-> "reserved", reserved |-> estimate[w], actual |-> 0]))
    /\ billed' = Append(billed, NotCalled)
    /\ rid' = [rid EXCEPT ![w] = Len(cache[w]) + 1]
    /\ Goto(w, "approved")
    /\ UNCHANGED <<configured, estimate, actual>>

\* PricingUnknown or BudgetExceeded.
ReserveRefused(w) ==
    /\ holder = w /\ pc[w] = "reserving" /\ ~Fits(w)
    /\ Leave(w) /\ Raise(w)
    /\ UNCHANGED <<configured, call, billed>>

IsOpen(w) == cache[w][rid[w]].status = "reserved"

Settled(w, status, amount) ==
    IF IsOpen(w) THEN Save(w, Ceiling!Settle(cache[w], rid[w], status, amount))
                 ELSE Leave(w)

Release(w) ==
    /\ holder = w /\ pc[w] = "releasing"
    /\ Settled(w, "released", 0)
    /\ Goto(w, "idle")
    /\ UNCHANGED <<configured, call, billed>>

Reconcile(w) ==
    /\ holder = w /\ pc[w] = "reconciling"
    /\ Settled(w, "reconciled", actual[w])
    /\ Goto(w, "idle")
    /\ UNCHANGED <<configured, call, billed>>

\* The write or the fsync fails: the file is the old one, _records is not
\* trusted again before the next reload.
SaveFails(w) ==
    /\ holder = w
    /\ \/ pc[w] = "opening" /\ file_budget = NoFile
       \/ pc[w] = "reserving" /\ Fits(w)
       \/ pc[w] \in {"releasing", "reconciling"} /\ IsOpen(w)
    /\ Leave(w) /\ Raise(w)
    /\ UNCHANGED <<configured, call, billed>>

(***************************************************************************)
(* PaidCallExecutor.execute                                                *)
(***************************************************************************)
BeginCall(w, amount) ==
    /\ pc[w] = "idle" /\ Len(records) < MaxRecords
    /\ estimate' = [estimate EXCEPT ![w] = amount]
    /\ rid' = [rid EXCEPT ![w] = 0]
    /\ actual' = [actual EXCEPT ![w] = 0]
    /\ Goto(w, "reserving")
    /\ UNCHANGED <<ledger_file, holder, cache, configured, billed>>

\* cancellation.cancelled is read once, after the reservation is on disk.
CancelledBeforeDispatch(w) ==
    /\ pc[w] = "approved"
    /\ Goto(w, "releasing")
    /\ UNCHANGED <<ledger_file, holder, cache, configured, call, billed>>

Dispatch(w, bill) ==
    /\ pc[w] = "approved"
    /\ billed' = [billed EXCEPT ![rid[w]] = bill]
    /\ Goto(w, "calling")
    /\ UNCHANGED <<ledger_file, holder, cache, configured, call>>

CallEnds(w, amount) ==
    /\ pc[w] = "calling"
    /\ actual' = [actual EXCEPT ![w] = amount]
    /\ Goto(w, "reconciling")
    /\ UNCHANGED <<ledger_file, holder, cache, configured, estimate, rid, billed>>

\* Faulty variant: an answer without token counts is priced as None.
CallEndsUnpriced(w) == CallEnds(w, Unknown)

\* The answer carries the provider's token counts.
CallReportsUsage(w) == CallEnds(w, billed[rid[w]])

\* Faulty variant: a call that raised is taken for one that never happened.
CallChargesNothing(w) == CallEnds(w, 0)

\* call() raises, or answers without usable token counts: the reservation
\* stands as the charge.
CallEndsUncertain(w) == CallEnds(w, estimate[w])

\* usage_from_result raises: nothing reconciles.
UsageUnreadable(w) ==
    /\ pc[w] = "calling"
    /\ Goto(w, "idle")
    /\ UNCHANGED <<ledger_file, holder, cache, configured, call, billed>>

\* Faulty variant: the lock is a file that outlives its owner.
CrashHoldingLock(w) ==
    /\ pc[w] # "off"
    /\ Goto(w, "off")
    /\ cache' = [cache EXCEPT ![w] = <<>>]
    /\ UNCHANGED <<ledger_file, holder, configured, call, billed>>

Crash(w) ==
    /\ pc[w] # "off"
    /\ Goto(w, "off")
    /\ holder' = IF holder = w THEN NoWorker ELSE holder
    /\ cache' = [cache EXCEPT ![w] = <<>>]
    /\ UNCHANGED <<ledger_file, configured, call, billed>>

Finish(w) ==
    Opened(w) \/ Reserve(w) \/ ReserveRefused(w) \/ Release(w) \/ Reconcile(w) \/ SaveFails(w)

Next == \E w \in Workers :
    \/ \E budget \in Budgets \cup {Unset} : Open(w, budget)
    \/ Enter(w) \/ EnterRefused(w)
    \/ Opened(w) \/ Reserve(w) \/ ReserveRefused(w)
    \/ Release(w) \/ Reconcile(w) \/ SaveFails(w)
    \/ \E amount \in Estimates \cup {Unknown} : BeginCall(w, amount)
    \/ CancelledBeforeDispatch(w)
    \/ \E bill \in Bills : Dispatch(w, bill)
    \/ CallReportsUsage(w) \/ CallEndsUncertain(w) \/ UsageUnreadable(w)
    \/ Crash(w)

Spec == Init /\ [][Next]_vars

\* The holder of the lock does file operations only; the kernel hands a
\* released flock to some waiter and starves none.
Fairness == \A w \in Workers :
    WF_vars(Finish(w)) /\ SF_vars(Enter(w) \/ EnterRefused(w))

FairSpec == Spec /\ Fairness

(***************************************************************************)
(* Properties                                                              *)
(***************************************************************************)
TypeOK ==
    /\ file_budget \in Budgets \cup {Unset, NoFile}
    /\ records \in Seq(Reservation)
    /\ holder \in Workers \cup {NoWorker}
    /\ cache \in [Workers -> Seq(Reservation)]
    /\ configured \in [Workers -> Budgets \cup {Unset}]
    /\ pc \in [Workers -> Steps]
    /\ estimate \in [Workers -> Estimates \cup {Unknown}]
    /\ rid \in [Workers -> Nat]
    /\ actual \in [Workers -> Estimates \cup Bills \cup {0}]
    /\ billed \in Seq(Bills \cup {NotCalled})

\* Whatever the interleaving of processes, crashes and failed writes, the
\* part of the recorded spend that was approved in advance never exceeds the
\* recorded budget; only a provider that bills more than the approved maximum
\* takes the total above it (UsageLedger.reserve under _transaction).
Approved(spend) ==
    IF spend.status = "reconciled" /\ spend.actual > spend.reserved
    THEN spend.reserved ELSE Ceiling!Charged(spend)

ApprovedSpendWithinBudget ==
    file_budget \in Nat =>
        SumFunction([i \in DOMAIN records |-> Approved(records[i])]) <= file_budget

\* A call the provider was asked to make is on the books for ever, at no less
\* than what the provider billed, unless the provider billed more than the
\* approved maximum without reporting it (PaidCallExecutor.execute).
CallIsOnTheBooks ==
    \A i \in DOMAIN billed : billed[i] # NotCalled =>
        /\ i \in DOMAIN records
        /\ records[i].status # "released"
        /\ Ceiling!Charged(records[i]) < billed[i] => billed[i] > records[i].reserved

\* The file behaves as one atomic ledger: no reservation, release or charge is
\* lost or applied twice by processes that share it (UsageLedger._transaction).
RefinesCeiling == Ceiling!Spec

\* A process that waits for the ledger gets it, refusal included, as long as it
\* lives, whatever the others crash in the middle of (UsageLedger._transaction).
NobodyWaitsForEver == \A w \in Workers :
    (pc[w] \in Waiting) ~> (holder = w \/ pc[w] \notin Waiting)

\* The ledger and its callers are of their types, and no call is off the books:
\* PaidCallExecutor.execute under crashes and failed writes.
BooksAreSound == TypeOK /\ CallIsOnTheBooks
=============================================================================
