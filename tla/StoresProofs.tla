---------------------------- MODULE StoresProofs -----------------------------
(***************************************************************************)
(* Proofs about what is kept beside the conversation: the ledger of paid   *)
(* calls, the setup wizard's settings file and the spoken audio, for any   *)
(* processes, requests, sizes, amounts and bounds.                         *)
(***************************************************************************)
EXTENDS UsageLedger, SetupState, AudioArtifacts, SequenceLemmas

(***************************************************************************)
(* The ledger.  The lock is what makes it: while somebody holds it, that   *)
(* process's _records are what is on disk and its budget is the recorded   *)
(* one (LockedCacheIsDisk).  The executor is what makes the books: the     *)
(* reservation a worker is busy with is on disk, still open, and nobody    *)
(* else's (CallsHoldReservations, CallsAreApart), so settling it touches   *)
(* no other call, and a call that was dispatched can no longer be released *)
(* (BillsOfCalls).                                                         *)
(***************************************************************************)

(***************************************************************************)
(* The inductive invariant                                                 *)
(***************************************************************************)
LockedCacheIsDisk ==
    holder # NoWorker =>
        pc[holder] \in Waiting /\ cache[holder] = records /\ BudgetAgrees(holder)

OneBudget ==
    \A w \in Workers : pc[w] \notin {"off", "opening"} => configured[w] = file_budget

BillsFollowRecords == Len(billed) = Len(records)

CallsHoldReservations ==
    \A w \in Workers : pc[w] \in InCall =>
        /\ rid[w] \in DOMAIN records
        /\ records[rid[w]].status = "reserved"
        /\ records[rid[w]].reserved = estimate[w]

CallsAreApart ==
    \A v, w \in Workers :
        pc[v] \in InCall /\ pc[w] \in InCall /\ v # w => rid[v] # rid[w]

BillsOfCalls ==
    \A w \in Workers :
        /\ pc[w] \in {"approved", "releasing"} => billed[rid[w]] = NotCalled
        /\ pc[w] \in {"calling", "reconciling"} => billed[rid[w]] \in Bills
        /\ pc[w] = "reconciling" =>
               /\ actual[w] \in Estimates \cup Bills
               /\ actual[w] < billed[rid[w]] => estimate[w] < billed[rid[w]]

Inv ==
    /\ TypeOK
    /\ LockedCacheIsDisk /\ OneBudget /\ BillsFollowRecords
    /\ CallsHoldReservations /\ CallsAreApart /\ BillsOfCalls
    /\ CallIsOnTheBooks

(***************************************************************************)
(* Sequences                                                               *)
(***************************************************************************)

\* Appending an entry keeps the earlier ones where they are.
LEMMA AppendFacts ==
    ASSUME NEW S, NEW s \in Seq(S), NEW e \in S
    PROVE  /\ Append(s, e) \in Seq(S)
           /\ Len(Append(s, e)) = Len(s) + 1
           /\ DOMAIN s = 1..Len(s) /\ Len(s) \in Nat
           /\ DOMAIN Append(s, e) = 1..(Len(s) + 1)
           /\ Append(s, e)[Len(s) + 1] = e
           /\ \A i \in DOMAIN s : Append(s, e)[i] = s[i]
OBVIOUS

\* Settling an entry changes its status and amount and no other entry.
LEMMA SettleFacts ==
    ASSUME NEW s \in Seq(Reservation), NEW i \in DOMAIN s,
           NEW status \in {"released", "reconciled"}, NEW amount \in Nat
    PROVE  LET t == Ceiling!Settle(s, i, status, amount) IN
           /\ t \in Seq(Reservation)
           /\ Len(t) = Len(s) /\ DOMAIN t = DOMAIN s
           /\ t[i] = [status |-> status, reserved |-> s[i].reserved, actual |-> amount]
           /\ \A j \in DOMAIN s : j # i => t[j] = s[j]
<1>1. s[i] \in Reservation
  OBVIOUS
<1>2. [status |-> status, reserved |-> s[i].reserved, actual |-> amount] \in Reservation
  BY <1>1 DEF Reservation, Ceiling!Spend
<1> QED
  BY <1>1, <1>2 DEF Ceiling!Settle

\* Billing a call changes the bill of that call alone.
LEMMA BillFacts ==
    ASSUME NEW S, NEW s \in Seq(S), NEW i \in DOMAIN s, NEW e \in S
    PROVE  LET t == [s EXCEPT ![i] = e] IN
           /\ t \in Seq(S) /\ Len(t) = Len(s) /\ DOMAIN t = DOMAIN s
           /\ t[i] = e /\ \A j \in DOMAIN s : j # i => t[j] = s[j]
OBVIOUS

(***************************************************************************)
(* Every step keeps the invariant                                          *)
(***************************************************************************)
LEMMA InitInvariant == Init => Inv
BY AmountsAreNumbers
DEF Init, Inv, TypeOK, LockedCacheIsDisk, OneBudget, BillsFollowRecords, CallsHoldReservations,
    CallsAreApart, BillsOfCalls, CallIsOnTheBooks, InCall, Waiting, Steps

LEMMA OpenKeeps ==
    ASSUME Inv, NEW w \in Workers, NEW budget \in Budgets \cup {Unset}, Open(w, budget)
    PROVE  Inv'
BY AmountsAreNumbers
DEF Open, Goto, ledger_file, call, Inv, TypeOK, LockedCacheIsDisk, OneBudget, BillsFollowRecords, CallsHoldReservations,
    CallsAreApart, BillsOfCalls, CallIsOnTheBooks, InCall, Waiting, Steps, BudgetAgrees

LEMMA EnterKeeps ==
    ASSUME Inv, NEW w \in Workers, Enter(w)
    PROVE  Inv'
BY AmountsAreNumbers
DEF Enter, Reloaded, ledger_file, call, Inv, TypeOK, LockedCacheIsDisk, OneBudget, BillsFollowRecords, CallsHoldReservations,
    CallsAreApart, BillsOfCalls, CallIsOnTheBooks, InCall, Waiting, Steps, BudgetAgrees

LEMMA EnterRefusedKeeps ==
    ASSUME Inv, NEW w \in Workers, EnterRefused(w)
    PROVE  Inv'
BY AmountsAreNumbers
DEF EnterRefused, Raise, Goto, ledger_file, call, Inv, TypeOK, LockedCacheIsDisk, OneBudget, BillsFollowRecords, CallsHoldReservations,
    CallsAreApart, BillsOfCalls, CallIsOnTheBooks, InCall, Waiting, Steps, BudgetAgrees

LEMMA OpenedKeeps ==
    ASSUME Inv, NEW w \in Workers, Opened(w)
    PROVE  Inv'
BY AmountsAreNumbers
DEF Opened, Save, Leave, Goto, ledger_file, call, Inv, TypeOK, LockedCacheIsDisk, OneBudget, BillsFollowRecords, CallsHoldReservations,
    CallsAreApart, BillsOfCalls, CallIsOnTheBooks, InCall, Waiting, Steps, BudgetAgrees

LEMMA ReserveRefusedKeeps ==
    ASSUME Inv, NEW w \in Workers, ReserveRefused(w)
    PROVE  Inv'
BY AmountsAreNumbers
DEF ReserveRefused, Leave, Raise, Goto, ledger_file, call, Inv, TypeOK, LockedCacheIsDisk, OneBudget, BillsFollowRecords, CallsHoldReservations,
    CallsAreApart, BillsOfCalls, CallIsOnTheBooks, InCall, Waiting, Steps, BudgetAgrees

LEMMA SaveFailsKeeps ==
    ASSUME Inv, NEW w \in Workers, SaveFails(w)
    PROVE  Inv'
BY AmountsAreNumbers
DEF SaveFails, Leave, Raise, Goto, ledger_file, call, Inv, TypeOK, LockedCacheIsDisk, OneBudget, BillsFollowRecords, CallsHoldReservations,
    CallsAreApart, BillsOfCalls, CallIsOnTheBooks, InCall, Waiting, Steps, BudgetAgrees

LEMMA BeginCallKeeps ==
    ASSUME Inv, NEW w \in Workers, NEW amount \in Estimates \cup {Unknown}, BeginCall(w, amount)
    PROVE  Inv'
BY AmountsAreNumbers
DEF BeginCall, Goto, ledger_file, call, Inv, TypeOK, LockedCacheIsDisk, OneBudget, BillsFollowRecords, CallsHoldReservations,
    CallsAreApart, BillsOfCalls, CallIsOnTheBooks, InCall, Waiting, Steps, BudgetAgrees

LEMMA CancelledBeforeDispatchKeeps ==
    ASSUME Inv, NEW w \in Workers, CancelledBeforeDispatch(w)
    PROVE  Inv'
BY AmountsAreNumbers
DEF CancelledBeforeDispatch, Goto, ledger_file, call, Inv, TypeOK, LockedCacheIsDisk, OneBudget, BillsFollowRecords, CallsHoldReservations,
    CallsAreApart, BillsOfCalls, CallIsOnTheBooks, InCall, Waiting, Steps, BudgetAgrees

LEMMA UnreadableKeeps ==
    ASSUME Inv, NEW w \in Workers, UsageUnreadable(w)
    PROVE  Inv'
BY AmountsAreNumbers
DEF UsageUnreadable, Goto, ledger_file, call, Inv, TypeOK, LockedCacheIsDisk, OneBudget, BillsFollowRecords, CallsHoldReservations,
    CallsAreApart, BillsOfCalls, CallIsOnTheBooks, InCall, Waiting, Steps, BudgetAgrees

LEMMA CrashKeeps ==
    ASSUME Inv, NEW w \in Workers, Crash(w)
    PROVE  Inv'
BY AmountsAreNumbers
DEF Crash, Goto, ledger_file, call, Inv, TypeOK, LockedCacheIsDisk, OneBudget, BillsFollowRecords, CallsHoldReservations,
    CallsAreApart, BillsOfCalls, CallIsOnTheBooks, InCall, Waiting, Steps, BudgetAgrees

LEMMA ReserveKeeps ==
    ASSUME Inv, NEW w \in Workers, Reserve(w)
    PROVE  Inv'
<1> DEFINE entry == [status |-> "reserved", reserved |-> estimate[w], actual |-> 0]
<1>1. estimate[w] \in Estimates /\ cache[w] = records /\ records \in Seq(Reservation)
      /\ configured[w] = file_budget /\ file_budget \in Budgets
  BY AmountsAreNumbers
  DEF Inv, TypeOK, Reserve, Fits, LockedCacheIsDisk, OneBudget
<1>2. entry \in Reservation
  BY <1>1, AmountsAreNumbers DEF Reservation, Ceiling!Spend
<1>3. /\ records' = Append(records, entry) /\ billed' = Append(billed, NotCalled)
      /\ rid' = [rid EXCEPT ![w] = Len(records) + 1] /\ pc' = [pc EXCEPT ![w] = "approved"]
      /\ cache' = [cache EXCEPT ![w] = records'] /\ holder' = NoWorker
      /\ pc[w] = "reserving"
      /\ UNCHANGED <<file_budget, configured, estimate, actual>>
  BY <1>1 DEF Reserve, Save, Goto
<1>4. /\ records' \in Seq(Reservation) /\ Len(records') = Len(records) + 1
      /\ DOMAIN records = 1..Len(records) /\ Len(records) \in Nat
      /\ DOMAIN records' = 1..(Len(records) + 1)
      /\ records'[Len(records) + 1] = entry
      /\ \A i \in DOMAIN records : records'[i] = records[i]
  BY <1>1, <1>2, <1>3, AppendFacts
<1>5. billed \in Seq(Bills \cup {NotCalled}) /\ Len(billed) = Len(records)
  BY DEF Inv, TypeOK, BillsFollowRecords
<1>6. /\ billed' \in Seq(Bills \cup {NotCalled}) /\ Len(billed') = Len(billed) + 1
      /\ DOMAIN billed = 1..Len(billed)
      /\ DOMAIN billed' = 1..(Len(billed) + 1)
      /\ billed'[Len(billed) + 1] = NotCalled
      /\ \A i \in DOMAIN billed : billed'[i] = billed[i]
  <2>1. NotCalled \in Bills \cup {NotCalled}
    OBVIOUS
  <2> QED
    BY <1>3, <1>5, <2>1, AppendFacts
<1> HIDE DEF entry
<1>7. TypeOK'
  BY <1>1, <1>3, <1>4, <1>6 DEF Inv, TypeOK, Steps, InCall
<1>8. (LockedCacheIsDisk /\ OneBudget /\ BillsFollowRecords)'
  BY <1>1, <1>3, <1>4, <1>5, <1>6 DEF Inv, TypeOK, LockedCacheIsDisk, OneBudget, BillsFollowRecords
<1>9. CallsHoldReservations'
  <2>1. entry.status = "reserved" /\ entry.reserved = estimate[w]
    BY DEF entry
  <2> QED
    BY <2>1, <1>3, <1>4 DEF Inv, TypeOK, CallsHoldReservations
<1>10. CallsAreApart'
  BY <1>3, <1>4 DEF Inv, TypeOK, CallsHoldReservations, CallsAreApart
<1>11. BillsOfCalls'
  <2> SUFFICES ASSUME NEW v \in Workers
               PROVE  /\ pc'[v] \in {"approved", "releasing"} => billed'[rid'[v]] = NotCalled
                      /\ pc'[v] \in {"calling", "reconciling"} => billed'[rid'[v]] \in Bills
                      /\ pc'[v] = "reconciling" =>
                            /\ actual'[v] \in Estimates \cup Bills
                            /\ actual'[v] < billed'[rid'[v]] => estimate'[v] < billed'[rid'[v]]
    BY DEF BillsOfCalls
  <2>1. CASE v = w
    BY <2>1, <1>3, <1>5, <1>6 DEF Inv, TypeOK
  <2>2. CASE v # w
    <3>1. pc'[v] = pc[v] /\ rid'[v] = rid[v] /\ actual'[v] = actual[v] /\ estimate'[v] = estimate[v]
      BY <2>2, <1>3 DEF Inv, TypeOK
    <3>2. pc[v] \in InCall => billed'[rid[v]] = billed[rid[v]]
      BY <1>4, <1>5, <1>6 DEF Inv, CallsHoldReservations
    <3> QED
      BY <3>1, <3>2 DEF Inv, BillsOfCalls, InCall
  <2> QED
    BY <2>1, <2>2
<1>12. CallIsOnTheBooks'
  <2> SUFFICES ASSUME NEW i \in DOMAIN billed', billed'[i] # NotCalled
               PROVE  /\ i \in DOMAIN records'
                      /\ records'[i].status # "released"
                      /\ Ceiling!Charged(records'[i]) < billed'[i] => billed'[i] > records'[i].reserved
    BY DEF CallIsOnTheBooks, Ceiling!Charged
  <2>1. i \in DOMAIN billed /\ billed'[i] = billed[i]
    BY <1>5, <1>6
  <2>2. i \in DOMAIN records' /\ records'[i] = records[i]
    BY <2>1, <1>4, <1>5, <1>6
  <2> QED
    BY <2>1, <2>2 DEF Inv, CallIsOnTheBooks
<1> QED
  BY <1>7, <1>8, <1>9, <1>10, <1>11, <1>12 DEF Inv

LEMMA DispatchKeeps ==
    ASSUME Inv, NEW w \in Workers, NEW bill \in Bills, Dispatch(w, bill)
    PROVE  Inv'
<1>1. /\ billed \in Seq(Bills \cup {NotCalled}) /\ Len(billed) = Len(records)
      /\ records \in Seq(Reservation) /\ DOMAIN billed = DOMAIN records
  BY DEF Inv, TypeOK, BillsFollowRecords
<1>2. /\ pc[w] = "approved" /\ rid[w] \in DOMAIN records
      /\ pc' = [pc EXCEPT ![w] = "calling"] /\ billed' = [billed EXCEPT ![rid[w]] = bill]
      /\ UNCHANGED <<file_budget, records, holder, cache, configured, estimate, rid, actual>>
  BY DEF Dispatch, Goto, ledger_file, call, Inv, CallsHoldReservations, InCall
<1>3. /\ billed' \in Seq(Bills \cup {NotCalled}) /\ Len(billed') = Len(billed)
      /\ DOMAIN billed' = DOMAIN billed
      /\ billed'[rid[w]] = bill /\ \A j \in DOMAIN billed : j # rid[w] => billed'[j] = billed[j]
  BY <1>1, <1>2, BillFacts
<1>4. TypeOK'
  BY <1>2, <1>3 DEF Inv, TypeOK, Steps, InCall
<1>5. (LockedCacheIsDisk /\ OneBudget /\ BillsFollowRecords)'
  BY <1>2, <1>3 DEF Inv, TypeOK, LockedCacheIsDisk, OneBudget, BillsFollowRecords, Waiting, BudgetAgrees
<1>6. (CallsHoldReservations /\ CallsAreApart)'
  BY <1>2 DEF Inv, TypeOK, CallsHoldReservations, CallsAreApart, InCall
<1>7. BillsOfCalls'
  BY <1>1, <1>2, <1>3 DEF Inv, TypeOK, BillsOfCalls, CallsHoldReservations, CallsAreApart, InCall
<1>8. CallIsOnTheBooks'
  <2>1. records[rid[w]].status = "reserved"
    BY <1>2 DEF Inv, CallsHoldReservations, InCall
  <2>2. Ceiling!Charged(records[rid[w]]) = records[rid[w]].reserved
    BY <2>1 DEF Ceiling!Charged
  <2> QED
    BY <1>1, <1>2, <1>3, <2>1, <2>2 DEF Inv, CallIsOnTheBooks
<1> QED
  BY <1>4, <1>5, <1>6, <1>7, <1>8 DEF Inv

LEMMA CallEndsKeeps ==
    ASSUME Inv, NEW w \in Workers, CallReportsUsage(w) \/ CallEndsUncertain(w)
    PROVE  Inv'
<1>1. PICK amount \in {billed[rid[w]], estimate[w]} : CallEnds(w, amount)
  BY DEF CallReportsUsage, CallEndsUncertain
<1>2. /\ pc[w] = "calling" /\ pc' = [pc EXCEPT ![w] = "reconciling"]
      /\ actual' = [actual EXCEPT ![w] = amount]
      /\ UNCHANGED <<file_budget, records, holder, cache, configured, estimate, rid, billed>>
  BY <1>1 DEF CallEnds, Goto, ledger_file
<1>3. /\ rid[w] \in DOMAIN records /\ records[rid[w]].reserved = estimate[w]
      /\ billed[rid[w]] \in Bills
  BY <1>2 DEF Inv, CallsHoldReservations, BillsOfCalls, InCall
<1>4. estimate[w] \in Estimates
  <2>1. records[rid[w]] \in Reservation
    BY <1>3 DEF Inv, TypeOK
  <2> QED
    BY <2>1, <1>3, AmountsAreNumbers DEF Inv, TypeOK, Reservation, Ceiling!Spend
<1>5. TypeOK'
  BY <1>2, <1>3, <1>4 DEF Inv, TypeOK, Steps, InCall
<1>6. (LockedCacheIsDisk /\ OneBudget /\ BillsFollowRecords)'
  BY <1>2 DEF Inv, TypeOK, LockedCacheIsDisk, OneBudget, BillsFollowRecords, Waiting, BudgetAgrees
<1>7. (CallsHoldReservations /\ CallsAreApart)'
  BY <1>2 DEF Inv, TypeOK, CallsHoldReservations, CallsAreApart, InCall
<1>8. BillsOfCalls'
  <2>1. billed[rid[w]] \in Nat
    BY <1>3, AmountsAreNumbers
  <2>2. ~(billed[rid[w]] < billed[rid[w]])
    BY <2>1
  <2>3. CASE amount = estimate[w]
    BY <2>3, <1>2, <1>3, <1>4 DEF Inv, TypeOK, BillsOfCalls
  <2>4. CASE amount = billed[rid[w]]
    BY <2>2, <2>4, <1>2, <1>3, <1>4 DEF Inv, TypeOK, BillsOfCalls
  <2> QED
    BY <2>3, <2>4
<1>9. CallIsOnTheBooks'
  BY <1>2 DEF Inv, CallIsOnTheBooks, Ceiling!Charged
<1> QED
  BY <1>5, <1>6, <1>7, <1>8, <1>9 DEF Inv

\* What settling does to the file: the worker's own reservation, still open,
\* gets its status and amount, and no other record changes.
LEMMA SettlingFacts ==
    ASSUME Inv, NEW w \in Workers, holder = w, pc[w] \in {"releasing", "reconciling"},
           NEW status \in {"released", "reconciled"}, NEW amount \in Nat,
           Settled(w, status, amount)
    PROVE  /\ records \in Seq(Reservation) /\ rid[w] \in DOMAIN records
           /\ records[rid[w]].status = "reserved"
           /\ records' = Ceiling!Settle(records, rid[w], status, amount)
           /\ records' \in Seq(Reservation)
           /\ Len(records') = Len(records) /\ DOMAIN records' = DOMAIN records
           /\ records'[rid[w]] = [status |-> status, reserved |-> records[rid[w]].reserved, actual |-> amount]
           /\ \A j \in DOMAIN records : j # rid[w] => records'[j] = records[j]
           /\ cache' = [cache EXCEPT ![w] = records'] /\ holder' = NoWorker
           /\ file_budget' = file_budget
<1>1. cache[w] = records /\ configured[w] = file_budget
  BY AmountsAreNumbers DEF Inv, LockedCacheIsDisk, OneBudget
<1>2. records \in Seq(Reservation) /\ rid[w] \in DOMAIN records /\ records[rid[w]].status = "reserved"
  BY DEF Inv, TypeOK, CallsHoldReservations, InCall
<1>3. /\ records' = Ceiling!Settle(records, rid[w], status, amount)
      /\ cache' = [cache EXCEPT ![w] = records'] /\ holder' = NoWorker /\ file_budget' = file_budget
  BY <1>1, <1>2 DEF Settled, IsOpen, Save
<1> QED
  BY <1>2, <1>3, SettleFacts

LEMMA SettlingKeeps ==
    ASSUME Inv, NEW w \in Workers, Release(w) \/ Reconcile(w)
    PROVE  Inv'
<1>1. PICK status \in {"released", "reconciled"}, amount \in Nat :
          /\ Settled(w, status, amount) /\ holder = w
          /\ status = "released" => pc[w] = "releasing"
          /\ status = "reconciled" => pc[w] = "reconciling" /\ amount = actual[w]
  BY AmountsAreNumbers DEF Release, Reconcile, Inv, TypeOK
<1>2. /\ pc[w] \in {"releasing", "reconciling"} /\ pc' = [pc EXCEPT ![w] = "idle"]
      /\ UNCHANGED <<configured, estimate, rid, actual, billed>>
  BY DEF Release, Reconcile, Goto, call
<1>3. /\ records \in Seq(Reservation) /\ rid[w] \in DOMAIN records
      /\ records[rid[w]].status = "reserved"
      /\ records' \in Seq(Reservation)
      /\ Len(records') = Len(records) /\ DOMAIN records' = DOMAIN records
      /\ records'[rid[w]] = [status |-> status, reserved |-> records[rid[w]].reserved, actual |-> amount]
      /\ \A j \in DOMAIN records : j # rid[w] => records'[j] = records[j]
      /\ cache' = [cache EXCEPT ![w] = records'] /\ holder' = NoWorker
      /\ file_budget' = file_budget
  BY <1>1, <1>2, SettlingFacts
<1>4. TypeOK'
  BY <1>2, <1>3 DEF Inv, TypeOK, Steps
<1>5. (LockedCacheIsDisk /\ OneBudget /\ BillsFollowRecords)'
  <2>1. configured[w] = file_budget
    BY <1>2 DEF Inv, OneBudget
  <2> QED
    BY <2>1, <1>2, <1>3 DEF Inv, TypeOK, LockedCacheIsDisk, OneBudget, BillsFollowRecords
<1>6. CallsHoldReservations'
  BY <1>2, <1>3 DEF Inv, TypeOK, CallsHoldReservations, CallsAreApart, InCall
<1>7. CallsAreApart'
  BY <1>2 DEF Inv, TypeOK, CallsAreApart, InCall
<1>8. BillsOfCalls'
  BY <1>2 DEF Inv, TypeOK, BillsOfCalls
<1>9. CallIsOnTheBooks'
  <2> SUFFICES ASSUME NEW i \in DOMAIN billed, billed[i] # NotCalled
               PROVE  /\ i \in DOMAIN records'
                      /\ records'[i].status # "released"
                      /\ Ceiling!Charged(records'[i]) < billed[i] => billed[i] > records'[i].reserved
    BY <1>2 DEF CallIsOnTheBooks, Ceiling!Charged
  <2>1. CASE i # rid[w]
    <3>1. i \in DOMAIN records' /\ records'[i] = records[i]
      BY <2>1, <1>3 DEF Inv, CallIsOnTheBooks
    <3> QED
      BY <3>1 DEF Inv, CallIsOnTheBooks
  <2>2. CASE i = rid[w]
    <3>1. status = "reconciled" /\ pc[w] = "reconciling" /\ amount = actual[w]
      BY <2>2, <1>1, <1>2 DEF Inv, BillsOfCalls
    <3>2. /\ records'[i].status = "reconciled" /\ records'[i].actual = actual[w]
          /\ records'[i].reserved = estimate[w]
      BY <2>2, <3>1, <1>3 DEF Inv, CallsHoldReservations, InCall
    <3>3. Ceiling!Charged(records'[i]) = actual[w]
      BY <3>2 DEF Ceiling!Charged
    <3>4. actual[w] < billed[i] => estimate[w] < billed[i]
      BY <2>2, <3>1 DEF Inv, BillsOfCalls
    <3>5. estimate[w] \in Nat /\ billed[i] \in Nat
      <4>1. records[rid[w]] \in Reservation
        BY <1>3
      <4>2. billed[i] \in Bills
        BY <2>2, <3>1 DEF Inv, BillsOfCalls
      <4> QED
        BY <4>1, <4>2, <3>1, AmountsAreNumbers DEF Inv, CallsHoldReservations, InCall, Reservation, Ceiling!Spend
    <3> QED
      BY <2>2, <1>3, <3>2, <3>3, <3>4, <3>5
  <2> QED
    BY <2>1, <2>2
<1> QED
  BY <1>4, <1>5, <1>6, <1>7, <1>8, <1>9 DEF Inv

LEMMA StutteringKeeps == Inv /\ UNCHANGED vars => Inv'
BY DEF vars, ledger_file, call, Inv, TypeOK, LockedCacheIsDisk, OneBudget, BillsFollowRecords, CallsHoldReservations,
       CallsAreApart, BillsOfCalls, CallIsOnTheBooks, BudgetAgrees, Ceiling!Charged

LEMMA InductiveInvariant == Spec => []Inv
<1>1. ASSUME Inv, Next PROVE Inv'
  <2>1. PICK w \in Workers :
          \/ \E budget \in Budgets \cup {Unset} : Open(w, budget)
          \/ Enter(w) \/ EnterRefused(w)
          \/ Opened(w) \/ Reserve(w) \/ ReserveRefused(w)
          \/ Release(w) \/ Reconcile(w) \/ SaveFails(w)
          \/ \E amount \in Estimates \cup {Unknown} : BeginCall(w, amount)
          \/ CancelledBeforeDispatch(w)
          \/ \E bill \in Bills : Dispatch(w, bill)
          \/ CallReportsUsage(w) \/ CallEndsUncertain(w) \/ UsageUnreadable(w)
          \/ Crash(w)
    BY <1>1 DEF Next
  <2>2. CASE Enter(w) \/ EnterRefused(w) \/ Crash(w)
    BY <1>1, <2>2, EnterKeeps, EnterRefusedKeeps, CrashKeeps
  <2>3. CASE (\E budget \in Budgets \cup {Unset} : Open(w, budget)) \/ Opened(w)
    BY <1>1, <2>3, OpenKeeps, OpenedKeeps
  <2>4. CASE \/ \E amount \in Estimates \cup {Unknown} : BeginCall(w, amount)
             \/ Reserve(w) \/ ReserveRefused(w)
    BY <1>1, <2>4, BeginCallKeeps, ReserveKeeps, ReserveRefusedKeeps
  <2>5. CASE Release(w) \/ Reconcile(w) \/ SaveFails(w)
    BY <1>1, <2>5, SettlingKeeps, SaveFailsKeeps
  <2>6. CASE CancelledBeforeDispatch(w) \/ \E bill \in Bills : Dispatch(w, bill)
    BY <1>1, <2>6, CancelledBeforeDispatchKeeps, DispatchKeeps
  <2>7. CASE CallReportsUsage(w) \/ CallEndsUncertain(w) \/ UsageUnreadable(w)
    BY <1>1, <2>7, CallEndsKeeps, UnreadableKeeps
  <2> QED
    BY <2>1, <2>2, <2>3, <2>4, <2>5, <2>6, <2>7
<1> QED
  BY <1>1, InitInvariant, StutteringKeeps, PTL DEF Spec

\* Every variable keeps its type: amounts stay amounts that were estimated or
\* billed, reservation identifiers stay positions of the file.
THEOREM TypeCorrect == Spec => []TypeOK
BY InductiveInvariant, PTL DEF Inv

\* A call the provider was asked to make stays on the books at no less than it
\* was billed, unless the provider billed more than was reserved without saying
\* so: PaidCallExecutor.execute under crashes, failed writes and other
\* processes.
THEOREM BooksAreKept == Spec => []CallIsOnTheBooks
BY InductiveInvariant, PTL DEF Inv

(***************************************************************************)
(* The ledger implements SpendCeiling                                      *)
(***************************************************************************)
LEMMA InitImplements == Init => Ceiling!Init
BY DEF Init, Ceiling!Init

LEMMA OpenedImplements ==
    ASSUME Inv, NEW w \in Workers, Opened(w)
    PROVE  (\E budget \in Budgets \cup {Unset} : Ceiling!FixCeiling(budget)) \/ UNCHANGED ledger_file
<1>1. CASE file_budget = NoFile
  <2>1. configured[w] \in Budgets \cup {Unset} /\ cache[w] = records
    BY <1>1, AmountsAreNumbers DEF Opened, Inv, TypeOK, LockedCacheIsDisk
  <2>2. file_budget' = configured[w] /\ records' = records
    BY <1>1, <2>1 DEF Opened, Save
  <2>3. Ceiling!FixCeiling(configured[w])
    BY <1>1, <2>2 DEF Ceiling!FixCeiling
  <2> QED
    BY <2>1, <2>3
<1>2. CASE file_budget # NoFile
  BY <1>2 DEF Opened, Leave
<1> QED
  BY <1>1, <1>2

LEMMA ReserveImplements ==
    ASSUME Inv, NEW w \in Workers, Reserve(w)
    PROVE  \E amount \in Estimates \cup Bills : Ceiling!Approve(amount)
<1>1. /\ estimate[w] \in Estimates /\ cache[w] = records
      /\ configured[w] = file_budget /\ file_budget \in Budgets
  BY AmountsAreNumbers DEF Inv, TypeOK, Reserve, Fits, LockedCacheIsDisk, OneBudget
<1>2. Ceiling!Committed(records) + estimate[w] <= file_budget
  BY <1>1 DEF Reserve, Fits, Committed
<1>3. /\ records' = Append(records, [status |-> "reserved", reserved |-> estimate[w], actual |-> 0])
      /\ file_budget' = file_budget
  BY <1>1 DEF Reserve, Save
<1>4. Ceiling!Approve(estimate[w])
  BY <1>1, <1>2, <1>3 DEF Ceiling!Approve
<1> QED
  BY <1>1, <1>4

LEMMA SettlingImplements ==
    ASSUME Inv, NEW w \in Workers, Release(w) \/ Reconcile(w)
    PROVE  \/ \E i \in DOMAIN records : Ceiling!Release(i)
           \/ \E i \in DOMAIN records, amount \in Estimates \cup Bills : Ceiling!Charge(i, amount)
<1>1. CASE Release(w)
  <2>1. holder = w /\ pc[w] = "releasing" /\ Settled(w, "released", 0)
    BY <1>1 DEF Release
  <2>2. /\ rid[w] \in DOMAIN records /\ records[rid[w]].status = "reserved"
        /\ records' = Ceiling!Settle(records, rid[w], "released", 0)
        /\ file_budget' = file_budget
    BY <2>1, SettlingFacts
  <2>3. Ceiling!Release(rid[w])
    BY <2>2 DEF Ceiling!Release
  <2> QED
    BY <2>2, <2>3
<1>2. CASE Reconcile(w)
  <2>1. holder = w /\ pc[w] = "reconciling" /\ Settled(w, "reconciled", actual[w])
    BY <1>2 DEF Reconcile
  <2>2. actual[w] \in Estimates \cup Bills /\ actual[w] \in Nat
    BY <2>1, AmountsAreNumbers DEF Inv, BillsOfCalls
  <2>3. /\ rid[w] \in DOMAIN records /\ records[rid[w]].status = "reserved"
        /\ records' = Ceiling!Settle(records, rid[w], "reconciled", actual[w])
        /\ file_budget' = file_budget
    BY <2>1, <2>2, SettlingFacts
  <2>4. Ceiling!Charge(rid[w], actual[w])
    BY <2>3 DEF Ceiling!Charge
  <2> QED
    BY <2>2, <2>3, <2>4
<1> QED
  BY <1>1, <1>2

LEMMA StepImplements ==
    ASSUME Inv, [Next]_vars
    PROVE  [Ceiling!Next]_<<file_budget, records>>
<1>1. CASE Next
  <2>1. PICK w \in Workers :
          \/ \E budget \in Budgets \cup {Unset} : Open(w, budget)
          \/ Enter(w) \/ EnterRefused(w)
          \/ Opened(w) \/ Reserve(w) \/ ReserveRefused(w)
          \/ Release(w) \/ Reconcile(w) \/ SaveFails(w)
          \/ \E amount \in Estimates \cup {Unknown} : BeginCall(w, amount)
          \/ CancelledBeforeDispatch(w)
          \/ \E bill \in Bills : Dispatch(w, bill)
          \/ CallReportsUsage(w) \/ CallEndsUncertain(w) \/ UsageUnreadable(w)
          \/ Crash(w)
    BY <1>1 DEF Next
  <2>2. CASE Opened(w)
    BY <2>2, OpenedImplements DEF Ceiling!Next, ledger_file
  <2>3. CASE Reserve(w)
    BY <2>3, ReserveImplements DEF Ceiling!Next
  <2>4. CASE Release(w) \/ Reconcile(w)
    BY <2>4, SettlingImplements DEF Ceiling!Next
  <2>5. CASE ~(Opened(w) \/ Reserve(w) \/ Release(w) \/ Reconcile(w))
    BY <2>1, <2>5
    DEF Open, Enter, EnterRefused, ReserveRefused, SaveFails, BeginCall, CancelledBeforeDispatch,
        Dispatch, CallReportsUsage, CallEndsUncertain, CallEnds, UsageUnreadable, Crash, Leave, ledger_file
  <2> QED
    BY <2>2, <2>3, <2>4, <2>5
<1>2. CASE UNCHANGED vars
  BY <1>2 DEF vars, ledger_file
<1> QED
  BY <1>1, <1>2

\* Processes that share the file, and may crash or fail to write at any point of
\* a transaction, together behave as one atomic ledger with one ceiling that
\* never changes: the check against the budget is made on what is committed at
\* that moment, and no record is lost or settled twice (UsageLedger._transaction,
\* reserve, release and reconcile).
THEOREM ImplementsCeiling == Spec => RefinesCeiling
<1>1. Inv /\ [Next]_vars => [Ceiling!Next]_<<file_budget, records>>
  BY StepImplements
<1> QED
  BY <1>1, InitImplements, InductiveInvariant, PTL DEF Spec, RefinesCeiling, Ceiling!Spec

\* A call the provider was asked to make stays on well-typed books, at no less
\* than it was billed unless the provider bills more without saying so.
THEOREM BooksStaySound == Spec => []BooksAreSound
BY TypeCorrect, BooksAreKept, PTL DEF BooksAreSound

(***************************************************************************)
(* The budget.  What was approved is kept within it by every step of the   *)
(* one ledger that the processes together implement.                       *)
(***************************************************************************)
ApprovedSum(spends) == SumFunction([i \in DOMAIN spends |-> Approved(spends[i])])

WithinBudget ==
    /\ file_budget = NoFile => records = <<>>
    /\ file_budget \in Nat => ApprovedSum(records) <= file_budget

\* What a record counts is a number, and was approved as far as it counts.
LEMMA ApprovedIsCharged ==
    ASSUME NEW spend \in Reservation
    PROVE  /\ Approved(spend) \in Nat /\ Ceiling!Charged(spend) \in Nat
           /\ Approved(spend) <= Ceiling!Charged(spend) /\ Approved(spend) <= spend.reserved
BY DEF Approved, Ceiling!Charged, Reservation, Ceiling!Spend

\* The records of a file are finitely many, and their approved sum is a number.
LEMMA ApprovedSumFacts ==
    ASSUME NEW s \in Seq(Reservation)
    PROVE  /\ IsFiniteSet(DOMAIN s) /\ ApprovedSum(s) \in Nat /\ Committed(s) \in Nat
           /\ ApprovedSum(s) <= Committed(s)
<1> DEFINE f == [i \in DOMAIN s |-> Approved(s[i])]
           g == [i \in DOMAIN s |-> Ceiling!Charged(s[i])]
           D == DOMAIN s
<1>1. IsFiniteSet(D)
  <2>1. D = 1 .. Len(s) /\ Len(s) \in Nat
    BY LenProperties
  <2> HIDE DEF D
  <2> QED  BY <2>1, FS_Interval
<1>2. \A i \in D : f[i] \in Nat /\ g[i] \in Nat /\ f[i] <= g[i]
  BY ApprovedIsCharged
<1>3. DOMAIN f = D /\ DOMAIN g = D
  OBVIOUS
<1>4. ApprovedSum(s) = SumFunctionOnSet(f, D)
  BY <1>3 DEF ApprovedSum, SumFunction
<1>5. Committed(s) = SumFunctionOnSet(g, D)
  BY <1>3 DEF Committed, Ceiling!Committed, Ceiling!SumFunction, Ceiling!SumFunctionOnSet,
     SumFunctionOnSet, Ceiling!FoldFunctionOnSet, FoldFunctionOnSet, Ceiling!MapThenFoldSet, MapThenFoldSet
<1>6. SumFunctionOnSet(f, D) \in Nat /\ SumFunctionOnSet(g, D) \in Nat
  <2> HIDE DEF f, g, D
  <2> QED  BY <1>1, <1>2, SumOfNaturals
<1>7. SumFunctionOnSet(f, D) <= SumFunctionOnSet(g, D)
  <2> HIDE DEF f, g, D
  <2> QED  BY <1>1, <1>2, SumMonotone
<1> QED  BY <1>1, <1>4, <1>5, <1>6, <1>7

\* An approval adds its amount.
LEMMA ApprovedSumAppend ==
    ASSUME NEW s \in Seq(Reservation), NEW amount \in Nat
    PROVE  LET e == [status |-> "reserved", reserved |-> amount, actual |-> 0] IN
           ApprovedSum(Append(s, e)) = amount + ApprovedSum(s)
<1> DEFINE e == [status |-> "reserved", reserved |-> amount, actual |-> 0]
           t == Append(s, e)
           f == [i \in DOMAIN s |-> Approved(s[i])]
           g == [i \in DOMAIN t |-> Approved(t[i])]
           n == Len(s) + 1
           D == DOMAIN t
<1>1. e \in Reservation
  BY DEF Reservation, Ceiling!Spend
<1>2. /\ t \in Seq(Reservation) /\ D = 1 .. n /\ t[n] = e
      /\ DOMAIN s = 1 .. Len(s) /\ Len(s) \in Nat
      /\ \A i \in DOMAIN s : t[i] = s[i]
  <2> HIDE DEF e
  <2> QED  BY <1>1, AppendFacts
<1>3. n \in D /\ D \ {n} = DOMAIN s
  BY <1>2
<1>4. IsFiniteSet(D) /\ IsFiniteSet(DOMAIN s)
  <2> HIDE DEF t
  <2> QED  BY <1>2, ApprovedSumFacts
<1>5. \A i \in D : g[i] \in Nat
  <2>1. \A i \in D : t[i] \in Reservation
    BY <1>2
  <2> QED  BY <2>1, ApprovedIsCharged
<1>6. g[n] = amount
  <2>1. Approved(e) = amount
    BY DEF Approved, Ceiling!Charged
  <2> HIDE DEF e
  <2> QED  BY <1>2, <1>3, <2>1
<1>7. \A i \in DOMAIN s : f[i] = g[i]
  <2> HIDE DEF t
  <2> QED  BY <1>2, <1>3
<1>8. ApprovedSum(s) = SumFunctionOnSet(f, DOMAIN s) /\ ApprovedSum(t) = SumFunctionOnSet(g, D)
  BY DEF ApprovedSum, SumFunction
<1>9. SumFunctionOnSet(g, D) = g[n] + SumFunctionOnSet(g, D \ {n})
  <2> HIDE DEF g, D, n
  <2> QED  BY <1>3, <1>4, <1>5, SumRemove
<1>10. SumFunctionOnSet(f, DOMAIN s) = SumFunctionOnSet(g, DOMAIN s)
  <2> HIDE DEF f, g
  <2> QED  BY <1>4, <1>7, SumCongruent
<1> QED  BY <1>3, <1>6, <1>8, <1>9, <1>10

\* Settling a reservation approves nothing more.
LEMMA ApprovedSumSettle ==
    ASSUME NEW s \in Seq(Reservation), NEW i \in DOMAIN s, s[i].status = "reserved",
           NEW status \in {"released", "reconciled"}, NEW amount \in Nat
    PROVE  ApprovedSum(Ceiling!Settle(s, i, status, amount)) <= ApprovedSum(s)
<1> DEFINE t == Ceiling!Settle(s, i, status, amount)
           f == [j \in DOMAIN s |-> Approved(s[j])]
           g == [j \in DOMAIN t |-> Approved(t[j])]
           D == DOMAIN s
<1>1. /\ t \in Seq(Reservation) /\ DOMAIN t = D
      /\ t[i] = [status |-> status, reserved |-> s[i].reserved, actual |-> amount]
      /\ \A j \in D : j # i => t[j] = s[j]
  BY SettleFacts
<1>2. Approved(t[i]) <= Approved(s[i])
  <2>1. s[i] \in Reservation
    OBVIOUS
  <2> HIDE DEF t
  <2>2. Approved(s[i]) = s[i].reserved
    BY DEF Approved, Ceiling!Charged
  <2>3. t[i] \in Reservation /\ t[i].reserved = s[i].reserved
    BY <1>1
  <2> QED  BY <2>2, <2>3, ApprovedIsCharged
<1>3. \A j \in D : g[j] \in Nat /\ f[j] \in Nat /\ g[j] <= f[j]
  <2> HIDE DEF t
  <2>1. \A j \in D : t[j] \in Reservation /\ s[j] \in Reservation
    BY <1>1
  <2>2. \A j \in D : Approved(t[j]) \in Nat /\ Approved(s[j]) \in Nat
    BY <2>1, ApprovedIsCharged
  <2>3. \A j \in D : Approved(t[j]) <= Approved(s[j])
    BY <1>1, <1>2, <2>2
  <2> QED  BY <1>1, <2>2, <2>3
<1>4. IsFiniteSet(D)
  BY ApprovedSumFacts
<1>5. ApprovedSum(s) = SumFunctionOnSet(f, D) /\ ApprovedSum(t) = SumFunctionOnSet(g, D)
  <2>1. DOMAIN f = D /\ DOMAIN g = D
    BY <1>1
  <2> HIDE DEF t
  <2> QED  BY <2>1 DEF ApprovedSum, SumFunction
<1>6. SumFunctionOnSet(g, D) <= SumFunctionOnSet(f, D)
  <2> HIDE DEF f, g, D
  <2> QED  BY <1>3, <1>4, SumMonotone
<1> QED  BY <1>5, <1>6

LEMMA WithinBudgetStep ==
    ASSUME TypeOK, WithinBudget, [Ceiling!Next]_<<file_budget, records>>
    PROVE  WithinBudget'
<1>0. records \in Seq(Reservation) /\ NoFile \notin Nat /\ Budgets \subseteq Nat /\ Unset # NoFile
  BY AmountsAreNumbers DEF TypeOK
<1>1. CASE UNCHANGED <<file_budget, records>>
  BY <1>1 DEF WithinBudget, ApprovedSum
<1>2. CASE \E budget \in Budgets \cup {Unset} : Ceiling!FixCeiling(budget)
  <2>1. PICK budget \in Budgets \cup {Unset} : Ceiling!FixCeiling(budget)
    BY <1>2
  <2>2. records' = <<>> /\ file_budget' = budget
    BY <2>1 DEF Ceiling!FixCeiling, WithinBudget
  <2>3. budget \in Nat => ApprovedSum(<<>>) <= budget
    <3>1. <<>> \in Seq(Reservation) /\ DOMAIN <<>> = {}
      OBVIOUS
    <3>2. ApprovedSum(<<>>) = SumFunctionOnSet([i \in DOMAIN <<>> |-> Approved(<<>>[i])], {})
      BY <3>1 DEF ApprovedSum, SumFunction
    <3>3. ApprovedSum(<<>>) = 0
      BY <3>2, FS_EmptySet, SumStep
    <3> QED  BY <3>3
  <2>4. budget # NoFile
    BY <1>0
  <2> QED  BY <2>2, <2>3, <2>4 DEF WithinBudget
<1>3. CASE \E amount \in Estimates \cup Bills : Ceiling!Approve(amount)
  <2>1. PICK amount \in Estimates \cup Bills : Ceiling!Approve(amount)
    BY <1>3
  <2>2. /\ file_budget \in Budgets /\ file_budget' = file_budget
        /\ Committed(records) + amount <= file_budget
        /\ records' = Append(records, [status |-> "reserved", reserved |-> amount, actual |-> 0])
    BY <2>1 DEF Ceiling!Approve, Committed
  <2>3. amount \in Nat /\ file_budget \in Nat /\ file_budget # NoFile
    BY <1>0, <2>2, AmountsAreNumbers
  <2>4. ApprovedSum(records') = amount + ApprovedSum(records)
    BY <1>0, <2>2, <2>3, ApprovedSumAppend
  <2>5. /\ ApprovedSum(records) \in Nat /\ Committed(records) \in Nat
        /\ ApprovedSum(records) <= Committed(records)
    BY <1>0, ApprovedSumFacts
  <2>6. ApprovedSum(records') <= file_budget
    BY <2>2, <2>3, <2>4, <2>5
  <2> QED  BY <2>2, <2>3, <2>6 DEF WithinBudget, ApprovedSum
<1>4. CASE \/ \E i \in DOMAIN records : Ceiling!Release(i)
           \/ \E i \in DOMAIN records, amount \in Estimates \cup Bills : Ceiling!Charge(i, amount)
  <2>1. PICK i \in DOMAIN records, status \in {"released", "reconciled"}, amount \in Nat :
          /\ records[i].status = "reserved"
          /\ records' = Ceiling!Settle(records, i, status, amount)
          /\ file_budget' = file_budget
    <3>1. CASE \E i \in DOMAIN records : Ceiling!Release(i)
      BY <3>1 DEF Ceiling!Release
    <3>2. CASE \E i \in DOMAIN records, amount \in Estimates \cup Bills : Ceiling!Charge(i, amount)
      BY <3>2, AmountsAreNumbers DEF Ceiling!Charge
    <3> QED  BY <1>4, <3>1, <3>2
  <2>2. ApprovedSum(records') <= ApprovedSum(records)
    BY <1>0, <2>1, ApprovedSumSettle
  <2>3. records' \in Seq(Reservation)
    BY <1>0, <2>1, SettleFacts
  <2>4. ApprovedSum(records') \in Nat /\ ApprovedSum(records) \in Nat
    BY <1>0, <2>3, ApprovedSumFacts
  <2>5. file_budget # NoFile
    BY <2>1 DEF WithinBudget
  <2>6. file_budget \in Nat => ApprovedSum(records') <= file_budget
    BY <2>2, <2>4 DEF WithinBudget
  <2> QED  BY <2>1, <2>5, <2>6 DEF WithinBudget, ApprovedSum
<1> QED  BY <1>1, <1>2, <1>3, <1>4 DEF Ceiling!Next

\* However many processes share the file, and wherever they crash or fail to
\* write, what was approved in advance of all recorded calls never exceeds the
\* recorded budget: UsageLedger.reserve checks what every process committed.
THEOREM SpendIsWithinBudget == Spec => []ApprovedSpendWithinBudget
<1>1. Init => WithinBudget
  BY AmountsAreNumbers DEF Init, WithinBudget
<1>2. Inv /\ WithinBudget /\ [Next]_vars => WithinBudget'
  BY StepImplements, WithinBudgetStep DEF Inv
<1>3. WithinBudget => ApprovedSpendWithinBudget
  BY DEF WithinBudget, ApprovedSpendWithinBudget, ApprovedSum
<1> QED  BY <1>1, <1>2, <1>3, InductiveInvariant, PTL DEF Spec

(***************************************************************************)
(* The settings file.  What is written is valid, and where no load has to  *)
(* repair the file, the lock file keeps updates apart, so that what a      *)
(* client was told stands.                                                 *)
(***************************************************************************)

\* The requests that are about to write.
Writes == {"repairing", "seeding", "writing"}

\* What a request is about to write was validated.
PlansAreValid ==
    /\ DOMAIN at = SetupClients /\ DOMAIN plan = SetupClients
    /\ \A c \in SetupClients : at[c] \in Writes => Valid(plan[c]) /\ plan[c].schema = 2

\* A file that is not of schema 2 is as it was when the program started.
OldFilesAreKept == ~Current => disk = Absent \/ disk \in OldFiles

RepliesAreValid ==
    /\ DOMAIN reply = SetupClients
    /\ \A c \in SetupClients : reply[c] # Absent => Current /\ Valid(reply[c])

ReadableInv ==
    /\ Current => Valid(disk)
    /\ OldFilesAreKept /\ PlansAreValid /\ RepliesAreValid

\* The defaults of _default_state pass _validate.
LEMMA DefaultIsValid == Valid(Default)
<1>1. Known({}) = {} /\ Cardinality({}) = 0
  BY FS_EmptySet DEF Known
<1>2. \A account : Named(account, {}) = {}
  BY DEF Named
<1> QED
  BY <1>1, <1>2 DEF Valid, Default, Services, Modes

\* A migration that is written was validated, too, and is of schema 2.
LEMMA RepairsAreValid ==
    ASSUME disk = Absent \/ disk \in OldFiles
    PROVE  \A state \in Repairs : Valid(state) /\ state.schema = 2
<1>1. Default.schema = 2
  BY DEF Default
<1>2. \A state \in Migrations(disk) : disk \in OldFiles => state.schema = 2
  <2> SUFFICES ASSUME NEW state \in Migrations(disk), disk \in OldFiles
               PROVE  state.schema = 2
    OBVIOUS
  <2>1. disk = [schema |-> 1, revision |-> 1, wizard |-> Default.wizard,
                services |-> Default.services, profiles |-> disk.profiles,
                selection |-> disk.selection]
    BY DEF OldFiles
  <2>2. PICK selection : state = [disk EXCEPT !.schema = 2, !.selection = selection]
    BY DEF Migrations
  <2> QED
    BY <2>1, <2>2
<1> QED
  BY <1>1, <1>2, DefaultIsValid DEF Repairs

\* _migrate_v1 makes something valid of every file that is migratable.
LEMMA MigratableFilesMigrate ==
    ASSUME NEW old \in OldFiles, IsMigratable(old)
    PROVE  /\ Migrations(old) # {}
           /\ \A state \in Migrations(old) : Valid(state)
<1> DEFINE known == Known(old.profiles)
           chosen == old.selection
           firsts == IF chosen.default \in known THEN {chosen.default}
                     ELSE IF known = {} THEN {NoSlot} ELSE known
           kept(default) == IF chosen.mode = "default" THEN {default} \ {NoSlot}
                            ELSE chosen.active \cap known
           new(default) == [old EXCEPT !.schema = 2,
                                       !.selection = [mode |-> chosen.mode, default |-> default,
                                                      active |-> kept(default)]]
<1>1. /\ old = [schema |-> 1, revision |-> 1, wizard |-> Default.wizard,
                services |-> Default.services, profiles |-> old.profiles, selection |-> chosen]
      /\ known = Slots /\ Cardinality(known) = Cardinality(old.profiles)
  BY DEF OldFiles
<1>2. chosen.mode \in Modes /\ chosen.mode # "none"
  BY DEF IsMigratable, Modes
<1>3. Migrations(old) = {new(default) : default \in firsts}
  BY <1>2 DEF Migrations
<1>4. firsts # {}
  OBVIOUS
<1>5. ASSUME NEW default \in firsts
      PROVE  Valid(new(default))
  <2> DEFINE state == new(default)
  <2>1. /\ state.wizard = Default.wizard /\ state.services = Default.services
        /\ state.profiles = old.profiles
        /\ state.selection = [mode |-> chosen.mode, default |-> default, active |-> kept(default)]
    BY <1>1
  <2> HIDE DEF state
  <2>2. IF known = {} THEN default = NoSlot ELSE default \in known
    BY <1>5
  <2>3. kept(default) \subseteq known
    BY <2>2
  <2>4. chosen.mode = "default" => kept(default) = {default} \ {NoSlot}
    OBVIOUS
  <2>5. /\ state.wizard.completed = FALSE /\ state.services \in Services
    BY <2>1 DEF Default, Services
  <2> HIDE DEF kept
  <2>6. /\ state.selection.mode = chosen.mode /\ state.selection.default = default
        /\ state.selection.active = kept(default)
    BY <2>1
  <2>7. \A account \in SetupAccounts : Cardinality(Named(account, state.profiles)) <= 1
    BY <2>1 DEF IsMigratable
  <2>8. Known(state.profiles) = known /\ Cardinality(known) = Cardinality(state.profiles)
    BY <1>1, <2>1
  <2> HIDE DEF known, chosen
  <2>9. Valid(state)
    BY <1>2, <2>2, <2>3, <2>4, <2>5, <2>6, <2>7, <2>8 DEF Valid
  <2> QED
    BY <2>9 DEF state
<1> HIDE DEF new, firsts
<1> QED
  BY <1>3, <1>4, <1>5

LEMMA ReadableInit == SetupInit({"absent", "v1", "current"}) => ReadableInv
<1> SUFFICES ASSUME SetupInit({"absent", "v1", "current"}) PROVE ReadableInv
  OBVIOUS
<1>1. disk \in {Absent} \cup OldFiles \cup {Default}
  BY DEF SetupInit, Files
<1>2. (\A old \in OldFiles : old.schema = 1) /\ Absent.schema = 0 /\ Default.schema = 2
  BY DEF OldFiles, Default, Absent
<1>3. (Current => Valid(disk)) /\ OldFilesAreKept
  BY <1>1, <1>2, DefaultIsValid DEF Current, OldFilesAreKept
<1>4. PlansAreValid /\ RepliesAreValid
  BY DEF SetupInit, PlansAreValid, RepliesAreValid, Writes
<1> QED
  BY <1>3, <1>4 DEF ReadableInv

\* A request that is left with nothing to write, or with a valid state.
LEMMA MovesKeepPlansValid ==
    ASSUME NEW c \in SetupClients, NEW place, NEW state, PlansAreValid,
           Moves(c, place, state), place \in Writes => Valid(state) /\ state.schema = 2
    PROVE  PlansAreValid'
BY DEF PlansAreValid, Moves

\* The end of a request plans nothing.
LEMMA ReturnsKeepPlansValid ==
    ASSUME NEW c \in SetupClients, PlansAreValid, Returns(c)
    PROVE  PlansAreValid'
BY MovesKeepPlansValid DEF Returns, Writes

LEMMA MergesKeepPlansValid ==
    ASSUME NEW c \in SetupClients, NEW state, NEW patch, NEW named, PlansAreValid,
           Merges(c, state, patch, named), state.schema = 2
    PROVE  PlansAreValid'
<1>1. Candidate(state, patch).schema = 2
  BY DEF Candidate
<1> QED
  BY <1>1, MovesKeepPlansValid, ReturnsKeepPlansValid DEF Merges

\* The file and what a client is given stay as they are, or both become what was planned.
LEMMA FileIsKept ==
    ASSUME ReadableInv, disk' = disk, PlansAreValid',
           \/ reply' = reply
           \/ \E c \in SetupClients : Current /\ Answer(c, disk)
    PROVE  ReadableInv'
<1>1. (Current => Valid(disk))' /\ OldFilesAreKept'
  BY DEF ReadableInv, OldFilesAreKept, Current
<1>2. RepliesAreValid'
  BY DEF ReadableInv, RepliesAreValid, Current, Answer
<1> QED
  BY <1>1, <1>2 DEF ReadableInv

LEMMA FileIsWritten ==
    ASSUME ReadableInv, NEW c \in SetupClients, at[c] \in Writes, disk' = plan[c],
           PlansAreValid', reply' = reply \/ Answer(c, plan[c])
    PROVE  ReadableInv'
<1>1. Valid(plan[c]) /\ plan[c].schema = 2
  BY DEF ReadableInv, PlansAreValid
<1>2. Current' /\ Valid(disk)' /\ OldFilesAreKept'
  BY <1>1 DEF Current, OldFilesAreKept
<1>3. RepliesAreValid'
  BY <1>1, <1>2 DEF ReadableInv, RepliesAreValid, Answer
<1> QED
  BY <1>2, <1>3 DEF ReadableInv

LEMMA ReadableStep == ReadableInv /\ [SetupNext]_setupVars => ReadableInv'
<1> SUFFICES ASSUME ReadableInv, [SetupNext]_setupVars PROVE ReadableInv'
  OBVIOUS
<1>1. CASE UNCHANGED setupVars
  <2>1. disk' = disk /\ reply' = reply /\ PlansAreValid'
    BY <1>1 DEF ReadableInv, PlansAreValid, setupVars
  <2> QED
    BY <2>1, FileIsKept
<1>2. ASSUME NEW c \in SetupClients, SetupStep(c, Patches) PROVE ReadableInv'
  <2>plans. PlansAreValid
    BY DEF ReadableInv
  <2>repairs. ~Current => \A state \in Repairs : Valid(state) /\ state.schema = 2
    BY RepairsAreValid DEF ReadableInv, OldFilesAreKept
  <2>1. CASE Load(c)
    <3>1. PlansAreValid'
      BY <2>1, <2>plans DEF Load, PlansAreValid
    <3> QED
      BY <2>1, <3>1, FileIsKept DEF Load
  <2>2. CASE LoadFinds(c)
    <3>1. PlansAreValid'
      BY <2>2, <2>plans, <2>repairs, MovesKeepPlansValid DEF LoadFinds
    <3> QED
      BY <2>2, <3>1, FileIsKept DEF LoadFinds
  <2>3. CASE LoadRepairs(c)
    BY <2>3, <2>plans, FileIsWritten, ReturnsKeepPlansValid DEF LoadRepairs, Writes
  <2>4. CASE UpdateLocks(c)
    <3>1. PlansAreValid'
      BY <2>4, <2>plans, MovesKeepPlansValid DEF UpdateLocks, Writes
    <3> QED
      BY <2>4, <3>1, FileIsKept DEF UpdateLocks
  <2>5. CASE UpdateReads(c, Patches)
    <3>1. PlansAreValid'
      BY <2>5, <2>plans, <2>repairs, MergesKeepPlansValid, MovesKeepPlansValid, ReturnsKeepPlansValid
      DEF UpdateReads, Current
    <3> QED
      BY <2>5, <3>1, FileIsKept DEF UpdateReads
  <2>6. CASE UpdateRepairs(c, Patches)
    <3>1. at[c] \in Writes /\ plan[c].schema = 2
      BY <2>6, <2>plans DEF UpdateRepairs, PlansAreValid, Writes
    <3>2. PlansAreValid'
      BY <2>6, <2>plans, <3>1, MergesKeepPlansValid DEF UpdateRepairs
    <3> QED
      BY <2>6, <3>1, <3>2, FileIsWritten DEF UpdateRepairs
  <2>7. CASE UpdateWrites(c)
    BY <2>7, <2>plans, FileIsWritten, ReturnsKeepPlansValid DEF UpdateWrites, Writes
  <2>8. CASE Fails(c)
    BY <2>8, <2>plans, FileIsKept, ReturnsKeepPlansValid DEF Fails
  <2> QED
    BY <1>2, <2>1, <2>2, <2>3, <2>4, <2>5, <2>6, <2>7, <2>8 DEF SetupStep
<1> QED
  BY <1>1, <1>2 DEF SetupNext

\* Whatever clients ask for, and wherever their requests break off: a settings file of
\* schema 2 is valid, a migratable file of schema 1 is one that every load repairs, and what
\* a client was given was valid and has made the file one of schema 2 (setup_state.py, load,
\* _migrate_v1 and update).
THEOREM SettingsStayReadable == SetupSpec => []SetupIsReadable
<1>1. ReadableInv => SetupIsReadable
  <2> SUFFICES ASSUME ReadableInv PROVE SetupIsReadable
    OBVIOUS
  <2>1. (Current => Valid(disk)) /\ \A c \in SetupClients : reply[c] # Absent => Current /\ Valid(reply[c])
    BY DEF ReadableInv, RepliesAreValid
  <2>2. ASSUME disk.schema = 1, IsMigratable(disk)
        PROVE  Repairs # {} /\ Repairs = Migrations(disk)
    <3>1. disk # Absent /\ ~Current
      BY <2>2 DEF Absent, Current
    <3>2. disk \in OldFiles
      BY <3>1 DEF ReadableInv, OldFilesAreKept
    <3> QED
      BY <2>2, <3>1, <3>2, MigratableFilesMigrate DEF Repairs
  <2> QED
    BY <2>1, <2>2 DEF SetupIsReadable
<1> QED
  BY <1>1, ReadableInit, ReadableStep, PTL DEF SetupSpec

-----------------------------------------------------------------------------
(* The lock file.  The invariant is about a file of schema 2, which no     *)
(* load writes.                                                            *)

Sections == {"schema", "revision", "wizard", "services", "profiles", "selection"}

IsState(state) ==
    /\ state = [schema |-> 2, revision |-> state.revision, wizard |-> state.wizard,
                services |-> state.services, profiles |-> state.profiles,
                selection |-> state.selection]
    /\ state.revision \in Nat

\* Nobody repairs; who is in an update has the lock, and writes the next revision.
UpdatesAreApart ==
    \A c \in SetupClients :
        /\ at[c] \in {"idle", "locked", "writing"}
        /\ at[c] # "idle" => lock = c
        /\ at[c] = "writing" => IsState(plan[c]) /\ plan[c].revision = disk.revision + 1

\* What a client was told is the file, or an earlier revision of it.
RepliesStand ==
    \A c \in SetupClients :
        \/ reply[c] = Absent
        \/ /\ reply[c].revision \in Nat
           /\ reply[c].revision <= disk.revision
           /\ reply[c].revision = disk.revision => reply[c] = disk

LockInv ==
    /\ DOMAIN at = SetupClients /\ DOMAIN plan = SetupClients /\ DOMAIN reply = SetupClients
    /\ begun = "current" => IsState(disk) /\ UpdatesAreApart /\ RepliesStand

LEMMA CandidateIsNext ==
    ASSUME NEW state, NEW patch, IsState(state)
    PROVE  IsState(Candidate(state, patch)) /\ Candidate(state, patch).revision = state.revision + 1
<1>1. ASSUME NEW wizard, NEW services, NEW profiles, NEW selection, NEW next,
             next = [schema |-> 2, revision |-> state.revision + 1, wizard |-> wizard,
                     services |-> services, profiles |-> profiles, selection |-> selection]
      PROVE  IsState(next) /\ next.revision = state.revision + 1
  BY <1>1 DEF IsState
<1>2. state.schema = 2
  BY DEF IsState
<1> QED
  BY <1>1, <1>2, Zenon DEF Candidate

LEMMA LockInit == SetupInit({"absent", "v1", "current"}) => LockInv
<1> SUFFICES ASSUME SetupInit({"absent", "v1", "current"}), begun = "current"
             PROVE  IsState(disk) /\ UpdatesAreApart /\ RepliesStand
  BY DEF SetupInit, LockInv
<1>1. disk = Default
  BY DEF SetupInit, Files
<1>2. IsState(disk)
  BY <1>1 DEF IsState, Default
<1> QED
  BY <1>2 DEF SetupInit, UpdatesAreApart, RepliesStand

LEMMA LockStep == LockInv /\ [SetupNext]_setupVars => LockInv'
<1> SUFFICES ASSUME LockInv, [SetupNext]_setupVars PROVE LockInv'
  OBVIOUS
<1>1. CASE UNCHANGED setupVars
  BY <1>1 DEF LockInv, UpdatesAreApart, RepliesStand, setupVars
<1>2. ASSUME NEW c \in SetupClients, SetupStep(c, Patches) PROVE LockInv'
  <2>domains. /\ DOMAIN at' = SetupClients /\ DOMAIN plan' = SetupClients
              /\ DOMAIN reply' = SetupClients
    BY <1>2 DEF SetupStep, Load, LoadFinds, LoadRepairs, UpdateLocks, UpdateReads,
                UpdateRepairs, UpdateWrites, Fails, Merges, Moves, Returns, Answer, LockInv
  <2>begun. begun' = begun
    BY <1>2 DEF SetupStep, Load, LoadFinds, LoadRepairs, UpdateLocks, UpdateReads,
                UpdateRepairs, UpdateWrites, Fails
  <2> SUFFICES ASSUME begun = "current"
               PROVE  IsState(disk)' /\ UpdatesAreApart' /\ RepliesStand'
    BY <2>domains, <2>begun DEF LockInv
  <2>inv. IsState(disk) /\ UpdatesAreApart /\ RepliesStand
    BY DEF LockInv
  <2>current. Current
    BY <2>inv DEF IsState, Current
  <2>same. ASSUME disk' = disk PROVE IsState(disk)'
    BY <2>same, <2>inv DEF IsState
  <2>told. ASSUME disk' = disk, reply' = reply PROVE RepliesStand'
    BY <2>told, <2>inv DEF RepliesStand
  <2>idle. ASSUME disk' = disk, Returns(c), Unlock(c) PROVE UpdatesAreApart'
    BY <2>idle, <2>inv DEF Returns, Moves, Unlock, UpdatesAreApart, LockInv
  <2>1. CASE Load(c)
    <3>1. disk' = disk /\ UpdatesAreApart'
      BY <2>1, <2>inv DEF Load, UpdatesAreApart
    <3>2. RepliesStand'
      BY <2>1, <2>inv DEF Load, Answer, RepliesStand, IsState, LockInv
    <3> QED
      BY <3>1, <3>2, <2>same
  <2>2. CASE UpdateLocks(c)
    <3>1. UpdatesAreApart'
      BY <2>2, <2>inv, SetupAssumption DEF UpdateLocks, Moves, UpdatesAreApart, LockInv
    <3> QED
      BY <2>2, <3>1, <2>same, <2>told DEF UpdateLocks
  <2>3. CASE UpdateReads(c, Patches)
    <3>1. disk' = disk /\ reply' = reply
      BY <2>3 DEF UpdateReads
    <3>2. PICK patch \in Patches, named \in BOOLEAN : Merges(c, disk, patch, named)
      BY <2>3, <2>current DEF UpdateReads
    <3>3. UpdatesAreApart'
      <4>1. CASE Returns(c) /\ Unlock(c)
        BY <4>1, <3>1, <2>idle
      <4>2. CASE Moves(c, "writing", Candidate(disk, patch)) /\ UNCHANGED lock
        <5> DEFINE candidate == Candidate(disk, patch)
        <5>1. IsState(candidate) /\ candidate.revision = disk.revision + 1
          BY <2>inv, CandidateIsNext
        <5>2. at[c] = "locked"
          BY <2>3 DEF UpdateReads
        <5> HIDE DEF candidate
        <5>3. Moves(c, "writing", candidate) /\ UNCHANGED lock
          BY <4>2 DEF candidate
        <5> QED
          BY <5>1, <5>2, <5>3, <3>1, <2>inv DEF Moves, UpdatesAreApart, LockInv
      <4> QED
        BY <3>2, <4>1, <4>2 DEF Merges
    <3> QED
      BY <3>1, <3>3, <2>same, <2>told
  <2>4. CASE UpdateWrites(c)
    <3>1. at[c] = "writing" /\ disk' = plan[c] /\ lock = c
      BY <2>4, <2>inv DEF UpdateWrites, UpdatesAreApart
    <3>2. IsState(plan[c]) /\ plan[c].revision = disk.revision + 1 /\ disk.revision \in Nat
      BY <3>1, <2>inv DEF UpdatesAreApart, IsState
    <3>3. \A other \in SetupClients \ {c} : at[other] = "idle"
      BY <3>1, <2>inv DEF UpdatesAreApart
    <3>4. UpdatesAreApart'
      BY <2>4, <3>3 DEF UpdateWrites, Returns, Moves, UpdatesAreApart, LockInv
    <3>5. RepliesStand'
      BY <2>4, <3>1, <3>2, <2>inv DEF UpdateWrites, Answer, RepliesStand, LockInv
    <3> QED
      BY <3>1, <3>2, <3>4, <3>5
  <2>5. CASE Fails(c)
    BY <2>5, <2>same, <2>told, <2>idle DEF Fails
  <2>6. ~LoadFinds(c) /\ ~LoadRepairs(c) /\ ~UpdateRepairs(c, Patches)
    BY <2>current, <2>inv DEF LoadFinds, LoadRepairs, UpdateRepairs, UpdatesAreApart
  <2> QED
    BY <1>2, <2>1, <2>2, <2>3, <2>4, <2>5, <2>6 DEF SetupStep
<1> QED
  BY <1>1, <1>2 DEF SetupNext

\* With a settings file of schema 2 from the start, no update is lost or undone, however
\* many clients patch it with stores of their own and wherever they break off: the file is
\* never behind what a client was given (setup_state.py, update under its lock file).
THEOREM RepliesOutlastUpdates == SetupSpec => []EveryReplyStands
<1>1. LockInv => EveryReplyStands
  <2> SUFFICES ASSUME LockInv, begun = "current", NEW c \in SetupClients
               PROVE  /\ reply[c].revision <= disk.revision
                      /\ reply[c].revision = disk.revision /\ reply[c] # Absent => reply[c] = disk
    BY DEF EveryReplyStands
  <2> QED
    BY DEF LockInv, RepliesStand, IsState, Absent
<1> QED
  BY <1>1, LockInit, LockStep, PTL DEF SetupSpec

(***************************************************************************)
(* The audio store.  Between its handlers the store is within its bounds,  *)
(* has every speech once, and is in the order of age: what is pruned first *)
(* is what was put first (IsStore, InBounds).                              *)
(***************************************************************************)

Items == [id: Speeches, size: Nat, age: Nat, owner: Owners]

(* The store as a sequence: from the oldest on, and nothing twice. *)
IsStore(store) ==
    /\ store \in Seq(Items)
    /\ \A j, k \in 1 .. Len(store) : j < k => store[j].age >= store[k].age
    /\ \A j, k \in 1 .. Len(store) : store[j].id = store[k].id => j = k

InBounds(store) == Len(store) <= MaxItems /\ Bytes(store) <= MaxTotalBytes

(* Some of a store, in its order. *)
IsPartOf(sub, store) ==
    /\ sub \in Seq(Items)
    /\ \E e \in [1 .. Len(sub) -> 1 .. Len(store)] :
          /\ \A i, j \in 1 .. Len(sub) : i < j => e[i] < e[j]
          /\ \A i \in 1 .. Len(sub) : sub[i] = store[e[i]]
(* Whose audio was handed out. *)
Heard(id) == \E k \in 1 .. Len(fetched) : fetched[k].id = id

(* Audio is put once, so that it is in the store or was heard at most once. *)
ItemIsRight(item) ==
    /\ speech[item.id].at \notin {"idle", "synthesizing"}
    /\ speech[item.id].at = "queued" => item.owner = speech[item.id].turn
    /\ ~Heard(item.id)

SpeechIsRight(s) ==
    /\ DOMAIN speech[s] = {"at", "result", "turn"}
    /\ speech[s].turn \in Owners
    /\ speech[s].at \in {"idle", "synthesizing"} => ~Heard(s)
    /\ speech[s].at = "queued" => speech[s].turn # NoListener

FetchIsRight(k) ==
    /\ \A j \in 1 .. Len(fetched) : fetched[j].id = fetched[k].id => j = k
    /\ speech[fetched[k].id].at = "queued" => fetched[k].by = speech[fetched[k].id].turn

AudioInv ==
    /\ IsStore(artifacts) /\ InBounds(artifacts)
    /\ fetched \in Seq([id: Speeches, by: Owners])
    /\ DOMAIN speech = Speeches
    /\ \A s \in Speeches : SpeechIsRight(s)
    /\ \A i \in 1 .. Len(artifacts) : ItemIsRight(artifacts[i])
    /\ \A k \in 1 .. Len(fetched) : FetchIsRight(k)
-----------------------------------------------------------------------------
LEMMA LengthOfPart ==
    ASSUME NEW n \in Nat, NEW m \in Nat, NEW e \in [1 .. m -> 1 .. n],
           \A i, j \in 1 .. m : e[i] = e[j] => i = j
    PROVE  m <= n
<1> DEFINE S == 1 .. m
           T == 1 .. n
<1>1. /\ IsFiniteSet(S) /\ Cardinality(S) = IF 1 > m THEN 0 ELSE m - 1 + 1
      /\ IsFiniteSet(T) /\ Cardinality(T) = IF 1 > n THEN 0 ELSE n - 1 + 1
  BY FS_Interval
<1>2. e \in Injection(S, T)
  BY DEF Injection, IsInjective
<1> HIDE DEF S, T
<1>3. Cardinality(S) <= Cardinality(T)
  BY <1>1, <1>2, FS_Injection
<1> QED  BY <1>1, <1>3

LEMMA BytesOfPart ==
    ASSUME NEW store \in Seq(Items), NEW sub, IsPartOf(sub, store)
    PROVE  /\ Len(sub) <= Len(store) /\ Bytes(sub) <= Bytes(store)
           /\ Bytes(sub) \in Nat /\ Bytes(store) \in Nat
<1> DEFINE n == Len(store)
           m == Len(sub)
           f == [k \in 1 .. n |-> store[k].size]
           g == [k \in 1 .. m |-> sub[k].size]
<1>1. /\ n \in Nat /\ m \in Nat /\ sub \in Seq(Items)
      /\ \A k \in 1 .. n : store[k] \in Items
      /\ \A k \in 1 .. m : sub[k] \in Items
  BY LenProperties, ElementOfSeq DEF IsPartOf
<1>2. PICK e \in [1 .. m -> 1 .. n] :
          /\ \A i, j \in 1 .. m : i < j => e[i] < e[j]
          /\ \A i \in 1 .. m : sub[i] = store[e[i]]
  BY DEF IsPartOf
<1> HIDE DEF n, m
<1>3. \A i, j \in 1 .. m : e[i] = e[j] => i = j
  <2> SUFFICES ASSUME NEW i \in 1 .. m, NEW j \in 1 .. m, e[i] = e[j] PROVE i = j
    OBVIOUS
  <2>1. e[i] \in 1 .. n /\ e[j] \in 1 .. n /\ ~(e[i] < e[j]) /\ ~(e[j] < e[i])
    BY <1>1
  <2>2. ~(i < j) /\ ~(j < i)
    BY <1>2, <2>1
  <2> QED  BY <1>1, <2>2
<1>4. /\ \A y \in 1 .. n : f[y] \in Nat
      /\ \A x \in 1 .. m : g[x] \in Nat /\ g[x] = f[e[x]]
  <2>1. \A y \in 1 .. n : store[y].size \in Nat
    BY <1>1 DEF Items
  <2>2. \A x \in 1 .. m : sub[x].size \in Nat /\ sub[x].size = store[e[x]].size /\ e[x] \in 1 .. n
    BY <1>1, <1>2 DEF Items
  <2> QED  BY <2>1, <2>2
<1>5. IsFiniteSet(1 .. n) /\ IsFiniteSet(1 .. m)
  BY <1>1, FS_Interval
<1>6. DOMAIN f = 1 .. n /\ DOMAIN g = 1 .. m
  OBVIOUS
<1> DEFINE S == 1 .. m
           T == 1 .. n
<1> HIDE DEF f, g
<1>7. Bytes(sub) = SumFunctionOnSet(g, S) /\ Bytes(store) = SumFunctionOnSet(f, T)
  BY <1>6 DEF Bytes, SumFunction, f, g, n, m
<1>8. SumFunctionOnSet(g, S) <= SumFunctionOnSet(f, T)
  <2>1. /\ IsFiniteSet(S) /\ IsFiniteSet(T) /\ e \in [S -> T]
        /\ \A y \in T : f[y] \in Nat
        /\ \A x, z \in S : e[x] = e[z] => x = z
        /\ \A x \in S : g[x] = f[e[x]]
    BY <1>2, <1>3, <1>4, <1>5
  <2> HIDE DEF S, T
  <2> QED  BY ONLY <2>1, SumOfPart
<1>9. SumFunctionOnSet(g, S) \in Nat /\ SumFunctionOnSet(f, T) \in Nat
  <2>1. /\ IsFiniteSet(S) /\ IsFiniteSet(T)
        /\ \A y \in T : f[y] \in Nat
        /\ \A x \in S : g[x] \in Nat
    BY <1>4, <1>5
  <2> HIDE DEF S, T
  <2> QED  BY ONLY <2>1, SumOfNaturals
<1>10. m <= n
  BY ONLY <1>1, <1>3, e \in [1 .. m -> 1 .. n], LengthOfPart
<1> QED  BY <1>7, <1>8, <1>9, <1>10 DEF n, m

LEMMA PartOfStore ==
    ASSUME NEW store, IsStore(store), NEW sub, IsPartOf(sub, store)
    PROVE  /\ IsStore(sub)
           /\ \A i \in 1 .. Len(sub) : \E k \in 1 .. Len(store) : sub[i] = store[k]
           /\ InBounds(store) => InBounds(sub)
<1>1. store \in Seq(Items) /\ Len(store) \in Nat /\ sub \in Seq(Items) /\ Len(sub) \in Nat
  BY LenProperties DEF IsStore, IsPartOf
<1>2. PICK e \in [1 .. Len(sub) -> 1 .. Len(store)] :
          /\ \A i, j \in 1 .. Len(sub) : i < j => e[i] < e[j]
          /\ \A i \in 1 .. Len(sub) : sub[i] = store[e[i]]
  BY DEF IsPartOf
<1>3. \A i \in 1 .. Len(sub) : e[i] \in 1 .. Len(store)
  OBVIOUS
<1>4. ASSUME NEW j \in 1 .. Len(sub), NEW k \in 1 .. Len(sub), j < k PROVE sub[j].age >= sub[k].age
  BY <1>2, <1>3, <1>4 DEF IsStore
<1>5. ASSUME NEW j \in 1 .. Len(sub), NEW k \in 1 .. Len(sub), sub[j].id = sub[k].id PROVE j = k
  <2>1. e[j] = e[k]
    BY <1>2, <1>3, <1>5 DEF IsStore
  <2>2. ~(j < k) /\ ~(k < j)
    BY <1>1, <1>2, <1>3, <2>1
  <2> QED  BY <1>1, <2>2
<1>6. InBounds(store) => InBounds(sub)
  <2>1. /\ Len(sub) <= Len(store) /\ Bytes(sub) <= Bytes(store)
        /\ Bytes(sub) \in Nat /\ Bytes(store) \in Nat
    BY <1>1, BytesOfPart
  <2> QED  BY <1>1, <2>1, AudioArtifactsAssumption DEF InBounds
<1> QED  BY <1>1, <1>2, <1>3, <1>4, <1>5, <1>6 DEF IsStore

(* What a filter leaves. *)
LEMMA OnlyIsPart ==
    ASSUME NEW store \in Seq(Items), NEW keep
    PROVE  /\ IsPartOf(Only(store, keep), store)
           /\ \A k \in 1 .. Len(store) : store[k] \in keep =>
                 \E i \in 1 .. Len(Only(store, keep)) : Only(store, keep)[i] = store[k]
           /\ \A i \in 1 .. Len(Only(store, keep)) : Only(store, keep)[i] \in keep
<1> DEFINE s == Only(store, keep)
<1>1. s \in Seq(Items) /\ \E e : Filters(s, store, keep, Len(store), e)
  BY OnlyFilters
<1> HIDE DEF s
<1>2. PICK e : Filters(s, store, keep, Len(store), e)
  BY <1>1
<1>3. IsPartOf(s, store)
  BY <1>1, <1>2 DEF IsPartOf, Filters
<1>4. \A k \in 1 .. Len(store) : store[k] \in keep => \E i \in 1 .. Len(s) : s[i] = store[k]
  BY <1>2 DEF Filters
<1>5. \A i \in 1 .. Len(s) : s[i] \in keep
  BY <1>2 DEF Filters
<1> USE DEF s
<1> QED  BY <1>3, <1>4, <1>5

(* The eviction ends within the bounds, with the newest. *)
LEMMA TrimmedIsPart ==
    ASSUME NEW store \in Seq(Items)
    PROVE  IsPartOf(Trimmed(store), store) /\ InBounds(Trimmed(store))
<1> DEFINE n == Len(store)
           Rest(k) == SubSeq(store, k, n)
           fits == {k \in 1 .. n + 1 : Len(Rest(k)) <= MaxItems /\ Bytes(Rest(k)) <= MaxTotalBytes}
<1>1. n \in Nat /\ \A k \in 1 .. n : store[k] \in Items
  BY LenProperties, ElementOfSeq
<1>2. Trimmed(store) = Rest(Min(fits))
  BY DEF Trimmed
<1>3. n + 1 \in fits
  <2>1. Rest(n + 1) = <<>>
    BY <1>1, SubSeqEmpty
  <2>2. Bytes(<<>>) = 0 /\ Len(<<>>) = 0
    <3> DEFINE f == [k \in 1 .. Len(<<>>) |-> <<>>[k].size]
    <3>1. Len(<<>>) = 0
      OBVIOUS
    <3>2. DOMAIN f = {}
      BY <3>1
    <3>3. Bytes(<<>>) = SumFunctionOnSet(f, {})
      BY <3>2 DEF Bytes, SumFunction
    <3> HIDE DEF f
    <3>4. SumFunctionOnSet(f, {}) = 0
      BY SumStep, FS_EmptySet
    <3> QED  BY <3>1, <3>3, <3>4
  <2>3. n + 1 \in 1 .. n + 1
    BY <1>1
  <2>4. Len(Rest(n + 1)) <= MaxItems /\ Bytes(Rest(n + 1)) <= MaxTotalBytes
    <3> HIDE DEF Rest
    <3>1. Len(Rest(n + 1)) = 0 /\ Bytes(Rest(n + 1)) = 0
      BY <2>1, <2>2
    <3> QED  BY <3>1, AudioArtifactsAssumption
  <2> HIDE DEF Rest
  <2> QED  BY <2>3, <2>4
<1>4. fits \subseteq Nat
  BY <1>1
<1> HIDE DEF fits
<1>5. \E k \in fits : \A m \in fits : k <= m
  BY <1>3, <1>4, LeastNatural
<1>6. Min(fits) \in fits
  BY <1>5 DEF Min
<1> DEFINE first == Min(fits)
<1>7. /\ first \in 1 .. n + 1
      /\ Len(Rest(first)) <= MaxItems /\ Bytes(Rest(first)) <= MaxTotalBytes
  BY <1>6 DEF fits
<1> HIDE DEF first, n
<1>8. /\ first \in Int /\ n \in Int /\ first >= 1 /\ first <= n + 1
      /\ \A i \in first .. n : store[i] \in Items
  BY <1>1, <1>7
<1>9. /\ Rest(first) \in Seq(Items)
      /\ Len(Rest(first)) = IF first <= n THEN n - first + 1 ELSE 0
      /\ \A i \in 1 .. n - first + 1 : Rest(first)[i] = store[first + i - 1]
  BY <1>8, SubSeqProperties
<1>10. Len(Rest(first)) = n - first + 1
  BY <1>8, <1>9
<1>11. IsPartOf(Rest(first), store)
  <2> DEFINE m == n - first + 1
             e == [i \in 1 .. m |-> first + i - 1]
  <2>1. m \in Nat /\ m <= n
    BY <1>8
  <2>2. e \in [1 .. m -> 1 .. n]
    BY <1>8
  <2>3. \A i, j \in 1 .. m : i < j => e[i] < e[j]
    BY <1>8
  <2>4. \A i \in 1 .. m : Rest(first)[i] = store[e[i]]
    BY <1>9
  <2> HIDE DEF e, m
  <2>5. Len(Rest(first)) = m
    BY <1>10 DEF m
  <2> HIDE DEF Rest
  <2> QED  BY <1>9, <2>2, <2>3, <2>4, <2>5 DEF IsPartOf, n
<1>12. InBounds(Rest(first))
  BY <1>7 DEF InBounds
<1> QED  BY <1>2, <1>11, <1>12 DEF first, n

LEMMA TrimmedStore ==
    ASSUME NEW store, IsStore(store)
    PROVE  /\ IsStore(Trimmed(store)) /\ InBounds(Trimmed(store))
           /\ \A i \in 1 .. Len(Trimmed(store)) : \E k \in 1 .. Len(store) : Trimmed(store)[i] = store[k]
<1>1. IsPartOf(Trimmed(store), store) /\ InBounds(Trimmed(store))
  BY TrimmedIsPart DEF IsStore
<1> QED  BY <1>1, PartOfStore

LEMMA PrunedStore ==
    ASSUME NEW store, IsStore(store)
    PROVE  /\ IsStore(Pruned(store)) /\ (InBounds(store) => InBounds(Pruned(store)))
           /\ \A i \in 1 .. Len(Pruned(store)) : \E k \in 1 .. Len(store) : Pruned(store)[i] = store[k]
<1>1. IsPartOf(Pruned(store), store)
  BY OnlyIsPart DEF IsStore, Pruned
<1> QED  BY <1>1, PartOfStore

LEMMA StoreWithout ==
    ASSUME NEW store, IsStore(store), NEW id
    PROVE  /\ IsStore(Without(store, id)) /\ (InBounds(store) => InBounds(Without(store, id)))
           /\ \A i \in 1 .. Len(Without(store, id)) :
                 /\ \E k \in 1 .. Len(store) : Without(store, id)[i] = store[k]
                 /\ Without(store, id)[i].id # id
<1> DEFINE keep == {item \in ToSet(store) : item.id # id}
<1>1. /\ IsPartOf(Only(store, keep), store)
      /\ \A i \in 1 .. Len(Only(store, keep)) : Only(store, keep)[i] \in keep
  <2> HIDE DEF keep
  <2> QED  BY OnlyIsPart DEF IsStore
<1>2. Without(store, id) = Only(store, keep)
  BY DEF Without
<1>3. \A i \in 1 .. Len(Without(store, id)) : Without(store, id)[i].id # id
  BY <1>1, <1>2
<1>4. IsPartOf(Without(store, id), store)
  BY <1>1, <1>2
<1> QED  BY <1>3, <1>4, PartOfStore

(* A new artifact at the end. *)
LEMMA GrownStore ==
    ASSUME NEW store, IsStore(store), NEW item \in Items, item.age = 0,
           \A k \in 1 .. Len(store) : store[k].id # item.id
    PROVE  /\ IsStore(Append(store, item))
           /\ \A i \in 1 .. Len(Append(store, item)) :
                 Append(store, item)[i] = item \/ \E k \in 1 .. Len(store) : Append(store, item)[i] = store[k]
<1> DEFINE n == Len(store)
           grown == Append(store, item)
<1>1. store \in Seq(Items) /\ n \in Nat
  BY LenProperties DEF IsStore
<1>2. /\ grown \in Seq(Items) /\ Len(grown) = n + 1 /\ grown[n + 1] = item
      /\ \A i \in 1 .. n : grown[i] = store[i]
  BY <1>1, AppendProperties
<1> HIDE DEF grown
<1>3. \A i \in 1 .. n : store[i].age >= 0
  <2>1. \A i \in 1 .. n : store[i] \in Items
    BY <1>1, ElementOfSeq
  <2>2. \A i \in 1 .. n : store[i].age \in Nat
    BY <2>1 DEF Items
  <2> QED  BY <2>2
<1>4. ASSUME NEW j \in 1 .. n + 1, NEW k \in 1 .. n + 1, j < k PROVE grown[j].age >= grown[k].age
  <2>1. j \in 1 .. n
    BY <1>1, <1>4
  <2>2. CASE k = n + 1
    BY <1>2, <1>3, <2>1, <2>2
  <2>3. CASE k # n + 1
    <3>1. k \in 1 .. n
      BY <1>1, <2>3
    <3> QED  BY <1>2, <1>4, <2>1, <3>1 DEF IsStore
  <2> QED  BY <2>2, <2>3
<1>5. ASSUME NEW j \in 1 .. n + 1, NEW k \in 1 .. n + 1, grown[j].id = grown[k].id PROVE j = k
  <2>1. CASE j \in 1 .. n /\ k \in 1 .. n
    BY <1>2, <1>5, <2>1 DEF IsStore
  <2>2. CASE j = n + 1 /\ k \in 1 .. n
    BY <1>2, <1>5, <2>2
  <2>3. CASE j \in 1 .. n /\ k = n + 1
    BY <1>2, <1>5, <2>3
  <2>4. CASE j = n + 1 /\ k = n + 1
    BY <2>4
  <2>5. (j \in 1 .. n \/ j = n + 1) /\ (k \in 1 .. n \/ k = n + 1)
    BY <1>1
  <2> QED  BY <2>1, <2>2, <2>3, <2>4, <2>5
<1>6. IsStore(grown)
  BY <1>2, <1>4, <1>5 DEF IsStore
<1>7. \A i \in 1 .. n + 1 : grown[i] = item \/ \E k \in 1 .. n : grown[i] = store[k]
  BY <1>1, <1>2
<1> USE DEF grown
<1> QED  BY <1>2, <1>6, <1>7

(* Every artifact stays itself and as large as it was. *)
LEMMA ChangedStore ==
    ASSUME NEW store, IsStore(store), NEW changed,
           changed = [k \in 1 .. Len(store) |-> changed[k]],
           \A k \in 1 .. Len(store) :
              changed[k] \in Items /\ changed[k].id = store[k].id /\ changed[k].size = store[k].size,
           \A j, k \in 1 .. Len(store) : j < k => changed[j].age >= changed[k].age
    PROVE  /\ IsStore(changed) /\ Len(changed) = Len(store)
           /\ InBounds(store) => InBounds(changed)
<1>1. store \in Seq(Items) /\ Len(store) \in Nat
  BY LenProperties DEF IsStore
<1>2. changed \in [1 .. Len(store) -> Items]
  OBVIOUS
<1>3. changed \in Seq(Items) /\ Len(changed) = Len(store)
  BY <1>1, <1>2
<1>4. Bytes(changed) = Bytes(store)
  <2> DEFINE f == [k \in 1 .. Len(changed) |-> changed[k].size]
             g == [k \in 1 .. Len(store) |-> store[k].size]
  <2>1. f = g
    BY <1>3
  <2>2. Bytes(changed) = SumFunction(f) /\ Bytes(store) = SumFunction(g)
    BY DEF Bytes
  <2> HIDE DEF f, g
  <2> QED  BY <2>1, <2>2
<1> QED  BY <1>3, <1>4 DEF IsStore, InBounds

(* A step that puts nothing into the store and hands out nothing. *)
LEMMA NothingPut ==
    ASSUME AudioInv, UNCHANGED fetched, IsStore(artifacts'), InBounds(artifacts'),
           DOMAIN speech' = Speeches,
           \A s \in Speeches :
              /\ DOMAIN speech'[s] = {"at", "result", "turn"} /\ speech'[s].turn \in Owners
              /\ speech'[s].at \in {"idle", "synthesizing"} => speech[s].at \in {"idle", "synthesizing"}
              /\ speech'[s].at = "queued" =>
                    /\ speech'[s].turn = speech[s].turn /\ speech[s].turn # NoListener
                    /\ speech[s].at = "queued" \/ ~Heard(s),
           \A i \in 1 .. Len(artifacts') : \E k \in 1 .. Len(artifacts) :
              /\ artifacts'[i].id = artifacts[k].id
              /\ \/ artifacts'[i].owner = artifacts[k].owner
                    /\ (speech'[artifacts[k].id].at = "queued" => speech[artifacts[k].id].at = "queued")
                 \/ artifacts'[i].owner = speech[artifacts[k].id].turn
    PROVE  AudioInv'
<1>1. \A id : Heard(id)' <=> Heard(id)
  BY DEF Heard
<1>2. /\ \A i \in 1 .. Len(artifacts) : artifacts[i].id \in Speeches
      /\ \A k \in 1 .. Len(fetched) : fetched[k].id \in Speeches
  <2>1. \A i \in 1 .. Len(artifacts) : artifacts[i] \in Items
    BY ElementOfSeq DEF AudioInv, IsStore
  <2>2. \A k \in 1 .. Len(fetched) : fetched[k] \in [id: Speeches, by: Owners]
    BY ElementOfSeq DEF AudioInv
  <2> QED  BY <2>1, <2>2 DEF Items
<1>3. ASSUME NEW s \in Speeches PROVE SpeechIsRight(s)'
  BY <1>1, <1>3 DEF AudioInv, SpeechIsRight
<1>4. ASSUME NEW i \in 1 .. Len(artifacts') PROVE ItemIsRight(artifacts[i])'
  <2>1. PICK k \in 1 .. Len(artifacts) :
              /\ artifacts'[i].id = artifacts[k].id
              /\ \/ artifacts'[i].owner = artifacts[k].owner
                    /\ (speech'[artifacts[k].id].at = "queued" => speech[artifacts[k].id].at = "queued")
                 \/ artifacts'[i].owner = speech[artifacts[k].id].turn
    OBVIOUS
  <2>2. ItemIsRight(artifacts[k]) /\ artifacts[k].id \in Speeches
    BY <1>2 DEF AudioInv
  <2> QED  BY <1>1, <2>1, <2>2 DEF ItemIsRight
<1>5. ASSUME NEW k \in 1 .. Len(fetched') PROVE FetchIsRight(k)'
  <2>1. FetchIsRight(k) /\ fetched' = fetched /\ fetched[k].id \in Speeches /\ Heard(fetched[k].id)
    BY <1>2, <1>5 DEF AudioInv, Heard
  <2> QED  BY <2>1 DEF FetchIsRight
<1> QED  BY <1>3, <1>4, <1>5 DEF AudioInv

(* The artifact of a speech is put at its end, and then the oldest go. *)
LEMMA PutKeepsInv ==
    ASSUME AudioInv, NEW s \in Speeches, NEW size \in Nat, Put(s, size), UNCHANGED fetched,
           speech[s].at = "synthesizing",
           NEW result, Ends(s, result)
    PROVE  AudioInv'
<1> DEFINE item == [id |-> s, size |-> size, age |-> 0, owner |-> NoListener]
           store == Pruned(artifacts)
           grown == Append(store, item)
<1>1. /\ IsStore(store)
      /\ \A i \in 1 .. Len(store) : \E k \in 1 .. Len(artifacts) : store[i] = artifacts[k]
  BY PrunedStore DEF AudioInv
<1>2. \A i \in 1 .. Len(store) : store[i].id # s
  <2>1. \A k \in 1 .. Len(artifacts) : artifacts[k].id # s
    BY DEF AudioInv, ItemIsRight
  <2> QED  BY <1>1, <2>1
<1>3. item \in Items /\ item.age = 0 /\ item.id = s /\ item.owner = NoListener
  BY DEF Items, Owners
<1>4. artifacts' = Trimmed(grown)
  BY DEF Put
<1> HIDE DEF item, store
<1>5. /\ IsStore(grown)
      /\ \A i \in 1 .. Len(grown) : grown[i] = item \/ \E k \in 1 .. Len(store) : grown[i] = store[k]
  BY <1>1, <1>2, <1>3, GrownStore
<1> HIDE DEF grown
<1>6. /\ IsStore(artifacts') /\ InBounds(artifacts')
      /\ \A i \in 1 .. Len(artifacts') : \E k \in 1 .. Len(grown) : artifacts'[i] = grown[k]
  BY <1>4, <1>5, TrimmedStore
<1>7. \A i \in 1 .. Len(artifacts') :
          artifacts'[i] = item \/ \E k \in 1 .. Len(artifacts) : artifacts'[i] = artifacts[k]
  BY <1>1, <1>5, <1>6
<1>8. /\ DOMAIN speech' = Speeches
      /\ \A t \in Speeches : t # s => speech'[t] = speech[t]
      /\ DOMAIN speech'[s] = {"at", "result", "turn"}
      /\ speech'[s].at = "made" /\ speech'[s].turn = speech[s].turn
  BY DEF Ends, AudioInv, SpeechIsRight
<1>9. ~Heard(s)
  BY DEF AudioInv, SpeechIsRight
<1>10. \A id : Heard(id)' <=> Heard(id)
  BY DEF Heard
<1>11. /\ \A i \in 1 .. Len(artifacts) : artifacts[i].id \in Speeches
       /\ \A k \in 1 .. Len(fetched) : fetched[k].id \in Speeches
  <2>1. \A i \in 1 .. Len(artifacts) : artifacts[i] \in Items
    BY ElementOfSeq DEF AudioInv, IsStore
  <2>2. \A k \in 1 .. Len(fetched) : fetched[k] \in [id: Speeches, by: Owners]
    BY ElementOfSeq DEF AudioInv
  <2> QED  BY <2>1, <2>2 DEF Items
<1>12. ASSUME NEW t \in Speeches PROVE SpeechIsRight(t)'
  <2>1. SpeechIsRight(t)
    BY DEF AudioInv
  <2> QED  BY <1>8, <1>9, <1>10, <2>1 DEF SpeechIsRight
<1>13. ASSUME NEW i \in 1 .. Len(artifacts') PROVE ItemIsRight(artifacts[i])'
  <2>1. CASE artifacts'[i] = item
    BY <1>3, <1>8, <1>9, <1>10, <2>1 DEF ItemIsRight
  <2>2. CASE \E k \in 1 .. Len(artifacts) : artifacts'[i] = artifacts[k]
    <3>1. PICK k \in 1 .. Len(artifacts) : artifacts'[i] = artifacts[k]
      BY <2>2
    <3>2. ItemIsRight(artifacts[k]) /\ artifacts[k].id \in Speeches
      BY <1>11 DEF AudioInv
    <3>3. artifacts[k].id # s
      BY <3>2 DEF ItemIsRight
    <3> QED  BY <1>8, <1>10, <3>1, <3>2, <3>3 DEF ItemIsRight
  <2> QED  BY <1>7, <2>1, <2>2
<1>14. ASSUME NEW k \in 1 .. Len(fetched') PROVE FetchIsRight(k)'
  <2>1. FetchIsRight(k) /\ fetched' = fetched /\ fetched[k].id \in Speeches /\ Heard(fetched[k].id)
    BY <1>11, <1>14 DEF AudioInv, Heard
  <2>2. fetched[k].id # s
    BY <1>9, <2>1
  <2> QED  BY <1>8, <2>1, <2>2 DEF FetchIsRight
<1> QED  BY <1>6, <1>8, <1>12, <1>13, <1>14 DEF AudioInv

(* What is handed out leaves the store. *)
LEMMA ConsumeKeepsInv ==
    ASSUME AudioInv, NEW s \in Speeches, NEW listener \in Owners, Consume(s, listener), UNCHANGED speech
    PROVE  AudioInv'
<1> DEFINE store == Pruned(artifacts)
           entry == [id |-> s, by |-> listener]
           F == [id: Speeches, by: Owners]
           n == Len(fetched)
<1>1. /\ IsStore(store) /\ InBounds(store)
      /\ \A i \in 1 .. Len(store) : \E k \in 1 .. Len(artifacts) : store[i] = artifacts[k]
  BY PrunedStore DEF AudioInv
<1>2. PICK k \in 1 .. Len(store) :
          /\ store[k].id = s
          /\ store[k].owner \in {NoListener, listener}
          /\ artifacts' = Without(store, s)
          /\ fetched' = Append(fetched, entry)
  BY DEF Consume
<1> HIDE DEF store
<1>3. /\ IsStore(artifacts') /\ InBounds(artifacts')
      /\ \A i \in 1 .. Len(artifacts') :
            artifacts'[i].id # s /\ \E j \in 1 .. Len(artifacts) : artifacts'[i] = artifacts[j]
  <2>1. /\ IsStore(Without(store, s)) /\ (InBounds(store) => InBounds(Without(store, s)))
        /\ \A i \in 1 .. Len(Without(store, s)) :
              /\ \E j \in 1 .. Len(store) : Without(store, s)[i] = store[j]
              /\ Without(store, s)[i].id # s
    BY <1>1, StoreWithout
  <2> QED  BY <1>1, <1>2, <2>1
<1>4. PICK j \in 1 .. Len(artifacts) : store[k] = artifacts[j]
  BY <1>1
<1>5. /\ ItemIsRight(artifacts[j]) /\ artifacts[j].id = s
      /\ artifacts[j].owner \in {NoListener, listener}
  BY <1>2, <1>4 DEF AudioInv
<1>6. ~Heard(s) /\ speech[s].at \notin {"idle", "synthesizing"}
  BY <1>5 DEF ItemIsRight
<1>7. speech[s].at = "queued" => listener = speech[s].turn
  BY <1>5 DEF ItemIsRight, AudioInv, SpeechIsRight
<1>8. fetched \in Seq(F) /\ n \in Nat /\ entry \in F /\ entry.id = s /\ entry.by = listener
  BY LenProperties DEF AudioInv
<1>9. /\ fetched' \in Seq(F) /\ Len(fetched') = n + 1
      /\ fetched'[n + 1] = entry
      /\ \A i \in 1 .. n : fetched'[i] = fetched[i]
  <2> HIDE DEF entry, F
  <2> QED  BY <1>2, <1>8, AppendProperties
<1> HIDE DEF n, entry
<1>10. \A i \in 1 .. n + 1 : i \in 1 .. n \/ i = n + 1
  BY <1>8
<1>11. \A id : Heard(id)' <=> Heard(id) \/ id = s
  <2>1. n + 1 \in 1 .. n + 1 /\ \A i \in 1 .. n : i \in 1 .. n + 1
    BY <1>8
  <2> QED  BY <1>8, <1>9, <1>10, <2>1 DEF Heard, n
<1>12. /\ \A i \in 1 .. Len(artifacts) : artifacts[i].id \in Speeches
  <2>1. \A i \in 1 .. Len(artifacts) : artifacts[i] \in Items
    BY ElementOfSeq DEF AudioInv, IsStore
  <2> QED  BY <2>1 DEF Items
<1>13. ASSUME NEW t \in Speeches PROVE SpeechIsRight(t)'
  <2>1. SpeechIsRight(t) /\ speech' = speech
    BY DEF AudioInv
  <2> QED  BY <1>6, <1>11, <2>1 DEF SpeechIsRight
<1>14. ASSUME NEW i \in 1 .. Len(artifacts') PROVE ItemIsRight(artifacts[i])'
  <2>1. PICK m \in 1 .. Len(artifacts) : artifacts'[i] = artifacts[m]
    BY <1>3
  <2>2. ItemIsRight(artifacts[m]) /\ artifacts[m].id # s /\ speech' = speech
    BY <1>3, <2>1 DEF AudioInv
  <2> QED  BY <1>11, <2>1, <2>2 DEF ItemIsRight
<1>15. ASSUME NEW i \in 1 .. Len(fetched') PROVE FetchIsRight(i)'
  <2>0. \A m \in 1 .. n : fetched[m].id # s
    BY <1>6 DEF Heard, n
  <2>1. CASE i \in 1 .. n
    <3>1. FetchIsRight(i) /\ speech' = speech /\ fetched'[i] = fetched[i]
      BY <1>9, <2>1 DEF AudioInv, n
    <3>2. fetched[i].id # s
      BY <2>0, <2>1
    <3>3. ASSUME NEW m \in 1 .. n + 1, fetched'[m].id = fetched'[i].id PROVE m = i
      <4>1. m # n + 1
        BY <1>8, <1>9, <3>1, <3>2, <3>3
      <4>2. m \in 1 .. n
        BY <1>10, <4>1
      <4>3. fetched[m].id = fetched[i].id
        BY <1>9, <3>1, <3>3, <4>2
      <4> QED  BY <3>1, <4>2, <4>3 DEF FetchIsRight, n
    <3> QED  BY <1>9, <3>1, <3>3 DEF FetchIsRight
  <2>2. CASE i = n + 1
    <3>1. ASSUME NEW m \in 1 .. n + 1, fetched'[m].id = fetched'[i].id PROVE m = i
      BY <1>8, <1>9, <1>10, <2>0, <2>2, <3>1
    <3>2. fetched'[i].id = s /\ fetched'[i].by = listener /\ speech' = speech
      BY <1>8, <1>9, <2>2
    <3> QED  BY <1>7, <1>9, <3>1, <3>2 DEF FetchIsRight
  <2> QED  BY <1>9, <1>10, <1>15, <2>1, <2>2
<1>16. DOMAIN speech' = Speeches
  BY DEF AudioInv
<1> QED  BY <1>3, <1>9, <1>13, <1>14, <1>15, <1>16 DEF AudioInv

(* A step of the speeches alone, none of which it queues. *)
LEMMA SpeechMoves ==
    ASSUME AudioInv, UNCHANGED <<artifacts, fetched>>, NEW s \in Speeches,
           DOMAIN speech' = Speeches, \A t \in Speeches : t # s => speech'[t] = speech[t],
           DOMAIN speech'[s] = {"at", "result", "turn"}, speech'[s].turn \in Owners,
           speech'[s].at # "queued",
           speech'[s].at = "synthesizing" => speech[s].at = "idle", speech'[s].at # "idle"
    PROVE  AudioInv'
<1>1. \A t \in Speeches : SpeechIsRight(t)
  BY DEF AudioInv
<1>2. ASSUME NEW t \in Speeches
      PROVE  /\ DOMAIN speech'[t] = {"at", "result", "turn"} /\ speech'[t].turn \in Owners
             /\ speech'[t].at \in {"idle", "synthesizing"} => speech[t].at \in {"idle", "synthesizing"}
             /\ speech'[t].at = "queued" =>
                   /\ speech'[t].turn = speech[t].turn /\ speech[t].turn # NoListener
                   /\ speech[t].at = "queued" \/ ~Heard(t)
  <2>1. CASE t = s
    BY <2>1
  <2>2. CASE t # s
    BY <1>1, <2>2 DEF SpeechIsRight
  <2> QED  BY <2>1, <2>2
<1>3. \A i \in 1 .. Len(artifacts) : artifacts[i].id \in Speeches
  <2>1. \A i \in 1 .. Len(artifacts) : artifacts[i] \in Items
    BY ElementOfSeq DEF AudioInv, IsStore
  <2> QED  BY <2>1 DEF Items
<1>4. \A i \in 1 .. Len(artifacts) : speech'[artifacts[i].id].at = "queued" => speech[artifacts[i].id].at = "queued"
  BY <1>3
<1>5. IsStore(artifacts') /\ InBounds(artifacts')
  BY DEF AudioInv
<1>6. \A i \in 1 .. Len(artifacts') : \E k \in 1 .. Len(artifacts) :
              /\ artifacts'[i].id = artifacts[k].id
              /\ \/ artifacts'[i].owner = artifacts[k].owner
                    /\ (speech'[artifacts[k].id].at = "queued" => speech[artifacts[k].id].at = "queued")
                 \/ artifacts'[i].owner = speech[artifacts[k].id].turn
  BY <1>4
<1> QED  BY <1>2, <1>5, <1>6, NothingPut

LEMMA BindsKeepsInv ==
    ASSUME AudioInv, NEW s \in Speeches, Binds(s)
    PROVE  AudioInv'
<1> DEFINE store == Pruned(artifacts)
           place == IF s \in Kept(store) THEN "queued" ELSE "answered"
<1>1. /\ IsStore(store) /\ InBounds(store)
      /\ \A i \in 1 .. Len(store) : \E k \in 1 .. Len(artifacts) : store[i] = artifacts[k]
  BY PrunedStore DEF AudioInv
<1>2. /\ speech[s].at = "made" /\ speech[s].turn # NoListener
      /\ artifacts' = [k \in 1 .. Len(store) |->
                          IF store[k].id = s THEN [store[k] EXCEPT !.owner = speech[s].turn] ELSE store[k]]
      /\ speech' = [speech EXCEPT ![s].at = place]
      /\ fetched' = fetched
  BY DEF Binds
<1>3. SpeechIsRight(s) /\ \A t \in Speeches : SpeechIsRight(t)
  BY DEF AudioInv
<1>4. /\ DOMAIN speech' = Speeches
      /\ \A t \in Speeches : t # s => speech'[t] = speech[t]
      /\ DOMAIN speech'[s] = {"at", "result", "turn"}
      /\ speech'[s].at = place /\ speech'[s].turn = speech[s].turn
  BY <1>2, <1>3 DEF AudioInv, SpeechIsRight
<1>5. place = "queued" => ~Heard(s)
  <2> SUFFICES ASSUME s \in Kept(store) PROVE ~Heard(s)
    OBVIOUS
  <2>1. PICK i \in 1 .. Len(store) : store[i].id = s
    BY DEF Kept
  <2>2. PICK k \in 1 .. Len(artifacts) : store[i] = artifacts[k]
    BY <1>1
  <2>3. ItemIsRight(artifacts[k]) /\ artifacts[k].id = s
    BY <2>1, <2>2 DEF AudioInv
  <2> QED  BY <2>3 DEF ItemIsRight
<1>6. place \in {"queued", "answered"}
  OBVIOUS
<1> HIDE DEF store, place
<1>7. /\ \A k \in 1 .. Len(store) : store[k] \in Items
      /\ speech[s].turn \in Owners /\ Len(store) \in Nat
  BY <1>1, <1>3, ElementOfSeq, LenProperties DEF IsStore, SpeechIsRight
<1>8. /\ artifacts' = [k \in 1 .. Len(store) |-> artifacts'[k]]
      /\ \A k \in 1 .. Len(store) :
            /\ artifacts'[k] \in Items /\ artifacts'[k].id = store[k].id /\ artifacts'[k].size = store[k].size
            /\ artifacts'[k].age = store[k].age
            /\ artifacts'[k].owner = IF store[k].id = s THEN speech[s].turn ELSE store[k].owner
  <2>1. artifacts' = [k \in 1 .. Len(store) |-> artifacts'[k]]
    BY <1>2
  <2>2. ASSUME NEW k \in 1 .. Len(store)
        PROVE  /\ artifacts'[k] \in Items /\ artifacts'[k].id = store[k].id /\ artifacts'[k].size = store[k].size
               /\ artifacts'[k].age = store[k].age
               /\ artifacts'[k].owner = IF store[k].id = s THEN speech[s].turn ELSE store[k].owner
    <3>1. store[k] \in Items
      BY <1>7
    <3>2. CASE store[k].id = s
      BY <1>2, <1>7, <3>1, <3>2 DEF Items
    <3>3. CASE store[k].id # s
      BY <1>2, <3>1, <3>3
    <3> QED  BY <3>2, <3>3
  <2> QED  BY <2>1, <2>2
<1>9. \A j, k \in 1 .. Len(store) : j < k => artifacts'[j].age >= artifacts'[k].age
  BY <1>1, <1>8 DEF IsStore
<1>10. IsStore(artifacts') /\ Len(artifacts') = Len(store) /\ InBounds(artifacts')
  BY <1>1, <1>8, <1>9, ChangedStore
<1>11. ASSUME NEW i \in 1 .. Len(artifacts')
       PROVE  \E k \in 1 .. Len(artifacts) :
              /\ artifacts'[i].id = artifacts[k].id
              /\ \/ artifacts'[i].owner = artifacts[k].owner
                    /\ (speech'[artifacts[k].id].at = "queued" => speech[artifacts[k].id].at = "queued")
                 \/ artifacts'[i].owner = speech[artifacts[k].id].turn
  <2>1. PICK k \in 1 .. Len(artifacts) : store[i] = artifacts[k]
    BY <1>1, <1>10, <1>11
  <2>2. artifacts'[i].id = artifacts[k].id /\ artifacts[k].id \in Speeches
    BY <1>7, <1>8, <1>10, <1>11, <2>1 DEF Items
  <2>3. CASE artifacts[k].id = s
    BY <1>8, <1>10, <1>11, <2>1, <2>2, <2>3
  <2>4. CASE artifacts[k].id # s
    <3>1. artifacts'[i].owner = artifacts[k].owner /\ speech'[artifacts[k].id] = speech[artifacts[k].id]
      BY <1>4, <1>8, <1>10, <1>11, <2>1, <2>2, <2>4
    <3> QED  BY <2>2, <3>1
  <2> QED  BY <2>3, <2>4
<1>12. ASSUME NEW t \in Speeches
       PROVE  /\ DOMAIN speech'[t] = {"at", "result", "turn"} /\ speech'[t].turn \in Owners
              /\ speech'[t].at \in {"idle", "synthesizing"} => speech[t].at \in {"idle", "synthesizing"}
              /\ speech'[t].at = "queued" =>
                    /\ speech'[t].turn = speech[t].turn /\ speech[t].turn # NoListener
                    /\ speech[t].at = "queued" \/ ~Heard(t)
  <2>1. CASE t = s
    BY <1>2, <1>4, <1>5, <1>6, <1>7, <2>1
  <2>2. CASE t # s
    BY <1>3, <1>4, <2>2 DEF SpeechIsRight
  <2> QED  BY <2>1, <2>2
<1> QED  BY <1>2, <1>4, <1>10, <1>11, <1>12, NothingPut

LEMMA AgeingKeepsInv ==
    ASSUME AudioInv, Tick
    PROVE  AudioInv'
<1>1. /\ artifacts' = [k \in 1 .. Len(artifacts) |->
                          [artifacts[k] EXCEPT !.age = IF @ > Lifetime THEN @ ELSE @ + 1]]
      /\ speech' = speech /\ fetched' = fetched
  BY DEF Tick
<1>2. /\ IsStore(artifacts) /\ InBounds(artifacts) /\ Len(artifacts) \in Nat
      /\ \A k \in 1 .. Len(artifacts) : artifacts[k] \in Items
  BY ElementOfSeq, LenProperties DEF AudioInv, IsStore
<1>3. \A k \in 1 .. Len(artifacts) :
         /\ artifacts'[k] \in Items /\ artifacts'[k].id = artifacts[k].id
         /\ artifacts'[k].size = artifacts[k].size /\ artifacts'[k].owner = artifacts[k].owner
         /\ artifacts[k].age \in Nat /\ artifacts[k].id \in Speeches
         /\ artifacts'[k].age = IF artifacts[k].age > Lifetime THEN artifacts[k].age ELSE artifacts[k].age + 1
  <2> TAKE k \in 1 .. Len(artifacts)
  <2>1. artifacts[k] \in Items
    BY <1>2
  <2> QED  BY <1>1, <2>1, AudioArtifactsAssumption DEF Items
<1>4. artifacts' = [k \in 1 .. Len(artifacts) |-> artifacts'[k]]
  BY <1>1
<1>5. ASSUME NEW j \in 1 .. Len(artifacts), NEW k \in 1 .. Len(artifacts), j < k
      PROVE  artifacts'[j].age >= artifacts'[k].age
  <2>1. artifacts[j].age >= artifacts[k].age
    BY <1>2, <1>5 DEF IsStore
  <2> QED  BY <1>3, <2>1, AudioArtifactsAssumption
<1>6. IsStore(artifacts') /\ InBounds(artifacts') /\ Len(artifacts') = Len(artifacts)
  BY <1>2, <1>3, <1>4, <1>5, ChangedStore
<1>7. \A t \in Speeches : SpeechIsRight(t) /\ DOMAIN speech = Speeches
  BY DEF AudioInv
<1>8. \A i \in 1 .. Len(artifacts') : \E k \in 1 .. Len(artifacts) :
              /\ artifacts'[i].id = artifacts[k].id
              /\ \/ artifacts'[i].owner = artifacts[k].owner
                    /\ (speech'[artifacts[k].id].at = "queued" => speech[artifacts[k].id].at = "queued")
                 \/ artifacts'[i].owner = speech[artifacts[k].id].turn
  BY <1>1, <1>3, <1>6
<1>9. DOMAIN speech' = Speeches
  BY <1>1 DEF AudioInv
<1> QED  BY <1>1, <1>6, <1>7, <1>8, <1>9, NothingPut DEF SpeechIsRight

LEMMA ArtifactsStepKeepsInv ==
    ASSUME AudioInv, [ArtifactsNext(VoiceConfig, Nat)]_artifactVars
    PROVE  AudioInv'
<1>0. /\ IsStore(artifacts) /\ InBounds(artifacts) /\ DOMAIN speech = Speeches
      /\ \A t \in Speeches : SpeechIsRight(t)
  BY DEF AudioInv
<1>1. ASSUME UNCHANGED <<artifacts, speech, fetched>> PROVE AudioInv'
  BY <1>1 DEF AudioInv, SpeechIsRight, ItemIsRight, FetchIsRight, Heard
<1>2. ASSUME NEW s \in Speeches, NEW config, NEW text, NEW turn \in Owners, Speaks(s, config, text, turn)
      PROVE  AudioInv'
  <2>1. /\ speech[s].at = "idle" /\ UNCHANGED <<artifacts, fetched>>
        /\ \E place \in {"made", "synthesizing"} : \E result :
              speech' = [speech EXCEPT ![s] = [at |-> place, result |-> result, turn |-> turn]]
    <3>1. CASE IsRefused(config, text)
      BY <1>2, <3>1 DEF Speaks
    <3>2. CASE ~IsRefused(config, text) /\ config.provider # "piper"
      BY <1>2, <3>2 DEF Speaks
    <3>3. CASE ~IsRefused(config, text) /\ ~(config.provider # "piper") /\ config.allowed /\ config.ready
      BY <1>2, <3>3 DEF Speaks
    <3>4. CASE ~IsRefused(config, text) /\ ~(config.provider # "piper") /\ ~(config.allowed /\ config.ready)
      BY <1>2, <3>4 DEF Speaks
    <3> QED  BY <3>1, <3>2, <3>3, <3>4
  <2>2. PICK place \in {"made", "synthesizing"} : \E result :
            speech' = [speech EXCEPT ![s] = [at |-> place, result |-> result, turn |-> turn]]
    BY <2>1
  <2>6. PICK result : speech' = [speech EXCEPT ![s] = [at |-> place, result |-> result, turn |-> turn]]
    BY <2>2
  <2>3. /\ DOMAIN speech' = Speeches /\ \A t \in Speeches : t # s => speech'[t] = speech[t]
        /\ speech'[s] = [at |-> place, result |-> result, turn |-> turn]
    BY <1>0, <2>6
  <2>4. /\ DOMAIN speech'[s] = {"at", "result", "turn"} /\ speech'[s].turn \in Owners
        /\ speech'[s].at = place
    BY <2>3
  <2>5. /\ speech'[s].at # "queued" /\ speech'[s].at # "idle"
        /\ speech'[s].at = "synthesizing" => speech[s].at = "idle"
    BY <2>1, <2>4
  <2> QED  BY <2>1, <2>3, <2>4, <2>5, SpeechMoves
<1>3. ASSUME NEW s \in Speeches, NEW size \in Nat, Synthesizes(s, size) \/ PlayerFails(s, size)
      PROVE  AudioInv'
  <2>1. /\ speech[s].at = "synthesizing" /\ Put(s, size) /\ UNCHANGED fetched
        /\ \E result : Ends(s, result)
    BY <1>3 DEF Synthesizes, PlayerFails
  <2> QED  BY <2>1, PutKeepsInv
<1>4. ASSUME NEW s \in Speeches, SynthesisFails(s) \/ SynthesisRaises(s) \/ Answers(s)
      PROVE  AudioInv'
  <2>1. /\ UNCHANGED <<artifacts, fetched>> /\ speech[s].at \in {"synthesizing", "made"}
        /\ DOMAIN speech' = Speeches /\ \A t \in Speeches : t # s => speech'[t] = speech[t]
        /\ DOMAIN speech'[s] = {"at", "result", "turn"} /\ speech'[s].turn = speech[s].turn
        /\ speech'[s].at \in {"made", "raised", "answered"}
    <3>1. DOMAIN speech[s] = {"at", "result", "turn"}
      BY <1>0 DEF SpeechIsRight
    <3>2. CASE SynthesisFails(s)
      BY <1>0, <3>1, <3>2 DEF SynthesisFails, Ends
    <3>3. CASE SynthesisRaises(s)
      BY <1>0, <3>1, <3>3 DEF SynthesisRaises
    <3>4. CASE Answers(s)
      BY <1>0, <3>1, <3>4 DEF Answers
    <3> QED  BY <1>4, <3>2, <3>3, <3>4
  <2>2. speech'[s].turn \in Owners /\ speech'[s].at \notin {"queued", "synthesizing", "idle"}
    BY <1>0, <2>1 DEF SpeechIsRight
  <2> QED  BY <2>1, <2>2, SpeechMoves
<1>5. ASSUME NEW s \in Speeches, NEW listener \in Owners, Fetches(s, listener) PROVE AudioInv'
  BY <1>5, ConsumeKeepsInv DEF Fetches
<1>6. ASSUME NEW s \in Speeches, NEW listener, FetchFails(s, listener) PROVE AudioInv'
  <2> DEFINE store == Pruned(artifacts)
  <2>1. /\ IsStore(store) /\ InBounds(store)
        /\ \A i \in 1 .. Len(store) : \E k \in 1 .. Len(artifacts) : store[i] = artifacts[k]
    BY <1>0, PrunedStore
  <2>2. artifacts' = store /\ speech' = speech /\ fetched' = fetched
    BY <1>6 DEF FetchFails
  <2>3. /\ IsStore(artifacts') /\ InBounds(artifacts')
        /\ \A i \in 1 .. Len(artifacts') : \E k \in 1 .. Len(artifacts) : artifacts'[i] = artifacts[k]
    BY <2>1, <2>2
  <2>4. \A i \in 1 .. Len(artifacts') : \E k \in 1 .. Len(artifacts) :
              /\ artifacts'[i].id = artifacts[k].id
              /\ \/ artifacts'[i].owner = artifacts[k].owner
                    /\ (speech'[artifacts[k].id].at = "queued" => speech[artifacts[k].id].at = "queued")
                 \/ artifacts'[i].owner = speech[artifacts[k].id].turn
    BY <2>2, <2>3
  <2> HIDE DEF store
  <2> QED  BY <1>0, <2>2, <2>3, <2>4, NothingPut DEF SpeechIsRight
<1> QED
  BY <1>1, <1>2, <1>3, <1>4, <1>5, <1>6, BindsKeepsInv, AgeingKeepsInv
     DEF ArtifactsNext, artifactVars, Switches, Speaking

(* The store of spoken audio keeps to its bounds, and what was queued for a session is    *)
(* heard by it alone and once: for any number of speeches and listeners, any sizes of the *)
(* audio, and whatever is evicted or expires between the synthesis and the binding.       *)
THEOREM AudioIsKeptInBoundsHolds == ArtifactsSpec => []AudioIsKeptInBounds
<1>1. ArtifactsInit => AudioInv
  <2> SUFFICES ASSUME ArtifactsInit PROVE AudioInv
    OBVIOUS
  <2>1. /\ artifacts = <<>> /\ fetched = <<>> /\ speech = [s \in Speeches |-> NoSpeech]
    BY DEF ArtifactsInit
  <2>2. IsStore(<<>>) /\ InBounds(<<>>)
    <3>1. <<>> \in Seq(Items) /\ Len(<<>>) = 0
      OBVIOUS
    <3>2. Bytes(<<>>) = 0
      <4> DEFINE f == [k \in 1 .. Len(<<>>) |-> <<>>[k].size]
      <4>1. DOMAIN f = {}
        BY <3>1
      <4>2. Bytes(<<>>) = SumFunctionOnSet(f, {})
        BY <4>1 DEF Bytes, SumFunction
      <4> HIDE DEF f
      <4>3. SumFunctionOnSet(f, {}) = 0
        BY SumStep, FS_EmptySet
      <4> QED  BY <4>2, <4>3
    <3> QED  BY <3>1, <3>2, AudioArtifactsAssumption DEF IsStore, InBounds
  <2>3. Len(fetched) = 0 /\ fetched \in Seq([id: Speeches, by: Owners])
    BY <2>1
  <2> QED
    BY <2>1, <2>2, <2>3
       DEF AudioInv, SpeechIsRight, NoSpeech, Owners, Heard
<1>2. AudioInv /\ [ArtifactsNext(VoiceConfig, Nat)]_artifactVars => AudioInv'
  BY ArtifactsStepKeepsInv
<1>3. AudioInv => AudioIsKeptInBounds
  <2> SUFFICES ASSUME AudioInv PROVE AudioIsKeptInBounds
    OBVIOUS
  <2>1. StoreKeepsItsBounds
    BY DEF AudioInv, IsStore, InBounds, StoreKeepsItsBounds
  <2>2. QueuedAudioIsItsOwn
    BY DEF AudioInv, FetchIsRight, QueuedAudioIsItsOwn
  <2> QED  BY <2>1, <2>2 DEF AudioIsKeptInBounds
<1> QED  BY <1>1, <1>2, <1>3, PTL DEF ArtifactsSpec

=============================================================================
