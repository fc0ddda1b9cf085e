--------------------------- MODULE GovernedActions ---------------------------
(***************************************************************************)
(* Governed proposals and tool plans (src/metis_head/brain.py, reducer.py, *)
(* proposals.py, execution.py, tool_plan_runner.py, tool_task_planner.py). *)
(*                                                                         *)
(* The whole governed state is one dictionary, brain.STATE.  A handler     *)
(* never changes it in place: it evaluates                                 *)
(* STATE = reduce_metis_event(STATE, event), which copies the dictionary   *)
(* it is given, applies the event to the copy and returns it.  Handlers    *)
(* run on pool threads and hold no lock, so a request                      *)
(*     - checks its preconditions in STATE and builds an event  (Begin),   *)
(*     - passes the STATE of some later moment to the reducer   (Read),    *)
(*     - stores the reduced copy over the STATE of then         (Store),   *)
(*     - and, in the requests that run through the steps of a plan, takes  *)
(*       the last proposal or receipt of the STATE it finds for the one it *)
(*       has just made                                          (Collect). *)
(* Everything another request stored between Read and Store is undone.     *)
(*                                                                         *)
(* Events of the rest of the program (chat, voice, buttons, health) leave  *)
(* this part of STATE alone, but store a copy of it like any other.        *)
(*                                                                         *)
(* A summary in a plan summarizes what the plan reads first, so its text   *)
(* is a placeholder until a result is bound to it.                         *)
(*                                                                         *)
(* Left out: steps without a tool (the handlers skip them), the counters   *)
(* and lamps derived from the queues, and events of this part handed to    *)
(* POST /metis/event or /metis/replay instead of to their own routes.      *)
(***************************************************************************)
EXTENDS Integers, FiniteSets, SequencesExt

CONSTANTS
    Clients,        \* who sends requests, each one at a time
    Plans,          \* the ids of the plans a task may be turned into
    NoPlan,         \* the plan of a proposal that belongs to none
    PlanTools,      \* the tools of a plan's steps, in order
    ProposalLimit,  \* bound: no proposal is asked for once the queue has this many
    ReceiptLimit,   \* bound: no execution is asked for once the log has this many
    PlanLimit,      \* bound: no plan is asked for once the queue has this many
    RequestTools,   \* bound: the tools that proposals outside plans ask for
    OverlapLimit,   \* bound: how many requests begin while another is under way
    PlanOverlapLimit    \* bound: the same, once there is a plan

\* One tool of each lane: executed on approval, dry run only, blocked for good.
Tools == {"filesystem.read", "text.summarize", "boh.retrieve_proposed"}

ASSUME PlansAssumption ==
    /\ NoPlan \notin Plans
    /\ PlanTools \in [Plans -> Seq(Tools)]

ASSUME BoundsAssumption ==
    /\ {ProposalLimit, ReceiptLimit, PlanLimit, OverlapLimit, PlanOverlapLimit} \subseteq Nat
    /\ RequestTools \subseteq Tools

\* _candidate_steps plans reads first, then the summary of what was read, and
\* what can merely be proposed last (tool_task_planner.py:64-81).
ASSUME SummariesFollowReads ==
    \A p \in Plans : \A k \in DOMAIN PlanTools[p] :
        PlanTools[p][k] = "text.summarize" =>
            \A j \in 1..(k - 1) : PlanTools[p][j] # "boh.retrieve_proposed"

VARIABLES
    state,      \* brain.STATE: the approval queue, the plans, the execution log
    pc,         \* where each client's request is
    event,      \* the event each client's request is applying
    base,       \* the STATE each client's request gave to the reducer
    work,       \* what a request that runs through a plan has done so far
    overlaps    \* how many requests began while another was under way

vars == <<state, pc, event, base, work, overlaps>>

-----------------------------------------------------------------------------
\* What is stored.

Reviews == {"pending", "approved", "denied"}

\* proposal_<index>_<hash of index, class and intent>.  The intent of a plan's
\* step names the plan and the step; any other is the caller's words, taken to
\* be the same for all.  The tool and its arguments are not hashed.
ProposalId == [index: Nat, plan: Plans \cup {NoPlan}, step: Nat,
               class: {"observe", "modify_local", "none"}]

NoProposal == [index |-> 0, plan |-> NoPlan, step |-> 0, class |-> "none"]

Proposal == [id: ProposalId, tool: Tools, review: Reviews, bound: BOOLEAN]

Statuses == {"blocked_unreviewed", "blocked_denied", "executed_read_only",
             "dry_run_only_not_executed", "blocked_side_effect"}

\* execution_<index>_<hash of index, proposal and status>: requests of the same second.
Receipt == [index: Nat, proposal: ProposalId, status: Statuses \cup {"none"}]

NoReceipt == [index |-> 0, proposal |-> NoProposal, status |-> "none"]

Step == [tool: Tools, proposal: ProposalId, receipt: Receipt, bound: BOOLEAN]

Plan == [plan: Plans, review: Reviews, steps: Seq(Step)]

State == [queue: Seq(Proposal), plans: Seq(Plan), audit: Seq(Receipt)]

Baseline == [queue |-> <<>>, plans |-> <<>>, audit |-> <<>>]

Done == [step: Nat, proposal: ProposalId, receipt: Receipt]

Event ==
    [type: {"other"}]
    \cup [type: {"user_intent"}, tool: Tools, plan: Plans \cup {NoPlan}, step: Nat]
    \cup [type: {"proposal_review"}, id: ProposalId, decision: Reviews]
    \cup [type: {"execution_request"}, id: ProposalId, result: BOOLEAN]
    \cup [type: {"tool_plan"}, plan: Plans]
    \cup [type: {"tool_plan_review"}, plan: Plans, decision: Reviews]
    \cup [type: {"tool_plan_step_queue", "tool_plan_execution_request"},
          plan: Plans, done: Seq(Done)]
    \cup [type: {"tool_plan_result_binding"}, plan: Plans, ids: SUBSET ProposalId]

Work == [job: {"single", "queue_steps", "request_execution"},
         plan: Plans \cup {NoPlan}, steps: Seq(Step), at: Nat, done: Seq(Done)]

NoEvent == [type |-> "other"]

Single == [job |-> "single", plan |-> NoPlan, steps |-> <<>>, at |-> 0, done |-> <<>>]

-----------------------------------------------------------------------------
\* Looking things up.

\* Ids hold their place in the queue, so no other place can hold them.
HasProposal(s, id) == id.index \in DOMAIN s.queue /\ s.queue[id.index].id = id

ProposalOf(s, id) == s.queue[id.index]

HasReview(s, id, review) == HasProposal(s, id) /\ ProposalOf(s, id).review = review

\* The place of the first plan with this id; 0 when there is none.
PlanIndex(s, p) ==
    LET first == {i \in DOMAIN s.plans : /\ s.plans[i].plan = p
                                         /\ \A j \in 1..(i - 1) : s.plans[j].plan # p}
    IN  IF first = {} THEN 0 ELSE CHOOSE i \in first : TRUE

HasPlan(s, p, review) == PlanIndex(s, p) # 0 /\ s.plans[PlanIndex(s, p)].review = review

StepsOf(s, p) == s.plans[PlanIndex(s, p)].steps

ActionClass(tool) == IF tool = "text.summarize" THEN "observe" ELSE "modify_local"

Useful == {"executed_read_only", "dry_run_only_not_executed"}

-----------------------------------------------------------------------------
\* The reducer: each operator is the state that one kind of event makes of s.

ReduceIntent(s, e) ==
    [s EXCEPT !.queue = Append(@,
        [id |-> [index |-> Len(s.queue) + 1, plan |-> e.plan, step |-> e.step,
                 class |-> ActionClass(e.tool)],
         tool |-> e.tool, review |-> "pending", bound |-> FALSE])]

\* Faulty variant: the review is stored as the proposal's status is.
ReduceProposalReviewMislabelled(s, e) ==
    IF HasReview(s, e.id, "pending")
    THEN [s EXCEPT !.queue[e.id.index].review = "reviewed"]
    ELSE s

ReduceProposalReview(s, e) ==
    IF HasReview(s, e.id, "pending")
    THEN [s EXCEPT !.queue[e.id.index].review = e.decision]
    ELSE s

\* Faulty variant: a tool's result decides before the review does.
ExecutionStatusTrustsResult(proposal, result) ==
    CASE proposal.tool = "filesystem.read" /\ result -> "executed_read_only"
      [] proposal.review = "denied" -> "blocked_denied"
      [] OTHER -> "blocked_unreviewed"

\* build_execution_receipt: the review of the proposal decides first.
ExecutionStatus(proposal, result) ==
    CASE proposal.review = "pending" -> "blocked_unreviewed"
      [] proposal.review = "denied" -> "blocked_denied"
      [] proposal.review = "approved" ->
            IF proposal.tool = "filesystem.read" /\ result THEN "executed_read_only"
            ELSE IF proposal.tool = "text.summarize" THEN "dry_run_only_not_executed"
            ELSE "blocked_side_effect"

ReduceExecutionRequest(s, e) ==
    IF HasProposal(s, e.id)
    THEN [s EXCEPT !.audit = Append(@,
            [index |-> Len(s.audit) + 1, proposal |-> e.id,
             status |-> ExecutionStatus(ProposalOf(s, e.id), e.result)])]
    ELSE s

NewStep(tool) == [tool |-> tool, proposal |-> NoProposal, receipt |-> NoReceipt, bound |-> FALSE]

ReduceToolPlan(s, e) ==
    [s EXCEPT !.plans = Append(@,
        [plan |-> e.plan, review |-> "pending",
         steps |-> [k \in DOMAIN PlanTools[e.plan] |-> NewStep(PlanTools[e.plan][k])]])]

ReduceToolPlanReview(s, e) ==
    IF HasPlan(s, e.plan, "pending")
    THEN [s EXCEPT !.plans[PlanIndex(s, e.plan)].review = e.decision]
    ELSE s

\* The last of the entries at these places, or otherwise none.
LastDone(done, places, none) ==
    LET last == {i \in places : \A j \in places : j <= i}
    IN  IF last = {} THEN none ELSE done[CHOOSE i \in last : TRUE]

WithSteps(s, p, steps) == [s EXCEPT !.plans[PlanIndex(s, p)].steps = steps]

ReduceStepQueue(s, e) ==
    LET steps == StepsOf(s, e.plan)
        queued(k) == LastDone(e.done, {i \in DOMAIN e.done : e.done[i].step = k}, steps[k])
    IN  IF HasPlan(s, e.plan, "approved")
        THEN WithSteps(s, e.plan,
                [k \in DOMAIN steps |-> [steps[k] EXCEPT !.proposal = queued(k).proposal]])
        ELSE s

ReducePlanExecution(s, e) ==
    LET steps == StepsOf(s, e.plan)
        executed(k) == LastDone(e.done,
            {i \in DOMAIN e.done : e.done[i].proposal = steps[k].proposal}, steps[k])
    IN  IF HasPlan(s, e.plan, "approved")
        THEN WithSteps(s, e.plan,
                [k \in DOMAIN steps |-> [steps[k] EXCEPT !.receipt = executed(k).receipt]])
        ELSE s

\* Only proposals still pending are rewritten; the plan's own review is not asked for.
ReduceResultBinding(s, e) ==
    LET steps == StepsOf(s, e.plan)
        ids == {id \in e.ids : HasReview(s, id, "pending")}
        bound == [k \in DOMAIN steps |-> [steps[k] EXCEPT !.bound = @ \/ steps[k].proposal \in ids]]
        queue == [j \in DOMAIN s.queue |->
                    [s.queue[j] EXCEPT !.bound = @ \/ s.queue[j].id \in ids]]
    IN  IF PlanIndex(s, e.plan) # 0
        THEN [WithSteps(s, e.plan, bound) EXCEPT !.queue = queue]
        ELSE s

Reduce(s, e) ==
    CASE e.type = "user_intent" -> ReduceIntent(s, e)
      [] e.type = "proposal_review" -> ReduceProposalReview(s, e)
      [] e.type = "execution_request" -> ReduceExecutionRequest(s, e)
      [] e.type = "tool_plan" -> ReduceToolPlan(s, e)
      [] e.type = "tool_plan_review" -> ReduceToolPlanReview(s, e)
      [] e.type = "tool_plan_step_queue" -> ReduceStepQueue(s, e)
      [] e.type = "tool_plan_execution_request" -> ReducePlanExecution(s, e)
      [] e.type = "tool_plan_result_binding" -> ReduceResultBinding(s, e)
      [] e.type = "other" -> s

-----------------------------------------------------------------------------
\* What the handlers work out from STATE.

\* The steps after the at-th that have no proposal yet.
ToQueue(steps, at) == {k \in DOMAIN steps : k > at /\ steps[k].proposal = NoProposal}

\* Faulty variant: the proposal need not be approved.
ToExecuteUnreviewed(s, steps, at) ==
    {k \in DOMAIN steps : /\ k > at
                          /\ steps[k].receipt = NoReceipt
                          /\ HasProposal(s, steps[k].proposal)}

\* The steps after the at-th that execution may be requested for: the plan's
\* record as it was when the request began, the proposals as they are in s.
ToExecute(s, steps, at) ==
    {k \in DOMAIN steps : /\ k > at
                          /\ steps[k].receipt = NoReceipt
                          /\ HasReview(s, steps[k].proposal, "approved")}

\* _receipt_for_step: the receipt the step names, or else the last of its proposal.
HasUsefulReceipt(s, step) ==
    IF step.receipt # NoReceipt
    THEN step.receipt \in Range(s.audit) /\ step.receipt.status \in Useful
    ELSE LET own == {i \in DOMAIN s.audit : s.audit[i].proposal = step.proposal}
         IN  LastDone(s.audit, own, NoReceipt).status \in Useful

\* The proposals of the summary steps that can take in an earlier step's result.
Bindable(s, steps) ==
    {steps[k].proposal : k \in
        {k \in DOMAIN steps : /\ steps[k].tool = "text.summarize"
                              /\ HasReview(s, steps[k].proposal, "pending")
                              /\ \E j \in 1..k : HasUsefulReceipt(s, steps[j])}}

\* next_plan_action: what the guided advance of a plan does next, or waits for.
NextPlanAction(s, p) ==
    LET steps == StepsOf(s, p)
        ReviewOf(review) == {k \in DOMAIN steps : HasReview(s, steps[k].proposal, review)}
        unbound(k) == steps[k].tool = "text.summarize" /\ ~steps[k].bound
    IN  CASE HasPlan(s, p, "pending") -> "needs_plan_review"
          [] HasPlan(s, p, "denied") -> "plan_denied"
          [] OTHER ->
             IF ToQueue(steps, 0) # {} THEN "can_queue_step_proposals"
             ELSE IF \E k \in ReviewOf("pending") :
                        unbound(k) /\ \E j \in 1..(k - 1) : steps[j].receipt # NoReceipt
                  THEN "can_bind_results"
             ELSE IF \E k \in ReviewOf("pending") : ~unbound(k) THEN "needs_step_proposal_review"
             ELSE IF \E k \in ReviewOf("approved") : steps[k].receipt = NoReceipt
                  THEN "can_request_step_execution"
             ELSE IF ReviewOf("denied") # {} THEN "blocked_by_denied_step"
             ELSE "complete_for_current_scope"

-----------------------------------------------------------------------------
\* The requests.

Init ==
    /\ state = Baseline
    /\ pc = [c \in Clients |-> "idle"]
    /\ event = [c \in Clients |-> NoEvent]
    /\ base = [c \in Clients |-> Baseline]
    /\ work = [c \in Clients |-> Single]
    /\ overlaps = 0

\* A request of c begins, alone or while others are under way.
Arrives(c) ==
    /\ pc[c] = "idle"
    /\ \/ /\ \A d \in Clients : pc[d] = "idle"
          /\ UNCHANGED overlaps
       \/ /\ \E d \in Clients : pc[d] # "idle"
          /\ overlaps < IF state.plans = <<>> THEN OverlapLimit ELSE PlanOverlapLimit
          /\ overlaps' = overlaps + 1

\* The request's checks have passed and its event is built.
Begin(c, e, w) ==
    /\ Arrives(c)
    /\ pc' = [pc EXCEPT ![c] = "begun"]
    /\ event' = [event EXCEPT ![c] = e]
    /\ work' = [work EXCEPT ![c] = w]
    /\ UNCHANGED <<state, base>>

\* Any event of the program that leaves proposals, plans and receipts alone.
OtherEvent(c) == Begin(c, NoEvent, Single)

\* POST tools/propose, the routes and chat requests that end in a proposal.
Propose(c) ==
    /\ Len(state.queue) < ProposalLimit
    /\ \E tool \in RequestTools :
          Begin(c, [type |-> "user_intent", tool |-> tool, plan |-> NoPlan, step |-> 0], Single)

\* POST proposals/{id}/approve and deny.
ReviewProposal(c) ==
    \E i \in DOMAIN state.queue, decision \in {"approved", "denied"} :
        /\ state.queue[i].review = "pending"
        /\ Begin(c, [type |-> "proposal_review", id |-> state.queue[i].id,
                     decision |-> decision], Single)

\* The read-only tools run here, before the reducer looks at the proposal again.
ExecutionRequest(proposal) ==
    [type |-> "execution_request", id |-> proposal.id,
     result |-> proposal.review = "approved" /\ proposal.tool = "filesystem.read"]

\* POST proposals/{id}/request_execution, reviewed or not.
RequestExecution(c) ==
    /\ Len(state.audit) < ReceiptLimit
    /\ \E i \in DOMAIN state.queue : Begin(c, ExecutionRequest(state.queue[i]), Single)

\* POST tools/task/plan, and the chat request that does the same.
CreatePlan(c) ==
    /\ Len(state.plans) < PlanLimit
    /\ \E p \in Plans :
          /\ PlanIndex(state, p) = 0
          /\ Begin(c, [type |-> "tool_plan", plan |-> p], Single)

\* POST tools/plans/{id}/approve and deny.
ReviewPlan(c) ==
    \E p \in Plans, decision \in {"approved", "denied"} :
        /\ HasPlan(state, p, "pending")
        /\ Begin(c, [type |-> "tool_plan_review", plan |-> p, decision |-> decision], Single)

IsFirst(k, steps) == k \in steps /\ \A j \in steps : k <= j

StepIntent(p, steps, k) ==
    [type |-> "user_intent", tool |-> steps[k].tool, plan |-> p, step |-> k]

\* POST tools/plans/{id}/queue_steps: one proposal after the other, then the record.
\* The guided advance (POST tools/plans/{id}/advance) calls this handler or one of the next two.
QueueSteps(c) ==
    \E p \in Plans :
        LET steps == StepsOf(state, p)
            next  == ToQueue(steps, 0)
        IN  /\ HasPlan(state, p, "approved")
            /\ Len(state.queue) + Cardinality(next) <= ProposalLimit
            /\ \E k \in next :
                  /\ IsFirst(k, next)
                  /\ Begin(c, StepIntent(p, steps, k),
                           [job |-> "queue_steps", plan |-> p, steps |-> steps,
                            at |-> k, done |-> <<>>])

\* POST tools/plans/{id}/request_execution: one receipt after the other, then the record.
ExecuteSteps(c) ==
    \E p \in Plans :
        LET steps == StepsOf(state, p)
            next  == ToExecute(state, steps, 0)
        IN  /\ HasPlan(state, p, "approved")
            /\ Len(state.audit) + Cardinality(next) <= ReceiptLimit
            /\ \E k \in next :
                  /\ IsFirst(k, next)
                  /\ Begin(c, ExecutionRequest(ProposalOf(state, steps[k].proposal)),
                           [job |-> "request_execution", plan |-> p, steps |-> steps,
                            at |-> k, done |-> <<>>])

\* POST tools/plans/{id}/bind_results.
BindResults(c) ==
    \E p \in Plans :
        /\ HasPlan(state, p, "approved")
        /\ Bindable(state, StepsOf(state, p)) # {}
        /\ Begin(c, [type |-> "tool_plan_result_binding", plan |-> p,
                     ids |-> Bindable(state, StepsOf(state, p))], Single)

\* The argument of reduce_metis_event is evaluated: the STATE of this moment.
Read(c) ==
    /\ pc[c] = "begun"
    /\ pc' = [pc EXCEPT ![c] = "read"]
    /\ base' = [base EXCEPT ![c] = state]
    /\ UNCHANGED <<state, event, work, overlaps>>

Finish(c) ==
    /\ pc' = [pc EXCEPT ![c] = "idle"]
    /\ event' = [event EXCEPT ![c] = NoEvent]
    /\ work' = [work EXCEPT ![c] = Single]

\* The reduced copy replaces whatever STATE has become.
Store(c) ==
    /\ pc[c] = "read"
    /\ state' = Reduce(base[c], event[c])
    /\ base' = [base EXCEPT ![c] = Baseline]
    /\ \/ work[c].job = "single" /\ Finish(c)
       \/ /\ work[c].job # "single"
          /\ pc' = [pc EXCEPT ![c] = "stored"]
          /\ UNCHANGED <<event, work>>
    /\ UNCHANGED overlaps

\* The request goes on with another event.
Continue(c, e, w) ==
    /\ pc' = [pc EXCEPT ![c] = "begun"]
    /\ event' = [event EXCEPT ![c] = e]
    /\ work' = [work EXCEPT ![c] = w]
    /\ UNCHANGED <<state, base, overlaps>>

\* The plan's own record of what was done, as the last event of the request.
Record(c, type, done) ==
    Continue(c, [type |-> type, plan |-> work[c].plan, done |-> done], Single)

\* _queue_tool_proposal returns the last proposal of STATE as the one it queued.
CollectProposal(c) ==
    LET w    == work[c]
        id   == IF state.queue = <<>> THEN NoProposal ELSE Last(state.queue).id
        done == Append(w.done, [step |-> w.at, proposal |-> id, receipt |-> NoReceipt])
        next == ToQueue(w.steps, w.at)
    IN  /\ pc[c] = "stored"
        /\ w.job = "queue_steps"
        /\ \/ next = {} /\ Record(c, "tool_plan_step_queue", done)
           \/ \E k \in next :
                 /\ IsFirst(k, next)
                 /\ Continue(c, StepIntent(w.plan, w.steps, k), [w EXCEPT !.at = k, !.done = done])

\* The last receipt of STATE is taken for the one of the step just requested.
CollectReceipt(c) ==
    LET w    == work[c]
        done == Append(w.done, [step |-> w.at, proposal |-> w.steps[w.at].proposal,
                                receipt |-> Last(state.audit)])
        next == ToExecute(state, w.steps, w.at)
    IN  /\ pc[c] = "stored"
        /\ w.job = "request_execution"
        /\ state.audit # <<>>
        /\ \/ next = {} /\ Record(c, "tool_plan_execution_request", done)
           \/ \E k \in next :
                 /\ IsFirst(k, next)
                 /\ Continue(c, ExecutionRequest(ProposalOf(state, w.steps[k].proposal)),
                             [w EXCEPT !.at = k, !.done = done])

\* The request fails between two steps: the log it looks into is empty, or the
\* next step's file cannot be read.  What it stored stays; the plan is not told.
ExecutionFails(c) ==
    LET w    == work[c]
        next == ToExecute(state, w.steps, w.at)
    IN  /\ pc[c] = "stored"
        /\ w.job = "request_execution"
        /\ \/ state.audit = <<>>
           \/ \E k \in next : /\ IsFirst(k, next)
                               /\ ProposalOf(state, w.steps[k].proposal).tool = "filesystem.read"
        /\ Finish(c)
        /\ UNCHANGED <<state, base, overlaps>>

\* POST state/reset.  Requests under way still hold what they have read.
Reset(c) ==
    /\ Arrives(c)
    /\ state' = Baseline
    /\ UNCHANGED <<pc, event, base, work>>

Next ==
    \E c \in Clients :
        \/ OtherEvent(c) \/ Propose(c) \/ ReviewProposal(c) \/ RequestExecution(c)
        \/ CreatePlan(c) \/ ReviewPlan(c) \/ QueueSteps(c) \/ ExecuteSteps(c) \/ BindResults(c)
        \/ Read(c) \/ Store(c) \/ CollectProposal(c) \/ CollectReceipt(c) \/ ExecutionFails(c)
        \/ Reset(c)

Spec == Init /\ [][Next]_vars

-----------------------------------------------------------------------------
\* Properties.

\* Every variable has its type.
TypeOK ==
    /\ state \in State
    /\ pc \in [Clients -> {"idle", "begun", "read", "stored"}]
    /\ event \in [Clients -> Event]
    /\ base \in [Clients -> State]
    /\ work \in [Clients -> Work]
    /\ overlaps \in Nat

\* What a receipt says of its proposal: a result only of an approved proposal of
\* a tool of that lane, a refusal only of a denied one.
ReceiptIsTrue(s, r) ==
    LET HasTool(tool) == ProposalOf(s, r.proposal).tool = tool
    IN  /\ r.status = "executed_read_only" =>
              HasReview(s, r.proposal, "approved") /\ HasTool("filesystem.read")
        /\ r.status = "dry_run_only_not_executed" =>
              HasReview(s, r.proposal, "approved") /\ HasTool("text.summarize")
        /\ r.status = "blocked_denied" => HasReview(s, r.proposal, "denied")

\* However requests overlap, and although the tool ran before the reducer looked
\* at the proposal again, no receipt in STATE shows a result that the proposal's
\* review in the same STATE does not allow (execution.py:18-45).
NoResultWithoutApproval == \A r \in Range(state.audit) : ReceiptIsTrue(state, r)

\* A step's proposal was made for that step of an approved plan, its receipt is
\* the receipt of that proposal, approved, and its arguments come from a result.
StepRecordIsTrue(s, plan, k) ==
    LET step == plan.steps[k]
    IN  /\ step.proposal # NoProposal =>
              /\ plan.review = "approved"
              /\ HasProposal(s, step.proposal)
              /\ step.proposal.plan = plan.plan /\ step.proposal.step = k
        /\ step.receipt # NoReceipt =>
              /\ step.receipt \in Range(s.audit)
              /\ step.receipt.proposal = step.proposal
              /\ HasReview(s, step.proposal, "approved")
        /\ step.bound => \E j \in 1..(k - 1) : HasUsefulReceipt(s, plan.steps[j])

NoStepQueuedTwice(s) ==
    \A i, j \in DOMAIN s.queue :
        LET a == s.queue[i].id  b == s.queue[j].id
        IN  a.plan # NoPlan /\ a.plan = b.plan /\ a.step = b.step => i = j

\* The guided advance never names a move that would then do nothing.
AdvanceHelps(s, p) ==
    NextPlanAction(s, p) = "can_bind_results" => Bindable(s, StepsOf(s, p)) # {}

\* As long as no two requests are under way at the same time, a plan's record
\* holds its own proposals and receipts, no step is queued twice, and the guided
\* advance is never stuck (brain.py:1248-1345, tool_plan_runner.py:9-65).
SerialRequestsKeepPlansWhole ==
    overlaps = 0 =>
        /\ \A i \in DOMAIN state.plans : \A k \in DOMAIN state.plans[i].steps :
              StepRecordIsTrue(state, state.plans[i], k)
        /\ NoStepQueuedTwice(state)
        /\ \A p \in Plans : PlanIndex(state, p) # 0 => AdvanceHelps(state, p)

\* A proposal once approved or denied is never pending or decided otherwise
\* again, unless the whole state is reset (brain.py:1484-1486 answers 409).
ReviewIsFinal ==
    [][state' # Baseline =>
        \A i \in DOMAIN state.queue :
            state.queue[i].review # "pending" =>
                HasReview(state', state.queue[i].id, state.queue[i].review)]_vars

\* STATE and the requests are of their types, and every receipt agrees with the
\* review of its proposal.
ReceiptsAreSound == TypeOK /\ NoResultWithoutApproval
=============================================================================
