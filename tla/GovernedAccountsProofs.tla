----------------------- MODULE GovernedAccountsProofs ------------------------
(***************************************************************************)
(* Proofs about what is governed by a review and about the accounts it is  *)
(* done with.                                                              *)
(***************************************************************************)
EXTENDS GovernedActions, Accounts, SequenceLemmas, FiniteSetTheorems, TLAPS

(***************************************************************************)
(* Governed actions.  Nothing can be said of STATE alone: a request may    *)
(* replace it by a copy reduced from an earlier one, and so undo what      *)
(* others did.  But whatever is undone is undone together, the decision    *)
(* and the receipts that rest on it, because they are in the same          *)
(* dictionary.  The invariant says that receipts are true of the reviews   *)
(* beside them in STATE and in every copy a request holds, and the reducer *)
(* keeps that of any copy.                                                 *)
(***************************************************************************)

-----------------------------------------------------------------------------
\* What the events carry.

\* The fields of an event are those of its type.
LEMMA EventFields ==
    ASSUME NEW e \in Event
    PROVE  /\ e.type = "user_intent" =>
                  e.tool \in Tools /\ e.plan \in Plans \cup {NoPlan} /\ e.step \in Nat
           /\ e.type = "proposal_review" => e.id \in ProposalId /\ e.decision \in Reviews
           /\ e.type = "execution_request" => e.id \in ProposalId /\ e.result \in BOOLEAN
           /\ e.type = "tool_plan" => e.plan \in Plans
           /\ e.type = "tool_plan_review" => e.plan \in Plans /\ e.decision \in Reviews
           /\ e.type = "tool_plan_step_queue" => e.plan \in Plans /\ e.done \in Seq(Done)
           /\ e.type = "tool_plan_execution_request" => e.plan \in Plans /\ e.done \in Seq(Done)
           /\ e.type = "tool_plan_result_binding" => e.plan \in Plans /\ e.ids \in SUBSET ProposalId
           /\ e.type \in {"other", "user_intent", "proposal_review", "execution_request",
                          "tool_plan", "tool_plan_review", "tool_plan_step_queue",
                          "tool_plan_execution_request", "tool_plan_result_binding"}
BY DEF Event

\* The empty state, the empty event and the empty work are well formed.
LEMMA Blanks ==
    /\ Baseline \in State
    /\ NoEvent \in Event
    /\ Single \in Work
    /\ NoProposal \in ProposalId
    /\ NoReceipt \in Receipt
BY DEF Baseline, State, NoEvent, Event, Single, Work, NoProposal, ProposalId, NoReceipt, Receipt

-----------------------------------------------------------------------------
\* Lookups.

\* A state is made of its three sequences.
LEMMA StateParts ==
    ASSUME NEW s \in State
    PROVE  /\ s.queue \in Seq(Proposal) /\ s.plans \in Seq(Plan) /\ s.audit \in Seq(Receipt)
           /\ s = [queue |-> s.queue, plans |-> s.plans, audit |-> s.audit]
BY DEF State

\* A plan that is found is at its place.
LEMMA PlanIndexIsPlace ==
    ASSUME NEW s \in State, NEW p \in Plans, PlanIndex(s, p) # 0
    PROVE  /\ PlanIndex(s, p) \in DOMAIN s.plans
           /\ s.plans[PlanIndex(s, p)].plan = p
BY DEF PlanIndex

\* The steps of a plan that is found are steps.
LEMMA StepsOfPlan ==
    ASSUME NEW s \in State, NEW p \in Plans, PlanIndex(s, p) # 0
    PROVE  StepsOf(s, p) \in Seq(Step)
<1>1. s.plans[PlanIndex(s, p)] \in Plan
  BY PlanIndexIsPlace, StateParts
<1> QED
  BY <1>1 DEF StepsOf, Plan

-----------------------------------------------------------------------------
\* The reducer keeps the types.

\* A proposal is added behind the others.
LEMMA IntentType ==
    ASSUME NEW s \in State, NEW e \in Event, e.type = "user_intent"
    PROVE  ReduceIntent(s, e) \in State
<1> DEFINE new == [id |-> [index |-> Len(s.queue) + 1, plan |-> e.plan, step |-> e.step,
                           class |-> ActionClass(e.tool)],
                   tool |-> e.tool, review |-> "pending", bound |-> FALSE]
<1>1. new \in Proposal
  BY EventFields, StateParts DEF Proposal, ProposalId, ActionClass, Reviews
<1>2. Append(s.queue, new) \in Seq(Proposal)
  BY <1>1, StateParts
<1>3. ReduceIntent(s, e) = [s EXCEPT !.queue = Append(s.queue, new)]
  BY DEF ReduceIntent
<1> HIDE DEF new
<1> QED
  BY <1>2, <1>3 DEF State

\* A review rewrites one proposal.
LEMMA ProposalReviewType ==
    ASSUME NEW s \in State, NEW e \in Event, e.type = "proposal_review"
    PROVE  ReduceProposalReview(s, e) \in State
<1>1. CASE HasReview(s, e.id, "pending")
  <2> DEFINE reviewed == [s.queue[e.id.index] EXCEPT !.review = e.decision]
  <2>1. e.id.index \in DOMAIN s.queue /\ s.queue[e.id.index] \in Proposal
    BY <1>1, StateParts DEF HasReview, HasProposal
  <2>2. reviewed \in Proposal
    BY <2>1, EventFields DEF Proposal
  <2>3. [s.queue EXCEPT ![e.id.index] = reviewed] \in Seq(Proposal)
    BY <2>1, <2>2, StateParts
  <2>4. ReduceProposalReview(s, e)
           = [s EXCEPT !.queue = [s.queue EXCEPT ![e.id.index] = reviewed]]
    BY <1>1 DEF ReduceProposalReview
  <2> HIDE DEF reviewed
  <2> QED
    BY <2>3, <2>4 DEF State
<1>2. CASE ~HasReview(s, e.id, "pending")
  BY <1>2 DEF ReduceProposalReview
<1> QED
  BY <1>1, <1>2

\* Whatever the review, the receipt's status is one of the five.
LEMMA ExecutionStatusType ==
    ASSUME NEW proposal \in Proposal, NEW result \in BOOLEAN
    PROVE  ExecutionStatus(proposal, result) \in Statuses
BY DEF ExecutionStatus, Proposal, Reviews, Statuses

\* A receipt is added behind the others.
LEMMA ExecutionRequestType ==
    ASSUME NEW s \in State, NEW e \in Event, e.type = "execution_request"
    PROVE  ReduceExecutionRequest(s, e) \in State
<1>1. CASE HasProposal(s, e.id)
  <2> DEFINE status == ExecutionStatus(ProposalOf(s, e.id), e.result)
             new == [index |-> Len(s.audit) + 1, proposal |-> e.id, status |-> status]
  <2>1. ProposalOf(s, e.id) \in Proposal
    BY <1>1, StateParts DEF HasProposal, ProposalOf
  <2>2. status \in Statuses
    BY <2>1, ExecutionStatusType, EventFields
  <2> HIDE DEF status
  <2>3. new \in Receipt
    BY <2>2, EventFields, StateParts DEF Receipt
  <2>4. Append(s.audit, new) \in Seq(Receipt)
    BY <2>3, StateParts
  <2>5. ReduceExecutionRequest(s, e) = [s EXCEPT !.audit = Append(s.audit, new)]
    BY <1>1 DEF ReduceExecutionRequest, status
  <2> HIDE DEF new
  <2> QED
    BY <2>4, <2>5 DEF State
<1>2. CASE ~HasProposal(s, e.id)
  BY <1>2 DEF ReduceExecutionRequest
<1> QED
  BY <1>1, <1>2

\* A plan is added behind the others, with one new step per tool.
LEMMA ToolPlanType ==
    ASSUME NEW s \in State, NEW e \in Event, e.type = "tool_plan"
    PROVE  ReduceToolPlan(s, e) \in State
<1> DEFINE tools == PlanTools[e.plan]
           steps == [k \in DOMAIN tools |-> NewStep(tools[k])]
           new == [plan |-> e.plan, review |-> "pending", steps |-> steps]
<1>1. e.plan \in Plans
  BY EventFields
<1>2. tools \in Seq(Tools)
  BY <1>1, PlansAssumption
<1> HIDE DEF tools
<1>3. \A tool \in Tools : NewStep(tool) \in Step
  BY Blanks DEF NewStep, Step
<1>4. DOMAIN tools = 1..Len(tools) /\ Len(tools) \in Nat /\ \A k \in DOMAIN tools : tools[k] \in Tools
  BY <1>2
<1>5. steps \in [1..Len(tools) -> Step]
  BY <1>3, <1>4
<1>6. steps \in Seq(Step)
  BY <1>4, <1>5
<1> HIDE DEF steps
<1>7. new \in Plan
  BY <1>1, <1>6 DEF Plan, Reviews
<1>8. Append(s.plans, new) \in Seq(Plan)
  BY <1>7, StateParts
<1>9. ReduceToolPlan(s, e) = [s EXCEPT !.plans = Append(s.plans, new)]
  BY DEF ReduceToolPlan, steps, tools
<1> HIDE DEF new
<1> QED
  BY <1>8, <1>9 DEF State

\* The review of a plan rewrites one plan.
LEMMA ToolPlanReviewType ==
    ASSUME NEW s \in State, NEW e \in Event, e.type = "tool_plan_review"
    PROVE  ReduceToolPlanReview(s, e) \in State
<1>1. CASE HasPlan(s, e.plan, "pending")
  <2> DEFINE i == PlanIndex(s, e.plan)
             reviewed == [s.plans[i] EXCEPT !.review = e.decision]
  <2>1. e.plan \in Plans /\ e.decision \in Reviews
    BY EventFields
  <2>2. i \in DOMAIN s.plans /\ s.plans[i] \in Plan
    BY <1>1, <2>1, PlanIndexIsPlace, StateParts DEF HasPlan
  <2>3. ReduceToolPlanReview(s, e) = [s EXCEPT !.plans = [s.plans EXCEPT ![i] = reviewed]]
    BY <1>1 DEF ReduceToolPlanReview
  <2> HIDE DEF i
  <2>4. reviewed \in Plan
    BY <2>1, <2>2 DEF Plan
  <2>5. [s.plans EXCEPT ![i] = reviewed] \in Seq(Plan)
    BY <2>2, <2>4, StateParts
  <2> HIDE DEF reviewed
  <2> QED
    BY <2>3, <2>5 DEF State
<1>2. CASE ~HasPlan(s, e.plan, "pending")
  BY <1>2 DEF ReduceToolPlanReview
<1> QED
  BY <1>1, <1>2

\* Rewriting the steps of a plan that is found.
LEMMA NewStepsType ==
    ASSUME NEW s \in State, NEW p \in Plans, PlanIndex(s, p) # 0, NEW steps,
           DOMAIN steps = DOMAIN StepsOf(s, p), \A k \in DOMAIN steps : steps[k] \in Step,
           steps = [k \in DOMAIN steps |-> steps[k]]
    PROVE  [s EXCEPT !.plans[PlanIndex(s, p)].steps = steps] \in State
<1> DEFINE i == PlanIndex(s, p)
           new == [s.plans[i] EXCEPT !.steps = steps]
<1>1. i \in DOMAIN s.plans /\ s.plans[i] \in Plan
  BY PlanIndexIsPlace, StateParts
<1>2. steps \in Seq(Step)
  <2>1. PICK n \in Nat : DOMAIN steps = 1..n
    BY StepsOfPlan
  <2>2. steps \in [1..n -> Step]
    BY <2>1
  <2> QED
    BY <2>2
<1> HIDE DEF i
<1>3. new \in Plan
  BY <1>1, <1>2 DEF Plan
<1>4. [s.plans EXCEPT ![i] = new] \in Seq(Plan)
  BY <1>1, <1>3, StateParts
<1>5. [s EXCEPT !.plans[i].steps = steps] = [s EXCEPT !.plans = [s.plans EXCEPT ![i] = new]]
  OBVIOUS
<1> HIDE DEF new
<1>6. [s EXCEPT !.plans[i].steps = steps] \in State
  BY <1>4, <1>5 DEF State
<1> QED
  BY <1>6 DEF i

\* Steps of a plan that is found, one by one.
LEMMA StepFacts ==
    ASSUME NEW s \in State, NEW p \in Plans, PlanIndex(s, p) # 0, NEW k \in DOMAIN StepsOf(s, p)
    PROVE  /\ StepsOf(s, p)[k] \in Step
           /\ StepsOf(s, p)[k].proposal \in ProposalId
           /\ StepsOf(s, p)[k].receipt \in Receipt
<1>1. StepsOf(s, p)[k] \in Step
  BY StepsOfPlan
<1> QED
  BY <1>1 DEF Step

\* The last entry at some places is an entry, or else the given one.
LEMMA LastDoneFacts ==
    ASSUME NEW done \in Seq(Done), NEW places \in SUBSET DOMAIN done, NEW step
    PROVE  /\ step.proposal \in ProposalId => LastDone(done, places, step).proposal \in ProposalId
           /\ step.receipt \in Receipt => LastDone(done, places, step).receipt \in Receipt
<1> DEFINE last == {i \in places : \A j \in places : j <= i}
           found == CHOOSE i \in last : TRUE
<1>1. CASE last = {}
  BY <1>1 DEF LastDone
<1>2. CASE last # {}
  <2>1. LastDone(done, places, step) = done[found]
    BY <1>2 DEF LastDone
  <2>2. found \in DOMAIN done
    BY <1>2
  <2> HIDE DEF found
  <2>3. done[found] \in Done
    BY <2>2
  <2> QED
    BY <2>1, <2>3 DEF Done
<1> QED
  BY <1>1, <1>2

\* The record of queued proposals rewrites the steps of one plan.
LEMMA StepQueueType ==
    ASSUME NEW s \in State, NEW e \in Event, e.type = "tool_plan_step_queue"
    PROVE  ReduceStepQueue(s, e) \in State
<1> DEFINE old == StepsOf(s, e.plan)
           places(k) == {i \in DOMAIN e.done : e.done[i].step = k}
           queued(k) == LastDone(e.done, places(k), old[k])
           new == [k \in DOMAIN old |-> [old[k] EXCEPT !.proposal = queued(k).proposal]]
<1>0. e.plan \in Plans /\ e.done \in Seq(Done)
  BY EventFields
<1>1. CASE HasPlan(s, e.plan, "approved")
  <2>1. PlanIndex(s, e.plan) # 0
    BY <1>1 DEF HasPlan
  <2>2. \A k \in DOMAIN old : queued(k).proposal \in ProposalId
    BY <1>0, <2>1, StepFacts, LastDoneFacts
  <2>3. \A k \in DOMAIN old : old[k] \in Step
    BY <1>0, <2>1, StepFacts
  <2>4. ReduceStepQueue(s, e) = [s EXCEPT !.plans[PlanIndex(s, e.plan)].steps = new]
    BY <1>1 DEF ReduceStepQueue, WithSteps
  <2> HIDE DEF queued, old
  <2>5. \A k \in DOMAIN old : [old[k] EXCEPT !.proposal = queued(k).proposal] \in Step
    BY <2>2, <2>3 DEF Step
  <2>6. /\ DOMAIN new = DOMAIN StepsOf(s, e.plan)
        /\ \A k \in DOMAIN new : new[k] \in Step
        /\ new = [k \in DOMAIN new |-> new[k]]
    BY <2>5 DEF old
  <2> HIDE DEF new
  <2> QED
    BY <1>0, <2>1, <2>4, <2>6, NewStepsType
<1>2. CASE ~HasPlan(s, e.plan, "approved")
  BY <1>2 DEF ReduceStepQueue
<1> QED
  BY <1>1, <1>2

\* The record of receipts rewrites the steps of one plan.
LEMMA PlanExecutionType ==
    ASSUME NEW s \in State, NEW e \in Event, e.type = "tool_plan_execution_request"
    PROVE  ReducePlanExecution(s, e) \in State
<1> DEFINE old == StepsOf(s, e.plan)
           places(k) == {i \in DOMAIN e.done : e.done[i].proposal = old[k].proposal}
           executed(k) == LastDone(e.done, places(k), old[k])
           new == [k \in DOMAIN old |-> [old[k] EXCEPT !.receipt = executed(k).receipt]]
<1>0. e.plan \in Plans /\ e.done \in Seq(Done)
  BY EventFields
<1>1. CASE HasPlan(s, e.plan, "approved")
  <2>1. PlanIndex(s, e.plan) # 0
    BY <1>1 DEF HasPlan
  <2>2. \A k \in DOMAIN old : executed(k).receipt \in Receipt
    BY <1>0, <2>1, StepFacts, LastDoneFacts
  <2>3. \A k \in DOMAIN old : old[k] \in Step
    BY <1>0, <2>1, StepFacts
  <2>4. ReducePlanExecution(s, e) = [s EXCEPT !.plans[PlanIndex(s, e.plan)].steps = new]
    BY <1>1 DEF ReducePlanExecution, WithSteps
  <2> HIDE DEF executed, old
  <2>5. \A k \in DOMAIN old : [old[k] EXCEPT !.receipt = executed(k).receipt] \in Step
    BY <2>2, <2>3 DEF Step
  <2>6. /\ DOMAIN new = DOMAIN StepsOf(s, e.plan)
        /\ \A k \in DOMAIN new : new[k] \in Step
        /\ new = [k \in DOMAIN new |-> new[k]]
    BY <2>5 DEF old
  <2> HIDE DEF new
  <2> QED
    BY <1>0, <2>1, <2>4, <2>6, NewStepsType
<1>2. CASE ~HasPlan(s, e.plan, "approved")
  BY <1>2 DEF ReducePlanExecution
<1> QED
  BY <1>1, <1>2

\* Binding rewrites the steps of one plan and some pending proposals.
LEMMA ResultBindingType ==
    ASSUME NEW s \in State, NEW e \in Event, e.type = "tool_plan_result_binding"
    PROVE  ReduceResultBinding(s, e) \in State
<1> DEFINE ids == {id \in e.ids : HasReview(s, id, "pending")}
           old == StepsOf(s, e.plan)
           new == [k \in DOMAIN old |-> [old[k] EXCEPT !.bound = @ \/ old[k].proposal \in ids]]
           queue == [j \in DOMAIN s.queue |->
                        [s.queue[j] EXCEPT !.bound = @ \/ s.queue[j].id \in ids]]
           rebound == [s EXCEPT !.plans[PlanIndex(s, e.plan)].steps = new]
<1>0. e.plan \in Plans
  BY EventFields
<1>1. CASE PlanIndex(s, e.plan) # 0
  <2>1. ReduceResultBinding(s, e) = [rebound EXCEPT !.queue = queue]
    BY <1>1 DEF ReduceResultBinding, WithSteps
  <2> HIDE DEF ids
  <2>2. \A k \in DOMAIN old : old[k] \in Step
    BY <1>0, <1>1, StepFacts
  <2> HIDE DEF old
  <2>3. \A k \in DOMAIN old : [old[k] EXCEPT !.bound = @ \/ old[k].proposal \in ids] \in Step
    BY <2>2 DEF Step
  <2>4. /\ DOMAIN new = DOMAIN StepsOf(s, e.plan)
        /\ \A k \in DOMAIN new : new[k] \in Step
        /\ new = [k \in DOMAIN new |-> new[k]]
    BY <2>3 DEF old
  <2> HIDE DEF new
  <2>5. rebound \in State
    BY <1>0, <1>1, <2>4, NewStepsType
  <2>6. \A j \in DOMAIN s.queue : s.queue[j] \in Proposal
    BY StateParts
  <2>7. \A j \in DOMAIN s.queue :
           [s.queue[j] EXCEPT !.bound = @ \/ s.queue[j].id \in ids] \in Proposal
    BY <2>6 DEF Proposal
  <2>8. PICK n \in Nat : DOMAIN s.queue = 1..n
    BY StateParts
  <2>9. queue \in [1..n -> Proposal]
    BY <2>7, <2>8
  <2>10. queue \in Seq(Proposal)
    <3> HIDE DEF queue
    <3> QED
      BY <2>9
  <2> HIDE DEF rebound, queue
  <2> QED
    BY <2>1, <2>5, <2>10 DEF State
<1>2. CASE ~(PlanIndex(s, e.plan) # 0)
  BY <1>2 DEF ReduceResultBinding
<1> QED
  BY <1>1, <1>2

\* Every event makes a state of a state.
LEMMA ReduceType ==
    ASSUME NEW s \in State, NEW e \in Event
    PROVE  Reduce(s, e) \in State
BY EventFields, IntentType, ProposalReviewType, ExecutionRequestType, ToolPlanType,
   ToolPlanReviewType, StepQueueType, PlanExecutionType, ResultBindingType DEF Reduce

-----------------------------------------------------------------------------
\* The reducer keeps receipts true of the proposals they were made for.

\* Every receipt of s agrees with the reviews in s.
ReceiptsAreTrue(s) == \A i \in DOMAIN s.audit : ReceiptIsTrue(s, s.audit[i])

\* t keeps the decisions that were taken in s.
KeepsDecisions(s, t) ==
    \A id \in ProposalId, review \in {"approved", "denied"} :
        HasReview(s, id, review) =>
            HasReview(t, id, review) /\ ProposalOf(t, id).tool = ProposalOf(s, id).tool

\* Receipts are about decisions only, so keeping these keeps receipts true.
LEMMA DecisionsKept ==
    ASSUME NEW s \in State, NEW t, t.audit = s.audit, KeepsDecisions(s, t), ReceiptsAreTrue(s)
    PROVE  ReceiptsAreTrue(t)
<1> SUFFICES ASSUME NEW i \in DOMAIN s.audit
             PROVE  ReceiptIsTrue(t, s.audit[i])
  BY DEF ReceiptsAreTrue
<1>1. s.audit[i].proposal \in ProposalId
  <2>1. s.audit[i] \in Receipt
    BY StateParts
  <2> QED
    BY <2>1 DEF Receipt
<1>2. ReceiptIsTrue(s, s.audit[i])
  BY DEF ReceiptsAreTrue
<1> QED
  BY <1>1, <1>2 DEF ReceiptIsTrue, KeepsDecisions

\* The same queue and log.
LEMMA SameQueue ==
    ASSUME NEW s \in State, NEW t, t.audit = s.audit, t.queue = s.queue, ReceiptsAreTrue(s)
    PROVE  ReceiptsAreTrue(t)
BY DecisionsKept DEF KeepsDecisions, HasReview, HasProposal, ProposalOf

\* A new proposal stands behind those that are decided.
LEMMA IntentKeepsReceipts ==
    ASSUME NEW s \in State, NEW e \in Event, e.type = "user_intent", ReceiptsAreTrue(s)
    PROVE  ReceiptsAreTrue(ReduceIntent(s, e))
<1> DEFINE t == ReduceIntent(s, e)
<1>1. PICK new : t = [s EXCEPT !.queue = Append(s.queue, new)]
  BY DEF ReduceIntent
<1>2. t.audit = s.audit /\ t.queue = Append(s.queue, new)
  BY <1>1, StateParts
<1>3. \A i \in DOMAIN s.queue : i \in DOMAIN t.queue /\ t.queue[i] = s.queue[i]
  BY <1>2, StateParts
<1> HIDE DEF t
<1>4. KeepsDecisions(s, t)
  BY <1>3 DEF KeepsDecisions, HasReview, HasProposal, ProposalOf
<1>5. ReceiptsAreTrue(t)
  BY <1>2, <1>4, DecisionsKept
<1> QED
  BY <1>5 DEF t

\* Only a pending proposal is reviewed, so no decision is overwritten.
LEMMA ProposalReviewKeepsReceipts ==
    ASSUME NEW s \in State, NEW e \in Event, e.type = "proposal_review", ReceiptsAreTrue(s)
    PROVE  ReceiptsAreTrue(ReduceProposalReview(s, e))
<1> DEFINE t == ReduceProposalReview(s, e)
<1>1. CASE HasReview(s, e.id, "pending")
  <2>1. t = [s EXCEPT !.queue[e.id.index].review = e.decision]
    BY <1>1 DEF ReduceProposalReview
  <2>2. /\ t.audit = s.audit
        /\ t.queue = [s.queue EXCEPT ![e.id.index] = [s.queue[e.id.index] EXCEPT !.review = e.decision]]
    BY <2>1, StateParts
  <2>3. /\ DOMAIN t.queue = DOMAIN s.queue
        /\ \A i \in DOMAIN s.queue : i # e.id.index => t.queue[i] = s.queue[i]
    BY <2>2, StateParts
  <2>4. s.queue[e.id.index].review = "pending"
    BY <1>1 DEF HasReview, ProposalOf
  <2> HIDE DEF t
  <2>5. KeepsDecisions(s, t)
    BY <2>3, <2>4 DEF KeepsDecisions, HasReview, HasProposal, ProposalOf
  <2>6. ReceiptsAreTrue(t)
    BY <2>2, <2>5, DecisionsKept
  <2> QED
    BY <2>6 DEF t
<1>2. CASE ~HasReview(s, e.id, "pending")
  BY <1>2 DEF ReduceProposalReview
<1> QED
  BY <1>1, <1>2

\* The new receipt's status follows the review; the others stay true.
LEMMA ExecutionRequestKeepsReceipts ==
    ASSUME NEW s \in State, NEW e \in Event, e.type = "execution_request", ReceiptsAreTrue(s)
    PROVE  ReceiptsAreTrue(ReduceExecutionRequest(s, e))
<1> DEFINE t == ReduceExecutionRequest(s, e)
           new == [index |-> Len(s.audit) + 1, proposal |-> e.id,
                   status |-> ExecutionStatus(ProposalOf(s, e.id), e.result)]
<1>1. CASE HasProposal(s, e.id)
  <2>1. t = [s EXCEPT !.audit = Append(s.audit, new)]
    BY <1>1 DEF ReduceExecutionRequest
  <2>2. t.audit = Append(s.audit, new) /\ t.queue = s.queue
    BY <2>1, StateParts
  <2>3. ReceiptIsTrue(s, new)
    <3>1. ProposalOf(s, e.id) \in Proposal
      BY <1>1, StateParts DEF HasProposal, ProposalOf
    <3>2. ProposalOf(s, e.id).review \in Reviews
      BY <3>1 DEF Proposal
    <3> QED
      BY <1>1, <3>2 DEF ReceiptIsTrue, ExecutionStatus, HasReview, Reviews
  <2> HIDE DEF new, t
  <2>4. \A r : ReceiptIsTrue(s, r) => ReceiptIsTrue(t, r)
    BY <2>2 DEF ReceiptIsTrue, HasReview, HasProposal, ProposalOf
  <2>5. \A i \in DOMAIN t.audit : t.audit[i] = new \/ (i \in DOMAIN s.audit /\ t.audit[i] = s.audit[i])
    BY <2>2, StateParts
  <2>6. ReceiptsAreTrue(t)
    BY <2>3, <2>4, <2>5 DEF ReceiptsAreTrue
  <2> QED
    BY <2>6 DEF t
<1>2. CASE ~HasProposal(s, e.id)
  BY <1>2 DEF ReduceExecutionRequest
<1> QED
  BY <1>1, <1>2

\* Binding changes what a proposal is asked with, not what was decided about it.
LEMMA ResultBindingKeepsReceipts ==
    ASSUME NEW s \in State, NEW e \in Event, e.type = "tool_plan_result_binding", ReceiptsAreTrue(s)
    PROVE  ReceiptsAreTrue(ReduceResultBinding(s, e))
<1> DEFINE t == ReduceResultBinding(s, e)
           ids == {id \in e.ids : HasReview(s, id, "pending")}
<1>1. CASE PlanIndex(s, e.plan) # 0
  <2>1. PICK steps :
           t = [[s EXCEPT !.plans[PlanIndex(s, e.plan)].steps = steps] EXCEPT
                   !.queue = [j \in DOMAIN s.queue |->
                                [s.queue[j] EXCEPT !.bound = @ \/ s.queue[j].id \in ids]]]
    BY <1>1 DEF ReduceResultBinding, WithSteps
  <2>2. /\ t.audit = s.audit
        /\ t.queue = [j \in DOMAIN s.queue |->
                        [s.queue[j] EXCEPT !.bound = @ \/ s.queue[j].id \in ids]]
    BY <2>1, StateParts
  <2> HIDE DEF ids, t
  <2>3. ASSUME NEW i \in DOMAIN s.queue
        PROVE  /\ i \in DOMAIN t.queue
               /\ t.queue[i].id = s.queue[i].id
               /\ t.queue[i].review = s.queue[i].review
               /\ t.queue[i].tool = s.queue[i].tool
    <3>1. s.queue[i] \in Proposal
      BY StateParts
    <3> QED
      BY <2>2, <3>1 DEF Proposal
  <2>4. KeepsDecisions(s, t)
    BY <2>3 DEF KeepsDecisions, HasReview, HasProposal, ProposalOf
  <2>5. ReceiptsAreTrue(t)
    BY <2>2, <2>4, DecisionsKept
  <2> QED
    BY <2>5 DEF t
<1>2. CASE ~(PlanIndex(s, e.plan) # 0)
  BY <1>2 DEF ReduceResultBinding
<1> QED
  BY <1>1, <1>2

\* The other events leave queue and log alone.
LEMMA OthersKeepQueue ==
    ASSUME NEW s \in State, NEW e \in Event,
           e.type \in {"tool_plan", "tool_plan_review", "tool_plan_step_queue",
                       "tool_plan_execution_request", "other"}
    PROVE  Reduce(s, e).queue = s.queue /\ Reduce(s, e).audit = s.audit
<1>1. \A plans : /\ [s EXCEPT !.plans = plans].queue = s.queue
                 /\ [s EXCEPT !.plans = plans].audit = s.audit
  BY StateParts
<1>2. CASE e.type = "tool_plan"
  BY <1>1, <1>2 DEF Reduce, ReduceToolPlan
<1>3. CASE e.type = "tool_plan_review"
  BY <1>1, <1>3 DEF Reduce, ReduceToolPlanReview
<1>4. CASE e.type = "tool_plan_step_queue"
  BY <1>1, <1>4 DEF Reduce, ReduceStepQueue, WithSteps
<1>5. CASE e.type = "tool_plan_execution_request"
  BY <1>1, <1>5 DEF Reduce, ReducePlanExecution, WithSteps
<1>6. CASE e.type = "other"
  BY <1>6 DEF Reduce
<1> QED
  BY <1>2, <1>3, <1>4, <1>5, <1>6

\* Every event keeps receipts true, on whatever copy of the state it is applied.
LEMMA ReduceKeepsReceipts ==
    ASSUME NEW s \in State, NEW e \in Event, ReceiptsAreTrue(s)
    PROVE  ReceiptsAreTrue(Reduce(s, e))
<1>1. CASE e.type = "user_intent"
  BY <1>1, IntentKeepsReceipts DEF Reduce
<1>2. CASE e.type = "proposal_review"
  BY <1>2, ProposalReviewKeepsReceipts DEF Reduce
<1>3. CASE e.type = "execution_request"
  BY <1>3, ExecutionRequestKeepsReceipts DEF Reduce
<1>4. CASE e.type = "tool_plan_result_binding"
  BY <1>4, ResultBindingKeepsReceipts DEF Reduce
<1>5. CASE e.type \in {"tool_plan", "tool_plan_review", "tool_plan_step_queue",
                       "tool_plan_execution_request", "other"}
  BY <1>5, OthersKeepQueue, SameQueue
<1> QED
  BY <1>1, <1>2, <1>3, <1>4, <1>5, EventFields

-----------------------------------------------------------------------------
\* The inductive invariant: receipts are true in STATE and in every copy that a
\* request may still store over it, and a request that runs through a plan
\* stands at one of the plan's steps.

JobStandsAtStep ==
    \A c \in Clients :
        work[c].job # "single" =>
            work[c].plan \in Plans /\ work[c].at \in DOMAIN work[c].steps

IInv ==
    /\ TypeOK
    /\ JobStandsAtStep
    /\ ReceiptsAreTrue(state)
    /\ \A c \in Clients : ReceiptsAreTrue(base[c])

LEMMA InitIInv == Init => IInv
<1> SUFFICES ASSUME Init PROVE IInv
  OBVIOUS
<1>1. ReceiptsAreTrue(Baseline)
  BY DEF ReceiptsAreTrue, Baseline
<1>2. TypeOK
  BY Blanks DEF Init, TypeOK
<1> QED
  BY <1>1, <1>2 DEF Init, IInv, JobStandsAtStep, Single

\* A request that begins, or goes on, with a well-formed event and work.
LEMMA BeginKeeps ==
    ASSUME IInv, NEW c \in Clients, NEW e \in Event, NEW w \in Work,
           w.job # "single" => w.plan \in Plans /\ w.at \in DOMAIN w.steps,
           Begin(c, e, w) \/ Continue(c, e, w)
    PROVE  IInv'
<1>1. /\ pc' = [pc EXCEPT ![c] = "begun"]
      /\ event' = [event EXCEPT ![c] = e]
      /\ work' = [work EXCEPT ![c] = w]
      /\ UNCHANGED <<state, base>>
      /\ overlaps' = overlaps \/ overlaps' = overlaps + 1
  BY DEF Begin, Continue, Arrives
<1>2. TypeOK'
  BY <1>1 DEF IInv, TypeOK
<1>3. JobStandsAtStep'
  BY <1>1 DEF IInv, TypeOK, JobStandsAtStep
<1> QED
  BY <1>1, <1>2, <1>3 DEF IInv, ReceiptsAreTrue

\* The requests of one event.
LEMMA SingleKeeps ==
    ASSUME IInv, NEW c \in Clients,
           \/ OtherEvent(c) \/ Propose(c) \/ ReviewProposal(c) \/ RequestExecution(c)
           \/ CreatePlan(c) \/ ReviewPlan(c) \/ BindResults(c)
    PROVE  IInv'
<1> USE DEF IInv, TypeOK
<1>0. Single \in Work /\ Single.job = "single" /\ NoEvent \in Event
  BY Blanks DEF Single
<1>q. ASSUME NEW i \in DOMAIN state.queue
      PROVE  state.queue[i] \in Proposal /\ state.queue[i].id \in ProposalId
  <2>1. state.queue[i] \in Proposal
    BY StateParts
  <2> QED
    BY <2>1 DEF Proposal
<1>b. SUFFICES \E e \in Event : Begin(c, e, Single)
  BY <1>0, BeginKeeps
<1>1. CASE OtherEvent(c)
  BY <1>0, <1>1 DEF OtherEvent
<1>2. CASE Propose(c)
  <2>1. PICK tool \in RequestTools :
           Begin(c, [type |-> "user_intent", tool |-> tool, plan |-> NoPlan, step |-> 0], Single)
    BY <1>2 DEF Propose
  <2>2. [type |-> "user_intent", tool |-> tool, plan |-> NoPlan, step |-> 0] \in Event
    BY BoundsAssumption DEF Event
  <2> QED
    BY <2>1, <2>2
<1>3. CASE ReviewProposal(c)
  <2>1. PICK i \in DOMAIN state.queue, decision \in {"approved", "denied"} :
           Begin(c, [type |-> "proposal_review", id |-> state.queue[i].id,
                     decision |-> decision], Single)
    BY <1>3 DEF ReviewProposal
  <2>2. [type |-> "proposal_review", id |-> state.queue[i].id, decision |-> decision] \in Event
    BY <1>q DEF Event, Reviews
  <2> QED
    BY <2>1, <2>2
<1>4. CASE RequestExecution(c)
  <2>1. PICK i \in DOMAIN state.queue : Begin(c, ExecutionRequest(state.queue[i]), Single)
    BY <1>4 DEF RequestExecution
  <2>2. ExecutionRequest(state.queue[i]) \in Event
    BY <1>q DEF Event, ExecutionRequest
  <2> QED
    BY <2>1, <2>2
<1>5. CASE CreatePlan(c)
  <2>1. PICK p \in Plans : Begin(c, [type |-> "tool_plan", plan |-> p], Single)
    BY <1>5 DEF CreatePlan
  <2>2. [type |-> "tool_plan", plan |-> p] \in Event
    BY DEF Event
  <2> QED
    BY <2>1, <2>2
<1>6. CASE ReviewPlan(c)
  <2>1. PICK p \in Plans, decision \in {"approved", "denied"} :
           Begin(c, [type |-> "tool_plan_review", plan |-> p, decision |-> decision], Single)
    BY <1>6 DEF ReviewPlan
  <2>2. [type |-> "tool_plan_review", plan |-> p, decision |-> decision] \in Event
    BY DEF Event, Reviews
  <2> QED
    BY <2>1, <2>2
<1>7. CASE BindResults(c)
  <2>1. PICK p \in Plans :
           /\ HasPlan(state, p, "approved")
           /\ Begin(c, [type |-> "tool_plan_result_binding", plan |-> p,
                        ids |-> Bindable(state, StepsOf(state, p))], Single)
    BY <1>7 DEF BindResults
  <2>2. \A k \in DOMAIN StepsOf(state, p) : StepsOf(state, p)[k].proposal \in ProposalId
    BY <2>1, StepFacts DEF HasPlan
  <2>3. Bindable(state, StepsOf(state, p)) \subseteq ProposalId
    BY <2>2 DEF Bindable
  <2>4. [type |-> "tool_plan_result_binding", plan |-> p,
         ids |-> Bindable(state, StepsOf(state, p))] \in Event
    BY <2>3 DEF Event
  <2> QED
    BY <2>1, <2>4
<1> QED
  BY <1>1, <1>2, <1>3, <1>4, <1>5, <1>6, <1>7

\* The event of a step that is to be queued, or executed.
LEMMA StepEvents ==
    ASSUME NEW s \in State, NEW p \in Plans, NEW steps \in Seq(Step), NEW k \in DOMAIN steps
    PROVE  /\ StepIntent(p, steps, k) \in Event
           /\ HasProposal(s, steps[k].proposal) =>
                 ExecutionRequest(ProposalOf(s, steps[k].proposal)) \in Event
<1>0. steps[k] \in Step /\ k \in Nat
  OBVIOUS
<1>1. steps[k].tool \in Tools
  BY <1>0 DEF Step
<1>2. StepIntent(p, steps, k) \in Event
  BY <1>0, <1>1 DEF StepIntent, Event
<1>3. ASSUME HasProposal(s, steps[k].proposal)
      PROVE  ExecutionRequest(ProposalOf(s, steps[k].proposal)) \in Event
  <2>1. ProposalOf(s, steps[k].proposal) \in Proposal
    BY <1>3, StateParts DEF HasProposal, ProposalOf
  <2> QED
    BY <2>1 DEF ExecutionRequest, Event, Proposal
<1> QED
  BY <1>2, <1>3

\* A request that runs through a plan starts at the first step to be done.
LEMMA PlanJobsKeep ==
    ASSUME IInv, NEW c \in Clients, QueueSteps(c) \/ ExecuteSteps(c)
    PROVE  IInv'
<1>1. CASE QueueSteps(c)
  <2>1. PICK p \in Plans : \E k \in ToQueue(StepsOf(state, p), 0) :
           /\ HasPlan(state, p, "approved")
           /\ Begin(c, StepIntent(p, StepsOf(state, p), k),
                    [job |-> "queue_steps", plan |-> p, steps |-> StepsOf(state, p),
                     at |-> k, done |-> <<>>])
    BY <1>1 DEF QueueSteps
  <2>k. PICK k \in ToQueue(StepsOf(state, p), 0) :
           Begin(c, StepIntent(p, StepsOf(state, p), k),
                 [job |-> "queue_steps", plan |-> p, steps |-> StepsOf(state, p),
                  at |-> k, done |-> <<>>])
    BY <2>1
  <2>2. StepsOf(state, p) \in Seq(Step) /\ k \in DOMAIN StepsOf(state, p)
    BY <2>1, StepsOfPlan DEF HasPlan, ToQueue, IInv, TypeOK
  <2> DEFINE w == [job |-> "queue_steps", plan |-> p, steps |-> StepsOf(state, p),
                   at |-> k, done |-> <<>>]
  <2>3. w \in Work /\ w.plan \in Plans /\ w.at \in DOMAIN w.steps
    BY <2>2 DEF Work
  <2>4. StepIntent(p, StepsOf(state, p), k) \in Event
    BY <2>2, StepEvents DEF IInv, TypeOK
  <2>5. Begin(c, StepIntent(p, StepsOf(state, p), k), w)
    BY <2>k
  <2> HIDE DEF w
  <2> QED
    BY <2>3, <2>4, <2>5, BeginKeeps
<1>2. CASE ExecuteSteps(c)
  <2>1. PICK p \in Plans : \E k \in ToExecute(state, StepsOf(state, p), 0) :
           /\ HasPlan(state, p, "approved")
           /\ Begin(c, ExecutionRequest(ProposalOf(state, StepsOf(state, p)[k].proposal)),
                    [job |-> "request_execution", plan |-> p, steps |-> StepsOf(state, p),
                     at |-> k, done |-> <<>>])
    BY <1>2 DEF ExecuteSteps
  <2>k. PICK k \in ToExecute(state, StepsOf(state, p), 0) :
           Begin(c, ExecutionRequest(ProposalOf(state, StepsOf(state, p)[k].proposal)),
                 [job |-> "request_execution", plan |-> p, steps |-> StepsOf(state, p),
                  at |-> k, done |-> <<>>])
    BY <2>1
  <2>2. /\ StepsOf(state, p) \in Seq(Step) /\ k \in DOMAIN StepsOf(state, p)
        /\ HasProposal(state, StepsOf(state, p)[k].proposal)
    BY <2>1, StepsOfPlan DEF HasPlan, HasReview, ToExecute, IInv, TypeOK
  <2> DEFINE w == [job |-> "request_execution", plan |-> p, steps |-> StepsOf(state, p),
                   at |-> k, done |-> <<>>]
             e == ExecutionRequest(ProposalOf(state, StepsOf(state, p)[k].proposal))
  <2>3. w \in Work /\ w.plan \in Plans /\ w.at \in DOMAIN w.steps
    BY <2>2 DEF Work
  <2>4. e \in Event
    BY <2>2, StepEvents DEF IInv, TypeOK
  <2>5. Begin(c, e, w)
    BY <2>k
  <2> HIDE DEF w, e
  <2> QED
    BY <2>3, <2>4, <2>5, BeginKeeps
<1> QED
  BY <1>1, <1>2

\* Reading takes a copy of STATE, whose receipts are true.
LEMMA ReadKeeps ==
    ASSUME IInv, NEW c \in Clients, Read(c)
    PROVE  IInv'
<1>1. TypeOK'
  BY DEF IInv, TypeOK, Read
<1>2. JobStandsAtStep'
  BY DEF IInv, JobStandsAtStep, Read
<1>3. state' = state /\ base' = [base EXCEPT ![c] = state]
  BY DEF Read
<1>4. \A d \in Clients : ReceiptsAreTrue(base'[d])
  BY <1>3 DEF IInv, TypeOK
<1> QED
  BY <1>1, <1>2, <1>3, <1>4 DEF IInv

\* Storing replaces STATE by the reduced copy, however old the copy is.
LEMMA StoreKeeps ==
    ASSUME IInv, NEW c \in Clients, Store(c)
    PROVE  IInv'
<1> DEFINE reduced == Reduce(base[c], event[c])
<1>1. reduced \in State /\ ReceiptsAreTrue(reduced)
  BY ReduceType, ReduceKeepsReceipts DEF IInv, TypeOK
<1>2. state' = reduced /\ base' = [base EXCEPT ![c] = Baseline] /\ UNCHANGED overlaps
  BY DEF Store
<1> HIDE DEF reduced
<1>3. /\ pc' = [pc EXCEPT ![c] = "idle"] \/ pc' = [pc EXCEPT ![c] = "stored"]
      /\ event' = [event EXCEPT ![c] = NoEvent] \/ event' = event
      /\ work' = [work EXCEPT ![c] = Single] \/ work' = work
  BY DEF Store, Finish
<1>4. TypeOK'
  BY <1>1, <1>2, <1>3, Blanks DEF IInv, TypeOK
<1>5. JobStandsAtStep'
  BY <1>3 DEF IInv, TypeOK, JobStandsAtStep, Single
<1>6. ReceiptsAreTrue(Baseline)
  BY DEF ReceiptsAreTrue, Baseline
<1>7. \A d \in Clients : ReceiptsAreTrue(base'[d])
  BY <1>2, <1>6 DEF IInv, TypeOK
<1> QED
  BY <1>1, <1>2, <1>4, <1>5, <1>7 DEF IInv

\* A request that goes on takes the next step, or records what it has done.
LEMMA CollectKeeps ==
    ASSUME IInv, NEW c \in Clients, CollectProposal(c) \/ CollectReceipt(c)
    PROVE  IInv'
<1> DEFINE w == work[c]
<1>1. /\ w \in Work /\ w.steps \in Seq(Step) /\ w.done \in Seq(Done)
      /\ w.job # "single" => w.plan \in Plans /\ w.at \in DOMAIN w.steps
  <2>1. w \in Work
    BY DEF IInv, TypeOK
  <2> QED
    BY <2>1 DEF IInv, JobStandsAtStep, Work
<1>2. Single \in Work /\ Single.job = "single"
  BY Blanks DEF Single
<1>3. CASE CollectProposal(c)
  <2> DEFINE id == IF state.queue = <<>> THEN NoProposal ELSE Last(state.queue).id
             done == Append(w.done, [step |-> w.at, proposal |-> id, receipt |-> NoReceipt])
             next == ToQueue(w.steps, w.at)
  <2>1. /\ w.job = "queue_steps"
        /\ \/ Record(c, "tool_plan_step_queue", done)
           \/ \E k \in next :
                 Continue(c, StepIntent(w.plan, w.steps, k), [w EXCEPT !.at = k, !.done = done])
    BY <1>3 DEF CollectProposal
  <2>2. id \in ProposalId
    <3>1. CASE state.queue = <<>>
      BY <3>1, Blanks
    <3>2. CASE state.queue # <<>>
      <4>1. Last(state.queue) \in Proposal
        BY <3>2, StateParts DEF Last, IInv, TypeOK
      <4> QED
        BY <3>2, <4>1 DEF Proposal
    <3> QED
      BY <3>1, <3>2
  <2> HIDE DEF id
  <2>3. done \in Seq(Done)
    <3>1. [step |-> w.at, proposal |-> id, receipt |-> NoReceipt] \in Done
      BY <1>1, <2>1, <2>2, Blanks DEF Done, Work
    <3> QED
      BY <1>1, <3>1
  <2> HIDE DEF done
  <2>4. CASE Record(c, "tool_plan_step_queue", done)
    <3>1. [type |-> "tool_plan_step_queue", plan |-> w.plan, done |-> done] \in Event
      BY <1>1, <2>1, <2>3 DEF Event
    <3>2. Continue(c, [type |-> "tool_plan_step_queue", plan |-> w.plan, done |-> done], Single)
      BY <2>4 DEF Record
    <3> QED
      BY <1>2, <3>1, <3>2, BeginKeeps
  <2>5. CASE \E k \in next :
                Continue(c, StepIntent(w.plan, w.steps, k), [w EXCEPT !.at = k, !.done = done])
    <3>1. PICK k \in next :
             Continue(c, StepIntent(w.plan, w.steps, k), [w EXCEPT !.at = k, !.done = done])
      BY <2>5
    <3>2. k \in DOMAIN w.steps /\ k \in Nat
      BY <1>1 DEF ToQueue
    <3> DEFINE v == [w EXCEPT !.at = k, !.done = done]
    <3>3. v \in Work /\ v.plan = w.plan /\ v.at = k /\ v.steps = w.steps
      BY <1>1, <2>3, <3>2 DEF Work
    <3>4. StepIntent(w.plan, w.steps, k) \in Event
      BY <1>1, <2>1, <3>2, StepEvents DEF IInv, TypeOK
    <3>5. Continue(c, StepIntent(w.plan, w.steps, k), v)
      BY <3>1
    <3>6. v.plan \in Plans /\ v.at \in DOMAIN v.steps
      BY <1>1, <2>1, <3>2, <3>3
    <3> HIDE DEF v, w
    <3> QED
      BY <3>3, <3>4, <3>5, <3>6, BeginKeeps
  <2> QED
    BY <2>1, <2>4, <2>5
<1>4. CASE CollectReceipt(c)
  <2> DEFINE done == Append(w.done, [step |-> w.at, proposal |-> w.steps[w.at].proposal,
                                     receipt |-> Last(state.audit)])
             next == ToExecute(state, w.steps, w.at)
             e(k) == ExecutionRequest(ProposalOf(state, w.steps[k].proposal))
  <2>1. /\ w.job = "request_execution" /\ state.audit # <<>>
        /\ \/ Record(c, "tool_plan_execution_request", done)
           \/ \E k \in next : Continue(c, e(k), [w EXCEPT !.at = k, !.done = done])
    BY <1>4 DEF CollectReceipt
  <2>2. Last(state.audit) \in Receipt
    <3>1. state.audit \in Seq(Receipt) /\ state.audit # <<>>
      BY <2>1, StateParts DEF IInv, TypeOK
    <3> QED
      BY <3>1 DEF Last
  <2>3. done \in Seq(Done)
    <3>1. w.steps[w.at] \in Step /\ w.at \in Nat
      <4>1. w.steps \in Seq(Step) /\ w.at \in DOMAIN w.steps
        BY <1>1, <2>1
      <4> HIDE DEF w
      <4> QED
        BY <4>1
    <3>2. [step |-> w.at, proposal |-> w.steps[w.at].proposal, receipt |-> Last(state.audit)] \in Done
      BY <2>2, <3>1 DEF Done, Step
    <3> QED
      BY <1>1, <3>2
  <2> HIDE DEF done
  <2>4. CASE Record(c, "tool_plan_execution_request", done)
    <3>1. [type |-> "tool_plan_execution_request", plan |-> w.plan, done |-> done] \in Event
      BY <1>1, <2>1, <2>3 DEF Event
    <3>2. Continue(c, [type |-> "tool_plan_execution_request", plan |-> w.plan, done |-> done], Single)
      BY <2>4 DEF Record
    <3> QED
      BY <1>2, <3>1, <3>2, BeginKeeps
  <2>5. CASE \E k \in next : Continue(c, e(k), [w EXCEPT !.at = k, !.done = done])
    <3>1. PICK k \in next : Continue(c, e(k), [w EXCEPT !.at = k, !.done = done])
      BY <2>5
    <3>2. k \in DOMAIN w.steps /\ k \in Nat /\ HasProposal(state, w.steps[k].proposal)
      BY <1>1 DEF ToExecute, HasReview
    <3> DEFINE v == [w EXCEPT !.at = k, !.done = done]
    <3>3. v \in Work /\ v.plan = w.plan /\ v.at = k /\ v.steps = w.steps
      BY <1>1, <2>3, <3>2 DEF Work
    <3>4. e(k) \in Event
      BY <1>1, <2>1, <3>2, StepEvents DEF IInv, TypeOK
    <3>5. Continue(c, e(k), v)
      BY <3>1
    <3>6. v.plan \in Plans /\ v.at \in DOMAIN v.steps
      BY <1>1, <2>1, <3>2, <3>3
    <3> HIDE DEF v, w, e
    <3> QED
      BY <3>3, <3>4, <3>5, <3>6, BeginKeeps
  <2> QED
    BY <2>1, <2>4, <2>5
<1> QED
  BY <1>3, <1>4

\* A failed request, and a reset, leave nothing behind that is not true.
LEMMA EndsKeep ==
    ASSUME IInv, NEW c \in Clients, ExecutionFails(c) \/ Reset(c)
    PROVE  IInv'
<1>0. Baseline \in State /\ ReceiptsAreTrue(Baseline)
  BY Blanks DEF ReceiptsAreTrue, Baseline
<1>1. CASE ExecutionFails(c)
  <2>1. /\ pc' = [pc EXCEPT ![c] = "idle"]
        /\ event' = [event EXCEPT ![c] = NoEvent]
        /\ work' = [work EXCEPT ![c] = Single]
        /\ UNCHANGED <<state, base, overlaps>>
    BY <1>1 DEF ExecutionFails, Finish
  <2>2. TypeOK'
    BY <2>1, Blanks DEF IInv, TypeOK
  <2>3. JobStandsAtStep'
    BY <2>1 DEF IInv, TypeOK, JobStandsAtStep, Single
  <2> QED
    BY <2>1, <2>2, <2>3 DEF IInv
<1>2. CASE Reset(c)
  <2>1. /\ state' = Baseline
        /\ overlaps' = overlaps \/ overlaps' = overlaps + 1
        /\ UNCHANGED <<pc, event, base, work>>
    BY <1>2 DEF Reset, Arrives
  <2>2. TypeOK'
    BY <1>0, <2>1 DEF IInv, TypeOK
  <2> QED
    BY <1>0, <2>1, <2>2 DEF IInv, JobStandsAtStep
<1> QED
  BY <1>1, <1>2

\* Every step keeps the invariant.
LEMMA NextKeeps == IInv /\ [Next]_vars => IInv'
<1> SUFFICES ASSUME IInv, [Next]_vars PROVE IInv'
  OBVIOUS
<1>1. CASE Next
  <2>1. PICK c \in Clients :
           \/ OtherEvent(c) \/ Propose(c) \/ ReviewProposal(c) \/ RequestExecution(c)
           \/ CreatePlan(c) \/ ReviewPlan(c) \/ QueueSteps(c) \/ ExecuteSteps(c) \/ BindResults(c)
           \/ Read(c) \/ Store(c) \/ CollectProposal(c) \/ CollectReceipt(c) \/ ExecutionFails(c)
           \/ Reset(c)
    BY <1>1 DEF Next
  <2> QED
    BY <2>1, SingleKeeps, PlanJobsKeep, ReadKeeps, StoreKeeps, CollectKeeps, EndsKeep
<1>2. CASE UNCHANGED vars
  BY <1>2 DEF vars, IInv, TypeOK, JobStandsAtStep, ReceiptsAreTrue
<1> QED
  BY <1>1, <1>2

-----------------------------------------------------------------------------
\* Results.

\* Every variable keeps its type, however many requests of however many clients
\* overlap (brain.py:1295-1670).
THEOREM TypeCorrect == Spec => []TypeOK
<1>1. IInv => TypeOK
  BY DEF IInv
<1> QED
  BY InitIInv, NextKeeps, <1>1, PTL DEF Spec

\* No receipt in STATE ever shows a result, or a refusal, that the review of its
\* proposal in the same STATE does not allow, whatever stale copies overlapping
\* requests store (execution.py:18-45, reducer.py:425-446).
THEOREM ResultsNeedApproval == Spec => []NoResultWithoutApproval
<1>1. IInv => NoResultWithoutApproval
  BY DEF IInv, ReceiptsAreTrue, NoResultWithoutApproval, Range
<1> QED
  BY InitIInv, NextKeeps, <1>1, PTL DEF Spec

\* However requests overlap, every receipt in STATE is well-typed and agrees with
\* the review of its proposal in the same STATE.
THEOREM ReceiptsStaySound == Spec => []ReceiptsAreSound
BY TypeCorrect, ResultsNeedApproval, PTL DEF ReceiptsAreSound

(***************************************************************************)
(* One request at a time.  A plan's record, the queue and the log are      *)
(* written by different events, and the handler that runs through a plan's *)
(* steps takes the last proposal or receipt for its own.  As long as no    *)
(* two requests overlap that is right, and the invariant says why: STATE   *)
(* is whole between events, and the one request under way finds what it    *)
(* checked when it began, with the proposals or receipts it has collected  *)
(* so far not yet in the plan's record.                                    *)
(***************************************************************************)

-----------------------------------------------------------------------------
\* What is whole, and what fits it.

\* The step that a proposal was made for names it.
IsRecorded(s, id) ==
    /\ PlanIndex(s, id.plan) # 0
    /\ id.step \in DOMAIN StepsOf(s, id.plan)
    /\ StepsOf(s, id.plan)[id.step].proposal = id

\* Every proposal of a plan is recorded by the plan, but for those of a request under way.
AllRecorded(s, ids) ==
    \A i \in DOMAIN s.queue :
        s.queue[i].id.plan # NoPlan => IsRecorded(s, s.queue[i].id) \/ s.queue[i].id \in ids

\* What a step's record says is true, and of the plan's tools.
StepIsWhole(s, plan, k) ==
    LET step == plan.steps[k]
    IN  /\ StepRecordIsTrue(s, plan, k)
        /\ k \in DOMAIN PlanTools[plan.plan] /\ step.tool = PlanTools[plan.plan][k]
        /\ step.proposal # NoProposal => ProposalOf(s, step.proposal).tool = step.tool
        /\ step.receipt # NoReceipt =>
              step.receipt.status \in Useful \/ step.tool = "boh.retrieve_proposed"

RecordsAreWhole(s) ==
    /\ \A i, j \in DOMAIN s.plans : s.plans[i].plan = s.plans[j].plan => i = j
    /\ \A i \in DOMAIN s.queue : s.queue[i].id.index = i
    /\ \A i \in DOMAIN s.audit : HasProposal(s, s.audit[i].proposal)
    /\ \A i \in DOMAIN s.plans : \A k \in DOMAIN s.plans[i].steps : StepIsWhole(s, s.plans[i], k)
    /\ NoStepQueuedTwice(s)

\* The proposals a request has queued for a plan.
QueueDone(s, p, done) ==
    /\ HasPlan(s, p, "approved")
    /\ \A d \in DOMAIN done :
          LET id == done[d].proposal
          IN  /\ done[d].step \in ToQueue(StepsOf(s, p), 0)
              /\ HasProposal(s, id) /\ id.plan = p /\ id.step = done[d].step
              /\ ProposalOf(s, id).tool = StepsOf(s, p)[id.step].tool
    /\ AllRecorded(s, {done[d].proposal : d \in DOMAIN done})

\* The receipts a request has asked for.
ExecutionDone(s, p, done) ==
    /\ HasPlan(s, p, "approved")
    /\ \A d \in DOMAIN done :
          /\ done[d].receipt \in Range(s.audit)
          /\ done[d].receipt.proposal = done[d].proposal
          /\ HasReview(s, done[d].proposal, "approved")
          /\ \/ done[d].receipt.status \in Useful
             \/ ProposalOf(s, done[d].proposal).tool = "boh.retrieve_proposed"
    /\ AllRecorded(s, {})

\* What a handler checked before it built its event still holds.
EventFits(s, e) ==
    /\ e.type # "tool_plan_step_queue" => AllRecorded(s, {})
    /\ e.type = "user_intent" => e.plan = NoPlan
    /\ e.type = "proposal_review" =>
          HasReview(s, e.id, "pending") /\ e.decision \in {"approved", "denied"}
    /\ e.type = "execution_request" =>
          HasProposal(s, e.id) /\ e = ExecutionRequest(ProposalOf(s, e.id))
    /\ e.type = "tool_plan" => PlanIndex(s, e.plan) = 0
    /\ e.type = "tool_plan_review" => HasPlan(s, e.plan, "pending")
    /\ e.type = "tool_plan_step_queue" => QueueDone(s, e.plan, e.done)
    /\ e.type = "tool_plan_execution_request" => ExecutionDone(s, e.plan, e.done)
    /\ e.type = "tool_plan_result_binding" =>
          HasPlan(s, e.plan, "approved") /\ e.ids = Bindable(s, StepsOf(s, e.plan))

CollectedProposal(s, w) ==
    Append(w.done, [step |-> w.at, proposal |-> Last(s.queue).id, receipt |-> NoReceipt])

CollectedReceipt(s, w) ==
    Append(w.done, [step |-> w.at, proposal |-> w.steps[w.at].proposal, receipt |-> Last(s.audit)])

QueueJobFits(s, at, w, e) ==
    /\ HasPlan(s, w.plan, "approved") /\ w.steps = StepsOf(s, w.plan)
    /\ w.at \in ToQueue(w.steps, 0)
    /\ \A d \in DOMAIN w.done : w.done[d].step < w.at
    /\ at # "stored" => e = StepIntent(w.plan, w.steps, w.at) /\ QueueDone(s, w.plan, w.done)
    /\ at = "stored" => s.queue # <<>> /\ QueueDone(s, w.plan, CollectedProposal(s, w))

ExecutionJobFits(s, at, w, e) ==
    /\ HasPlan(s, w.plan, "approved") /\ w.steps = StepsOf(s, w.plan)
    /\ w.at \in DOMAIN w.steps /\ HasReview(s, w.steps[w.at].proposal, "approved")
    /\ at # "stored" => /\ e = ExecutionRequest(ProposalOf(s, w.steps[w.at].proposal))
                        /\ ExecutionDone(s, w.plan, w.done)
    /\ at = "stored" => s.audit # <<>> /\ ExecutionDone(s, w.plan, CollectedReceipt(s, w))

JobFits(s, at, w, e) ==
    /\ w.job = "single" => at # "stored" /\ EventFits(s, e)
    /\ w.job = "queue_steps" => QueueJobFits(s, at, w, e)
    /\ w.job = "request_execution" => ExecutionJobFits(s, at, w, e)

Serial ==
    overlaps = 0 =>
        /\ RecordsAreWhole(state)
        /\ (\A c \in Clients : pc[c] = "idle") => AllRecorded(state, {})
        /\ \A c \in Clients : pc[c] # "idle" =>
              /\ \A d \in Clients : d # c => pc[d] = "idle"
              /\ pc[c] = "read" => base[c] = state
              /\ JobFits(state, pc[c], work[c], event[c])

-----------------------------------------------------------------------------
\* Lookups once more.

\* Where no two plans share an id, the first with the id of a plan is that plan.
LEMMA PlanIsFirst ==
    ASSUME NEW s \in State, \A i, j \in DOMAIN s.plans : s.plans[i].plan = s.plans[j].plan => i = j,
           NEW i \in DOMAIN s.plans
    PROVE  PlanIndex(s, s.plans[i].plan) = i /\ i # 0
<1> DEFINE p == s.plans[i].plan
           first == {k \in DOMAIN s.plans : /\ s.plans[k].plan = p
                                            /\ \A j \in 1..(k - 1) : s.plans[j].plan # p}
<1>1. DOMAIN s.plans = 1 .. Len(s.plans) /\ Len(s.plans) \in Nat
  BY StateParts
<1>2. first = {i}
  <2>1. \A k \in first : k = i
    OBVIOUS
  <2>2. i \in first
    <3>1. \A j \in 1..(i - 1) : j \in DOMAIN s.plans /\ j # i
      BY <1>1
    <3> QED
      BY <3>1
  <2> QED
    BY <2>1, <2>2
<1>3. PlanIndex(s, p) = IF first = {} THEN 0 ELSE CHOOSE k \in first : TRUE
  BY DEF PlanIndex
<1> HIDE DEF first, p
<1>4. PlanIndex(s, p) = i
  BY <1>2, <1>3
<1> QED
  BY <1>1, <1>4 DEF p

\* Lookups of plans look at the plans only.
LEMMA SamePlans ==
    ASSUME NEW s, NEW t, t.plans = s.plans
    PROVE  /\ \A p : PlanIndex(t, p) = PlanIndex(s, p) /\ StepsOf(t, p) = StepsOf(s, p)
           /\ \A p, review : HasPlan(t, p, review) = HasPlan(s, p, review)
           /\ \A id : IsRecorded(t, id) = IsRecorded(s, id)
<1>1. \A p : PlanIndex(t, p) = PlanIndex(s, p)
  BY DEF PlanIndex
<1>2. \A p : StepsOf(t, p) = StepsOf(s, p)
  BY <1>1 DEF StepsOf
<1> QED
  BY <1>1, <1>2 DEF HasPlan, IsRecorded

\* A step's receipts are useful if the one it names is, or else the last of its proposal.
LEMMA UsefulIsLast ==
    ASSUME NEW s \in State, NEW step
    PROVE  HasUsefulReceipt(s, step) <=>
              \/ /\ step.receipt # NoReceipt
                 /\ step.receipt \in Range(s.audit) /\ step.receipt.status \in Useful
              \/ /\ step.receipt = NoReceipt
                 /\ \E i \in DOMAIN s.audit :
                       /\ s.audit[i].proposal = step.proposal /\ s.audit[i].status \in Useful
                       /\ \A j \in DOMAIN s.audit : s.audit[j].proposal = step.proposal => j <= i
<1> DEFINE own == {i \in DOMAIN s.audit : s.audit[i].proposal = step.proposal}
           last == {i \in own : \A j \in own : j <= i}
<1>1. CASE step.receipt # NoReceipt
  BY <1>1 DEF HasUsefulReceipt
<1>2. CASE step.receipt = NoReceipt
  <2>1. HasUsefulReceipt(s, step) = (LastDone(s.audit, own, NoReceipt).status \in Useful)
    BY <1>2 DEF HasUsefulReceipt
  <2>2. LastDone(s.audit, own, NoReceipt) =
           IF last = {} THEN NoReceipt ELSE s.audit[CHOOSE i \in last : TRUE]
    BY DEF LastDone
  <2>3. NoReceipt.status \notin Useful
    BY DEF NoReceipt, Useful
  <2>4. DOMAIN s.audit \subseteq Nat
    BY StateParts
  <2>5. \A i, j \in last : i = j
    BY <2>4
  <2>6. ASSUME NEW i \in last
        PROVE  HasUsefulReceipt(s, step) = (s.audit[i].status \in Useful)
    <3>1. (CHOOSE k \in last : TRUE) = i
      BY <2>5
    <3> HIDE DEF last
    <3> QED
      BY <2>1, <2>2, <3>1
  <2>7. ASSUME last = {}
        PROVE  ~ HasUsefulReceipt(s, step)
    BY <2>1, <2>2, <2>3, <2>7
  <2>8. \A i : i \in last <=> /\ i \in DOMAIN s.audit /\ s.audit[i].proposal = step.proposal
                              /\ \A j \in DOMAIN s.audit : s.audit[j].proposal = step.proposal => j <= i
    OBVIOUS
  <2> HIDE DEF last, own
  <2> QED
    BY <1>2, <2>6, <2>7, <2>8
<1> QED
  BY <1>1, <1>2

\* A receipt more leaves what was useful useful: its proposal is approved still.
LEMMA ReceiptKeepsUseful ==
    ASSUME NEW s \in State, NEW t \in State, ReceiptsAreTrue(s), NEW new,
           t.audit = Append(s.audit, new), HasProposal(s, new.proposal),
           LET proposal == ProposalOf(s, new.proposal)
           IN  new.status = ExecutionStatus(proposal, ExecutionRequest(proposal).result),
           NEW step, HasUsefulReceipt(s, step)
    PROVE  HasUsefulReceipt(t, step)
<1>1. /\ DOMAIN t.audit = 1 .. (Len(s.audit) + 1) /\ DOMAIN s.audit = 1 .. Len(s.audit)
      /\ Len(s.audit) \in Nat
      /\ \A i \in DOMAIN s.audit : t.audit[i] = s.audit[i]
      /\ t.audit[Len(s.audit) + 1] = new
  BY StateParts
<1>2. CASE step.receipt # NoReceipt
  <2>1. Range(s.audit) \subseteq Range(t.audit)
    BY <1>1 DEF Range
  <2> QED
    BY <1>2, <2>1, UsefulIsLast
<1>3. CASE step.receipt = NoReceipt
  <2>1. PICK i \in DOMAIN s.audit :
           /\ s.audit[i].proposal = step.proposal /\ s.audit[i].status \in Useful
           /\ \A j \in DOMAIN s.audit : s.audit[j].proposal = step.proposal => j <= i
    BY <1>3, UsefulIsLast
  <2>2. CASE new.proposal # step.proposal
    <3>1. /\ i \in DOMAIN t.audit /\ t.audit[i] = s.audit[i]
          /\ \A j \in DOMAIN t.audit : t.audit[j].proposal = step.proposal => j <= i
      BY <1>1, <2>1, <2>2
    <3> QED
      BY <1>3, <2>1, <3>1, UsefulIsLast
  <2>3. CASE new.proposal = step.proposal
    <3> DEFINE proposal == ProposalOf(s, new.proposal)
    <3>1. ReceiptIsTrue(s, s.audit[i])
      BY DEF ReceiptsAreTrue
    <3>2. /\ proposal.review = "approved"
          /\ proposal.tool \in {"filesystem.read", "text.summarize"}
      BY <2>1, <2>3, <3>1 DEF ReceiptIsTrue, Useful, HasReview
    <3>3. ExecutionRequest(proposal).result =
             (proposal.review = "approved" /\ proposal.tool = "filesystem.read")
      BY DEF ExecutionRequest
    <3>4. new.status = ExecutionStatus(proposal, ExecutionRequest(proposal).result)
      OBVIOUS
    <3> HIDE DEF proposal
    <3>5. new.status \in Useful
      <4>1. CASE proposal.tool = "filesystem.read"
        BY <3>2, <3>3, <3>4, <4>1 DEF ExecutionStatus, Useful
      <4>2. CASE proposal.tool = "text.summarize"
        BY <3>2, <3>3, <3>4, <4>2 DEF ExecutionStatus, Useful
      <4> QED
        BY <3>2, <4>1, <4>2
    <3> DEFINE n == Len(s.audit) + 1
    <3>6. /\ n \in DOMAIN t.audit /\ t.audit[n] = new
          /\ \A j \in DOMAIN t.audit : j <= n
      BY <1>1
    <3> HIDE DEF n
    <3> QED
      BY <1>3, <2>3, <3>5, <3>6, UsefulIsLast
  <2> QED
    BY <2>2, <2>3
<1> QED
  BY <1>2, <1>3

-----------------------------------------------------------------------------
\* Events that leave the plans alone.

\* Proposals stay at their places, those that are approved approved.
KeepsQueue(s, t) ==
    \A i \in DOMAIN s.queue :
        /\ i \in DOMAIN t.queue
        /\ t.queue[i].id = s.queue[i].id /\ t.queue[i].tool = s.queue[i].tool
        /\ s.queue[i].review = "approved" => t.queue[i].review = "approved"

LEMMA KeptQueue ==
    ASSUME NEW s, NEW t, KeepsQueue(s, t), NEW id
    PROVE  /\ HasProposal(s, id) => /\ HasProposal(t, id)
                                    /\ ProposalOf(t, id).tool = ProposalOf(s, id).tool
           /\ HasReview(s, id, "approved") => HasReview(t, id, "approved")
BY DEF KeepsQueue, HasProposal, HasReview, ProposalOf

\* What plans record stays true when proposals and receipts are added or reviewed.
LEMMA QueueSide ==
    ASSUME NEW s \in State, NEW t \in State, RecordsAreWhole(s), t.plans = s.plans,
           KeepsQueue(s, t),
           \A i \in DOMAIN t.queue : t.queue[i].id.index = i,
           NoStepQueuedTwice(t),
           Range(s.audit) \subseteq Range(t.audit),
           \A i \in DOMAIN t.audit : HasProposal(t, t.audit[i].proposal),
           \A step : HasUsefulReceipt(s, step) => HasUsefulReceipt(t, step)
    PROVE  RecordsAreWhole(t)
<1> SUFFICES ASSUME NEW i \in DOMAIN t.plans, NEW k \in DOMAIN t.plans[i].steps
             PROVE  StepIsWhole(t, t.plans[i], k)
  BY DEF RecordsAreWhole
<1> DEFINE plan == s.plans[i]
<1>1. StepIsWhole(s, plan, k)
  BY DEF RecordsAreWhole
<1> HIDE DEF plan
<1>2. StepRecordIsTrue(t, plan, k)
  BY <1>1, KeptQueue DEF StepIsWhole, StepRecordIsTrue
<1>3. StepIsWhole(t, plan, k)
  <2>1. plan.steps[k].proposal # NoProposal => HasProposal(s, plan.steps[k].proposal)
    BY <1>1 DEF StepIsWhole, StepRecordIsTrue
  <2> QED
    BY <1>1, <1>2, <2>1, KeptQueue DEF StepIsWhole
<1> QED
  BY <1>3 DEF plan

\* The receipts are the same, so are those that are useful.
LEMMA SameAudit ==
    ASSUME NEW s, NEW t, t.audit = s.audit
    PROVE  \A step : HasUsefulReceipt(t, step) = HasUsefulReceipt(s, step)
BY DEF HasUsefulReceipt

\* A proposal for nothing yet asked for.
LEMMA IntentKeepsRecords ==
    ASSUME NEW s \in State, NEW e \in Event, e.type = "user_intent", RecordsAreWhole(s),
           e.plan # NoPlan => \A i \in DOMAIN s.queue :
                                 ~ (s.queue[i].id.plan = e.plan /\ s.queue[i].id.step = e.step)
    PROVE  LET t == ReduceIntent(s, e)
               id == Last(t.queue).id
           IN  /\ RecordsAreWhole(t) /\ t.plans = s.plans /\ t.queue # <<>>
               /\ KeepsQueue(s, t)
               /\ HasProposal(t, id) /\ id.plan = e.plan /\ id.step = e.step
               /\ ProposalOf(t, id).tool = e.tool
               /\ \A ids : AllRecorded(s, ids) => AllRecorded(t, ids \cup {id})
               /\ e.plan = NoPlan => \A ids : AllRecorded(s, ids) => AllRecorded(t, ids)
<1> DEFINE t == ReduceIntent(s, e)
           n == Len(s.queue) + 1
           newId == [index |-> n, plan |-> e.plan, step |-> e.step, class |-> ActionClass(e.tool)]
           new == [id |-> newId, tool |-> e.tool, review |-> "pending", bound |-> FALSE]
<1>1. t = [s EXCEPT !.queue = Append(s.queue, new)]
  BY DEF ReduceIntent
<1>2. t \in State
  BY IntentType
<1>3. t.audit = s.audit /\ t.queue = Append(s.queue, new) /\ t.plans = s.plans
  BY <1>1, StateParts
<1>n. new.id = newId /\ new.tool = e.tool /\ newId.index = n /\ newId.plan = e.plan /\ newId.step = e.step
  OBVIOUS
<1> HIDE DEF t, new, newId
<1>4. /\ DOMAIN t.queue = 1 .. n /\ n \in Nat /\ DOMAIN s.queue = 1 .. (n - 1)
      /\ \A i \in DOMAIN s.queue : t.queue[i] = s.queue[i]
      /\ t.queue[n] = new
      /\ Len(t.queue) = n /\ t.queue # <<>>
  BY <1>3, StateParts
<1>5. Last(t.queue) = new
  BY <1>4 DEF Last
<1> HIDE DEF n
<1>6. KeepsQueue(s, t)
  BY <1>4 DEF KeepsQueue
<1>7. HasProposal(t, newId) /\ ProposalOf(t, newId) = new
  BY <1>4, <1>n DEF HasProposal, ProposalOf
<1>8. RecordsAreWhole(t)
  <2>1. \A i \in DOMAIN t.queue : t.queue[i].id.index = i
    BY <1>4, <1>n DEF RecordsAreWhole
  <2>2. NoStepQueuedTwice(t)
    <3>1. NoStepQueuedTwice(s)
      BY DEF RecordsAreWhole
    <3>2. \A i \in DOMAIN t.queue : i = n \/ i \in DOMAIN s.queue
      BY <1>4
    <3>3. \A i \in DOMAIN s.queue : e.plan # NoPlan =>
             ~ (t.queue[i].id.plan = newId.plan /\ t.queue[i].id.step = newId.step)
      BY <1>4, <1>n
    <3>4. t.queue[n].id = newId
      BY <1>4, <1>n
    <3>5. newId.plan = e.plan
      BY <1>n
    <3> QED
      BY <1>4, <3>1, <3>2, <3>3, <3>4, <3>5 DEF NoStepQueuedTwice
  <2>3. \A i \in DOMAIN t.audit : HasProposal(t, t.audit[i].proposal)
    BY <1>3, <1>6, KeptQueue DEF RecordsAreWhole
  <2>4. \A step : HasUsefulReceipt(s, step) => HasUsefulReceipt(t, step)
    BY <1>3, SameAudit
  <2>5. Range(s.audit) \subseteq Range(t.audit)
    BY <1>3
  <2> QED
    BY <1>2, <1>3, <1>6, <2>1, <2>2, <2>3, <2>4, <2>5, QueueSide
<1>9. \A ids : AllRecorded(s, ids) => AllRecorded(t, ids \cup {newId})
  <2>1. \A i \in DOMAIN t.queue : t.queue[i].id = newId \/ (i \in DOMAIN s.queue /\ t.queue[i] = s.queue[i])
    BY <1>4, <1>n
  <2> QED
    BY <1>3, <2>1, SamePlans DEF AllRecorded
<1>10. e.plan = NoPlan => \A ids : AllRecorded(s, ids) => AllRecorded(t, ids)
  <2>1. \A i \in DOMAIN t.queue : t.queue[i].id = newId \/ (i \in DOMAIN s.queue /\ t.queue[i] = s.queue[i])
    BY <1>4, <1>n
  <2> QED
    BY <1>3, <1>n, <2>1, SamePlans DEF AllRecorded
<1>11. Last(t.queue).id = newId
  BY <1>5, <1>n
<1> QED
  BY <1>3, <1>4, <1>6, <1>7, <1>8, <1>9, <1>10, <1>11, <1>n DEF t

\* A review of a pending proposal.
LEMMA ProposalReviewKeepsRecords ==
    ASSUME NEW s \in State, NEW e \in Event, e.type = "proposal_review", RecordsAreWhole(s),
           HasReview(s, e.id, "pending")
    PROVE  LET t == ReduceProposalReview(s, e)
           IN  /\ RecordsAreWhole(t)
               /\ \A ids : AllRecorded(s, ids) => AllRecorded(t, ids)
<1> DEFINE t == ReduceProposalReview(s, e)
           n == e.id.index
<1>1. t = [s EXCEPT !.queue[n].review = e.decision]
  BY DEF ReduceProposalReview
<1>2. t \in State
  BY ProposalReviewType
<1>3. /\ t.audit = s.audit /\ t.plans = s.plans
      /\ t.queue = [s.queue EXCEPT ![n] = [s.queue[n] EXCEPT !.review = e.decision]]
  BY <1>1, StateParts
<1>4. n \in DOMAIN s.queue /\ s.queue[n].review = "pending"
  BY DEF HasReview, HasProposal, ProposalOf
<1> HIDE DEF t, n
<1>5. /\ DOMAIN t.queue = DOMAIN s.queue
      /\ \A i \in DOMAIN s.queue : t.queue[i].id = s.queue[i].id /\ t.queue[i].tool = s.queue[i].tool
      /\ \A i \in DOMAIN s.queue : i # n => t.queue[i] = s.queue[i]
  <2>1. s.queue[n] \in Proposal
    BY <1>4, StateParts
  <2>2. /\ [s.queue[n] EXCEPT !.review = e.decision].id = s.queue[n].id
        /\ [s.queue[n] EXCEPT !.review = e.decision].tool = s.queue[n].tool
    BY <2>1 DEF Proposal
  <2> QED
    BY <1>3, <1>4, <2>2
<1>6. KeepsQueue(s, t)
  BY <1>4, <1>5 DEF KeepsQueue
<1>7. RecordsAreWhole(t)
  <2>1. \A i \in DOMAIN t.queue : t.queue[i].id.index = i
    BY <1>5 DEF RecordsAreWhole
  <2>2. NoStepQueuedTwice(t)
    BY <1>5 DEF RecordsAreWhole, NoStepQueuedTwice
  <2>3. \A i \in DOMAIN t.audit : HasProposal(t, t.audit[i].proposal)
    BY <1>3, <1>6, KeptQueue DEF RecordsAreWhole
  <2>4. \A step : HasUsefulReceipt(s, step) => HasUsefulReceipt(t, step)
    BY <1>3, SameAudit
  <2>5. Range(s.audit) \subseteq Range(t.audit)
    BY <1>3
  <2> QED
    BY <1>2, <1>3, <1>6, <2>1, <2>2, <2>3, <2>4, <2>5, QueueSide
<1>8. \A ids : AllRecorded(s, ids) => AllRecorded(t, ids)
  BY <1>3, <1>5, SamePlans DEF AllRecorded
<1> QED
  BY <1>7, <1>8 DEF t

\* A sequence and one element more.
LEMMA OneMore ==
    ASSUME NEW S, NEW seq \in Seq(S), NEW new
    PROVE  LET n == Len(seq) + 1
               more == Append(seq, new)
           IN  /\ DOMAIN more = 1 .. n /\ n \in Nat /\ DOMAIN seq = 1 .. (n - 1)
               /\ \A i \in DOMAIN seq : more[i] = seq[i]
               /\ more[n] = new
               /\ Len(more) = n /\ more # <<>>
OBVIOUS

\* A receipt that says what the review of its proposal allows.
LEMMA ExecutionKeepsRecords ==
    ASSUME NEW s \in State, NEW e \in Event, e.type = "execution_request", RecordsAreWhole(s),
           ReceiptsAreTrue(s), HasProposal(s, e.id), e = ExecutionRequest(ProposalOf(s, e.id))
    PROVE  LET t == ReduceExecutionRequest(s, e)
               r == Last(t.audit)
           IN  /\ RecordsAreWhole(t) /\ t.plans = s.plans /\ t.audit # <<>> /\ t.queue = s.queue
               /\ Range(s.audit) \subseteq Range(t.audit)
               /\ r \in Range(t.audit) /\ r.proposal = e.id
               /\ HasReview(s, e.id, "approved") =>
                     r.status \in Useful \/ ProposalOf(s, e.id).tool = "boh.retrieve_proposed"
               /\ \A ids : AllRecorded(s, ids) => AllRecorded(t, ids)
<1> DEFINE t == ReduceExecutionRequest(s, e)
           n == Len(s.audit) + 1
           status == ExecutionStatus(ProposalOf(s, e.id), e.result)
           new == [index |-> n, proposal |-> e.id, status |-> status]
<1>1. t = [s EXCEPT !.audit = Append(s.audit, new)]
  BY DEF ReduceExecutionRequest
<1>2. t \in State
  BY ExecutionRequestType
<1>3. t.queue = s.queue /\ t.audit = Append(s.audit, new) /\ t.plans = s.plans
  BY <1>1, StateParts
<1>n. new.proposal = e.id /\ new.status = status
  OBVIOUS
<1> HIDE DEF t, new
<1>4. /\ DOMAIN t.audit = 1 .. n /\ n \in Nat /\ DOMAIN s.audit = 1 .. (n - 1)
      /\ \A i \in DOMAIN s.audit : t.audit[i] = s.audit[i]
      /\ t.audit[n] = new
      /\ Len(t.audit) = n /\ t.audit # <<>>
  <2>1. s.audit \in Seq(Receipt)
    BY StateParts
  <2> QED
    BY <1>3, <2>1, OneMore
<1>5. Last(t.audit) = new
  BY <1>4 DEF Last
<1> HIDE DEF n
<1>6. Range(s.audit) \subseteq Range(t.audit) /\ new \in Range(t.audit)
  BY <1>4 DEF Range
<1>7. KeepsQueue(s, t)
  BY <1>3 DEF KeepsQueue
<1>8. RecordsAreWhole(t)
  <2>1. \A i \in DOMAIN t.queue : t.queue[i].id.index = i
    BY <1>3 DEF RecordsAreWhole
  <2>2. NoStepQueuedTwice(t)
    BY <1>3 DEF RecordsAreWhole, NoStepQueuedTwice
  <2>3. \A i \in DOMAIN t.audit : HasProposal(t, t.audit[i].proposal)
    <3>1. \A i \in DOMAIN t.audit : t.audit[i] = new \/ (i \in DOMAIN s.audit /\ t.audit[i] = s.audit[i])
      BY <1>4
    <3>2. \A i \in DOMAIN s.audit : HasProposal(s, s.audit[i].proposal)
      BY DEF RecordsAreWhole
    <3> QED
      BY <1>7, <1>n, <3>1, <3>2, KeptQueue
  <2>4. \A step : HasUsefulReceipt(s, step) => HasUsefulReceipt(t, step)
    <3>1. /\ HasProposal(s, new.proposal)
          /\ LET proposal == ProposalOf(s, new.proposal)
             IN  new.status = ExecutionStatus(proposal, ExecutionRequest(proposal).result)
      BY <1>n
    <3> QED
      BY <1>2, <1>3, <3>1, ReceiptKeepsUseful
  <2> QED
    BY <1>2, <1>3, <1>6, <1>7, <2>1, <2>2, <2>3, <2>4, QueueSide
<1>9. \A ids : AllRecorded(s, ids) => AllRecorded(t, ids)
  BY <1>3, SamePlans DEF AllRecorded
<1>10. ASSUME HasReview(s, e.id, "approved")
       PROVE  status \in Useful \/ ProposalOf(s, e.id).tool = "boh.retrieve_proposed"
  <2> DEFINE proposal == ProposalOf(s, e.id)
  <2>1. proposal \in Proposal
    BY StateParts DEF HasProposal, ProposalOf
  <2>2. proposal.tool \in Tools /\ proposal.review = "approved"
    BY <1>10, <2>1 DEF HasReview, Proposal
  <2>3. e.result = (proposal.review = "approved" /\ proposal.tool = "filesystem.read")
    BY DEF ExecutionRequest
  <2>4. status = ExecutionStatus(proposal, e.result)
    OBVIOUS
  <2> HIDE DEF proposal, status
  <2>5. status \in Useful \/ proposal.tool = "boh.retrieve_proposed"
    <3>1. CASE proposal.tool = "filesystem.read"
      BY <2>2, <2>3, <2>4, <3>1 DEF ExecutionStatus, Useful
    <3>2. CASE proposal.tool = "text.summarize"
      BY <2>2, <2>3, <2>4, <3>2 DEF ExecutionStatus, Useful
    <3> QED
      BY <2>2, <3>1, <3>2 DEF Tools
  <2> QED
    BY <2>5 DEF proposal
<1> HIDE DEF status
<1> QED
  BY <1>3, <1>4, <1>5, <1>6, <1>8, <1>9, <1>10, <1>n DEF t

-----------------------------------------------------------------------------
\* Events that rewrite a plan.

\* Proposals and receipts are the same, but for what a proposal is asked with.
SameProposals(s, t) ==
    /\ t.audit = s.audit
    /\ DOMAIN t.queue = DOMAIN s.queue
    /\ \A i \in DOMAIN s.queue :
          /\ t.queue[i].id = s.queue[i].id /\ t.queue[i].tool = s.queue[i].tool
          /\ t.queue[i].review = s.queue[i].review

\* Then so is what plans look up.
LEMMA SameLookups ==
    ASSUME NEW s, NEW t, SameProposals(s, t)
    PROVE  /\ \A id : HasProposal(t, id) = HasProposal(s, id)
           /\ \A id : HasProposal(s, id) => ProposalOf(t, id).tool = ProposalOf(s, id).tool
           /\ \A id, review : HasReview(t, id, review) = HasReview(s, id, review)
           /\ \A step : HasUsefulReceipt(t, step) = HasUsefulReceipt(s, step)
<1>1. \A id : HasProposal(t, id) = HasProposal(s, id)
  BY DEF SameProposals, HasProposal
<1>2. \A id : HasProposal(s, id) => /\ ProposalOf(t, id).tool = ProposalOf(s, id).tool
                                    /\ ProposalOf(t, id).review = ProposalOf(s, id).review
  BY DEF SameProposals, HasProposal, ProposalOf
<1>3. t.audit = s.audit
  BY DEF SameProposals
<1> QED
  BY <1>1, <1>2, <1>3, SameAudit DEF HasReview

\* A step that is whole has a proposal in the queue, or none and nothing that came of it.
LEMMA StepWithoutProposal ==
    ASSUME NEW s \in State, RecordsAreWhole(s)
    PROVE  /\ ~ HasProposal(s, NoProposal)
           /\ \A plan, k : StepIsWhole(s, plan, k) /\ plan.steps[k].proposal = NoProposal =>
                 plan.steps[k].receipt = NoReceipt /\ ~ HasUsefulReceipt(s, plan.steps[k])
<1>1. ~ HasProposal(s, NoProposal)
  <2>1. 0 \notin DOMAIN s.queue
    BY StateParts
  <2> QED
    BY <2>1 DEF HasProposal, NoProposal
<1>2. ASSUME NEW plan, NEW k, StepIsWhole(s, plan, k), plan.steps[k].proposal = NoProposal
      PROVE  plan.steps[k].receipt = NoReceipt /\ ~ HasUsefulReceipt(s, plan.steps[k])
  <2>1. plan.steps[k].receipt = NoReceipt
    BY <1>1, <1>2 DEF StepIsWhole, StepRecordIsTrue, HasReview
  <2>2. \A i \in DOMAIN s.audit : s.audit[i].proposal # NoProposal
    BY <1>1 DEF RecordsAreWhole
  <2> QED
    BY <1>2, <2>1, <2>2, UsefulIsLast
<1> QED
  BY <1>1, <1>2

\* So what is whole stays whole.
LEMMA StepStaysWhole ==
    ASSUME NEW s, NEW t, SameProposals(s, t), NEW plan, NEW k, StepIsWhole(s, plan, k)
    PROVE  StepIsWhole(t, plan, k)
<1>1. StepRecordIsTrue(t, plan, k)
  <2>1. t.audit = s.audit
    BY DEF SameProposals
  <2> QED
    BY <2>1, SameLookups DEF StepIsWhole, StepRecordIsTrue
<1>2. plan.steps[k].proposal # NoProposal => HasProposal(s, plan.steps[k].proposal)
  BY DEF StepIsWhole, StepRecordIsTrue
<1> QED
  BY <1>1, <1>2, SameLookups DEF StepIsWhole

\* One plan is rewritten: the others stay as they are, and all stay where they are.
LEMMA PlanSide ==
    ASSUME NEW s \in State, NEW t \in State, RecordsAreWhole(s), SameProposals(s, t),
           NEW x \in DOMAIN s.plans, DOMAIN t.plans = DOMAIN s.plans,
           \A i \in DOMAIN s.plans : i # x => t.plans[i] = s.plans[i],
           t.plans[x].plan = s.plans[x].plan,
           \A k \in DOMAIN t.plans[x].steps : StepIsWhole(s, t.plans[x], k),
           \A k \in DOMAIN s.plans[x].steps :
              /\ k \in DOMAIN t.plans[x].steps
              /\ s.plans[x].steps[k].proposal # NoProposal =>
                    t.plans[x].steps[k].proposal = s.plans[x].steps[k].proposal
    PROVE  /\ RecordsAreWhole(t)
           /\ \A ids : AllRecorded(s, ids) => AllRecorded(t, ids)
           /\ \A p : PlanIndex(t, p) = PlanIndex(s, p)
<1>1. \A i \in DOMAIN s.plans : t.plans[i].plan = s.plans[i].plan
  OBVIOUS
<1>2. \A p : PlanIndex(t, p) = PlanIndex(s, p)
  <2>1. DOMAIN s.plans = 1 .. Len(s.plans) /\ Len(s.plans) \in Nat
    BY StateParts
  <2> SUFFICES ASSUME NEW p PROVE PlanIndex(t, p) = PlanIndex(s, p)
    OBVIOUS
  <2> DEFINE First(u) == {i \in DOMAIN u.plans : /\ u.plans[i].plan = p
                                                 /\ \A j \in 1..(i - 1) : u.plans[j].plan # p}
  <2>2. First(t) = First(s)
    <3>1. \A i \in DOMAIN s.plans : \A j \in 1..(i - 1) : j \in DOMAIN s.plans
      BY <2>1
    <3> QED
      BY <1>1, <3>1
  <2>3. \A u : PlanIndex(u, p) = IF First(u) = {} THEN 0 ELSE CHOOSE i \in First(u) : TRUE
    BY DEF PlanIndex
  <2> HIDE DEF First
  <2> QED
    BY <2>2, <2>3
<1>4. RecordsAreWhole(t)
  <2>1. \A i, j \in DOMAIN t.plans : t.plans[i].plan = t.plans[j].plan => i = j
    BY <1>1 DEF RecordsAreWhole
  <2>2. \A i \in DOMAIN t.queue : t.queue[i].id.index = i
    BY DEF RecordsAreWhole, SameProposals
  <2>3. NoStepQueuedTwice(t)
    BY DEF RecordsAreWhole, SameProposals, NoStepQueuedTwice
  <2>4. \A i \in DOMAIN t.audit : HasProposal(t, t.audit[i].proposal)
    <3>1. t.audit = s.audit
      BY DEF SameProposals
    <3> QED
      BY <3>1, SameLookups DEF RecordsAreWhole
  <2>5. \A i \in DOMAIN t.plans : \A k \in DOMAIN t.plans[i].steps : StepIsWhole(t, t.plans[i], k)
    BY StepStaysWhole DEF RecordsAreWhole
  <2> QED
    BY <2>1, <2>2, <2>3, <2>4, <2>5 DEF RecordsAreWhole
<1>5. ASSUME NEW i \in DOMAIN s.queue, IsRecorded(s, s.queue[i].id)
      PROVE  IsRecorded(t, s.queue[i].id)
  <2> DEFINE id == s.queue[i].id
  <2>1. id # NoProposal
    <3>1. id.index = i /\ i # 0
      BY StateParts DEF RecordsAreWhole
    <3> QED
      BY <3>1 DEF NoProposal
  <2>2. /\ PlanIndex(s, id.plan) # 0
        /\ id.step \in DOMAIN StepsOf(s, id.plan)
        /\ StepsOf(s, id.plan)[id.step].proposal = id
    BY <1>5 DEF IsRecorded
  <2>3. PlanIndex(s, id.plan) \in DOMAIN s.plans
    BY <2>2 DEF PlanIndex
  <2> HIDE DEF id
  <2> DEFINE y == PlanIndex(s, id.plan)
  <2>y. PlanIndex(t, id.plan) = y
    BY <1>2
  <2>4. y # 0 /\ id.step \in DOMAIN s.plans[y].steps /\ s.plans[y].steps[id.step].proposal = id
    BY <2>2 DEF StepsOf
  <2> HIDE DEF y
  <2>5. id.step \in DOMAIN t.plans[y].steps /\ t.plans[y].steps[id.step].proposal = id
    <3>1. CASE y = x
      BY <2>1, <2>4, <3>1
    <3>2. CASE y # x
      BY <2>3, <2>4, <3>2 DEF y
    <3> QED
      BY <3>1, <3>2
  <2>6. IsRecorded(t, id)
    BY <2>y, <2>4, <2>5 DEF IsRecorded, StepsOf
  <2> QED
    BY <2>6 DEF id
<1>6. \A ids : AllRecorded(s, ids) => AllRecorded(t, ids)
  BY <1>5 DEF AllRecorded, SameProposals
<1> QED
  BY <1>2, <1>4, <1>6

\* A state in which one plan has another review, or other steps.
PlanReviewed(s, x, v) == [s EXCEPT !.plans[x].review = v]

PlanRewritten(s, x, v) == [s EXCEPT !.plans[x].steps = v]

LEMMA OtherPlan ==
    ASSUME NEW s \in State, NEW x \in DOMAIN s.plans, NEW v
    PROVE  LET plan == s.plans[x]
               r == PlanReviewed(s, x, v)
               t == PlanRewritten(s, x, v)
           IN  /\ SameProposals(s, r) /\ SameProposals(s, t)
               /\ DOMAIN r.plans = DOMAIN s.plans /\ DOMAIN t.plans = DOMAIN s.plans
               /\ \A i \in DOMAIN s.plans : i # x => r.plans[i] = s.plans[i] /\ t.plans[i] = s.plans[i]
               /\ r.plans[x].plan = plan.plan /\ r.plans[x].review = v /\ r.plans[x].steps = plan.steps
               /\ t.plans[x].plan = plan.plan /\ t.plans[x].review = plan.review /\ t.plans[x].steps = v
<1> DEFINE plan == s.plans[x]
           r == PlanReviewed(s, x, v)
           t == PlanRewritten(s, x, v)
<1>1. plan \in Plan
  BY StateParts
<1>2. /\ r.queue = s.queue /\ r.audit = s.audit
      /\ r.plans = [s.plans EXCEPT ![x] = [plan EXCEPT !.review = v]]
  BY StateParts DEF PlanReviewed
<1>3. /\ t.queue = s.queue /\ t.audit = s.audit
      /\ t.plans = [s.plans EXCEPT ![x] = [plan EXCEPT !.steps = v]]
  BY StateParts DEF PlanRewritten
<1>4. LET a == [plan EXCEPT !.review = v]  b == [plan EXCEPT !.steps = v]
      IN  /\ a.plan = plan.plan /\ a.review = v /\ a.steps = plan.steps
          /\ b.plan = plan.plan /\ b.review = plan.review /\ b.steps = v
  BY <1>1 DEF Plan
<1> HIDE DEF r, t
<1>5. SameProposals(s, r) /\ SameProposals(s, t)
  BY <1>2, <1>3 DEF SameProposals
<1>6. r.plans[x] = [plan EXCEPT !.review = v] /\ t.plans[x] = [plan EXCEPT !.steps = v]
  BY <1>2, <1>3
<1> HIDE DEF plan
<1>7. /\ r.plans[x].plan = plan.plan /\ r.plans[x].review = v /\ r.plans[x].steps = plan.steps
      /\ t.plans[x].plan = plan.plan /\ t.plans[x].review = plan.review /\ t.plans[x].steps = v
  BY <1>4, <1>6
<1>8. /\ DOMAIN r.plans = DOMAIN s.plans /\ DOMAIN t.plans = DOMAIN s.plans
      /\ \A i \in DOMAIN s.plans : i # x => r.plans[i] = s.plans[i] /\ t.plans[i] = s.plans[i]
  BY <1>2, <1>3
<1> QED
  BY <1>5, <1>7, <1>8 DEF r, t, plan

\* A new plan has done nothing yet.
LEMMA ToolPlanKeepsRecords ==
    ASSUME NEW s \in State, NEW e \in Event, e.type = "tool_plan", RecordsAreWhole(s),
           PlanIndex(s, e.plan) = 0
    PROVE  /\ RecordsAreWhole(ReduceToolPlan(s, e))
           /\ AllRecorded(s, {}) => AllRecorded(ReduceToolPlan(s, e), {})
<1> DEFINE t == ReduceToolPlan(s, e)
           tools == PlanTools[e.plan]
           steps == [k \in DOMAIN tools |-> NewStep(tools[k])]
           new == [plan |-> e.plan, review |-> "pending", steps |-> steps]
           n == Len(s.plans) + 1
<1>1. t = [s EXCEPT !.plans = Append(s.plans, new)]
  BY DEF ReduceToolPlan
<1>2. t \in State
  BY ToolPlanType
<1>3. t.queue = s.queue /\ t.audit = s.audit /\ t.plans = Append(s.plans, new)
  BY <1>1, StateParts
<1>n. new.plan = e.plan /\ new.steps = steps /\ e.plan \in Plans
  BY EventFields
<1>s. /\ DOMAIN steps = DOMAIN tools
      /\ \A k \in DOMAIN tools : /\ steps[k].tool = tools[k] /\ steps[k].proposal = NoProposal
                                 /\ steps[k].receipt = NoReceipt /\ steps[k].bound = FALSE
  BY DEF NewStep
<1> HIDE DEF t, new, steps
<1>4. /\ DOMAIN t.plans = 1 .. n /\ n \in Nat /\ DOMAIN s.plans = 1 .. (n - 1)
      /\ \A i \in DOMAIN s.plans : t.plans[i] = s.plans[i]
      /\ t.plans[n] = new
  <2>1. s.plans \in Seq(Plan)
    BY StateParts
  <2> QED
    BY <1>3, <2>1, OneMore
<1> HIDE DEF n
<1>5. SameProposals(s, t)
  BY <1>3 DEF SameProposals
<1>u. \A i, j \in DOMAIN s.plans : s.plans[i].plan = s.plans[j].plan => i = j
  BY DEF RecordsAreWhole
<1>6. \A i \in DOMAIN s.plans : s.plans[i].plan # e.plan
  BY <1>u, PlanIsFirst
<1>7. \A i \in DOMAIN t.plans : i = n \/ i \in DOMAIN s.plans
  BY <1>4
<1>8. \A i, j \in DOMAIN t.plans : t.plans[i].plan = t.plans[j].plan => i = j
  <2>1. \A i \in DOMAIN t.plans : i # n =>
           i \in DOMAIN s.plans /\ t.plans[i].plan = s.plans[i].plan /\ t.plans[i].plan # e.plan
    BY <1>4, <1>6, <1>7
  <2>2. t.plans[n].plan = e.plan
    BY <1>4, <1>n
  <2> QED
    BY <1>u, <2>1, <2>2
<1>9. \A k \in DOMAIN steps : StepIsWhole(t, new, k)
  <2> SUFFICES ASSUME NEW k \in DOMAIN steps PROVE StepIsWhole(t, new, k)
    OBVIOUS
  <2>1. /\ new.steps[k].proposal = NoProposal /\ new.steps[k].receipt = NoReceipt
        /\ new.steps[k].bound = FALSE /\ new.steps[k].tool = PlanTools[new.plan][k]
        /\ k \in DOMAIN PlanTools[new.plan]
    BY <1>n, <1>s
  <2>2. StepRecordIsTrue(t, new, k)
    BY <2>1 DEF StepRecordIsTrue
  <2> QED
    BY <2>1, <2>2 DEF StepIsWhole
<1>10. RecordsAreWhole(t)
  <2>1. \A i \in DOMAIN t.queue : t.queue[i].id.index = i
    BY <1>3 DEF RecordsAreWhole
  <2>2. NoStepQueuedTwice(t)
    BY <1>3 DEF RecordsAreWhole, NoStepQueuedTwice
  <2>3. \A i \in DOMAIN t.audit : HasProposal(t, t.audit[i].proposal)
    BY <1>3, <1>5, SameLookups DEF RecordsAreWhole
  <2>4. \A i \in DOMAIN s.plans : \A k \in DOMAIN s.plans[i].steps : StepIsWhole(t, s.plans[i], k)
    BY <1>5, StepStaysWhole DEF RecordsAreWhole
  <2>5. \A i \in DOMAIN t.plans : \A k \in DOMAIN t.plans[i].steps : StepIsWhole(t, t.plans[i], k)
    BY <1>4, <1>7, <1>9, <1>n, <2>4
  <2> QED
    BY <1>8, <2>1, <2>2, <2>3, <2>5 DEF RecordsAreWhole
<1>11. ASSUME NEW id, IsRecorded(s, id)
       PROVE  IsRecorded(t, id)
  <2> DEFINE x == PlanIndex(s, id.plan)
  <2>1. x # 0 /\ id.step \in DOMAIN s.plans[x].steps /\ s.plans[x].steps[id.step].proposal = id
    BY <1>11 DEF IsRecorded, StepsOf
  <2>2. x \in DOMAIN s.plans /\ s.plans[x].plan = id.plan
    BY <2>1 DEF PlanIndex
  <2> HIDE DEF x
  <2>3. x \in DOMAIN t.plans /\ t.plans[x] = s.plans[x]
    BY <1>4, <2>2
  <2>4. PlanIndex(t, id.plan) = x
    BY <1>2, <1>8, <2>2, <2>3, PlanIsFirst
  <2> QED
    BY <2>1, <2>3, <2>4 DEF IsRecorded, StepsOf
<1>12. AllRecorded(s, {}) => AllRecorded(t, {})
  BY <1>3, <1>11 DEF AllRecorded
<1> QED
  BY <1>10, <1>12 DEF t

\* A plan that waits for its review has no proposals.
LEMMA PlanReviewKeepsRecords ==
    ASSUME NEW s \in State, NEW e \in Event, e.type = "tool_plan_review", RecordsAreWhole(s),
           HasPlan(s, e.plan, "pending")
    PROVE  /\ RecordsAreWhole(ReduceToolPlanReview(s, e))
           /\ AllRecorded(s, {}) => AllRecorded(ReduceToolPlanReview(s, e), {})
<1> DEFINE t == ReduceToolPlanReview(s, e)
           x == PlanIndex(s, e.plan)
<1>1. t = [s EXCEPT !.plans[x].review = e.decision]
  BY DEF ReduceToolPlanReview
<1>2. t \in State
  BY ToolPlanReviewType
<1>3. x # 0 /\ s.plans[x].review = "pending" /\ x \in DOMAIN s.plans
  BY EventFields, PlanIndexIsPlace DEF HasPlan
<1> HIDE DEF x
<1>4. /\ SameProposals(s, t) /\ DOMAIN t.plans = DOMAIN s.plans
      /\ \A i \in DOMAIN s.plans : i # x => t.plans[i] = s.plans[i]
      /\ t.plans[x].plan = s.plans[x].plan /\ t.plans[x].steps = s.plans[x].steps
  <2>1. t = PlanReviewed(s, x, e.decision)
    BY <1>1 DEF PlanReviewed
  <2> QED
    BY <1>3, <2>1, OtherPlan
<1> HIDE DEF t
<1>5. ASSUME NEW k \in DOMAIN t.plans[x].steps
      PROVE  StepIsWhole(s, t.plans[x], k)
  <2>1. StepIsWhole(s, s.plans[x], k)
    BY <1>3, <1>4 DEF RecordsAreWhole
  <2>2. s.plans[x].steps[k].proposal = NoProposal
    BY <1>3, <2>1 DEF StepIsWhole, StepRecordIsTrue
  <2> DEFINE a == s.plans[x]  b == t.plans[x]
  <2>3. b.plan = a.plan /\ b.steps = a.steps
    BY <1>4
  <2>4. StepIsWhole(s, a, k) /\ a.steps[k].proposal = NoProposal
    BY <2>1, <2>2
  <2> HIDE DEF a, b
  <2>5. StepRecordIsTrue(s, b, k)
    BY <2>3, <2>4 DEF StepIsWhole, StepRecordIsTrue
  <2>6. StepIsWhole(s, b, k)
    BY <2>3, <2>4, <2>5 DEF StepIsWhole
  <2> QED
    BY <2>6 DEF b
<1>6. RecordsAreWhole(t) /\ (AllRecorded(s, {}) => AllRecorded(t, {}))
  BY <1>2, <1>3, <1>4, <1>5, PlanSide
<1> QED
  BY <1>6 DEF t

\* The last of some entries is one of them.
LEMMA LastDoneIs ==
    ASSUME NEW done, NEW n \in Nat, NEW places \in SUBSET (1 .. n), NEW none
    PROVE  \/ places = {} /\ LastDone(done, places, none) = none
           \/ \E i \in places : LastDone(done, places, none) = done[i]
<1> DEFINE last == {i \in places : \A j \in places : j <= i}
<1>1. LastDone(done, places, none) = IF last = {} THEN none ELSE done[CHOOSE i \in last : TRUE]
  BY DEF LastDone
<1>2. IsFiniteSet(places) /\ places \subseteq Nat
  <2>1. IsFiniteSet(1 .. n)
    BY FS_Interval
  <2>2. IsFiniteSet(places)
    BY <2>1, FS_Subset
  <2>3. places \subseteq Nat
    OBVIOUS
  <2> QED
    BY <2>2, <2>3
<1>3. places # {} => last # {}
  BY <1>2, GreatestNatural
<1>4. last \subseteq places
  OBVIOUS
<1> HIDE DEF last
<1> QED
  BY <1>1, <1>3, <1>4

\* The plan that an event is about, at its place.
LEMMA ApprovedPlan ==
    ASSUME NEW s \in State, NEW p \in Plans, HasPlan(s, p, "approved")
    PROVE  LET x == PlanIndex(s, p)
           IN  /\ x # 0 /\ x \in DOMAIN s.plans
               /\ s.plans[x].plan = p /\ s.plans[x].review = "approved"
               /\ StepsOf(s, p) = s.plans[x].steps
               /\ s.plans[x].steps \in Seq(Step)
<1>1. PlanIndex(s, p) # 0
  BY DEF HasPlan
<1> QED
  BY <1>1, PlanIndexIsPlace, StepsOfPlan DEF HasPlan, StepsOf

\* Each step gets the proposal that was queued for it.
LEMMA StepQueueKeepsRecords ==
    ASSUME NEW s \in State, NEW e \in Event, e.type = "tool_plan_step_queue", RecordsAreWhole(s),
           QueueDone(s, e.plan, e.done)
    PROVE  /\ RecordsAreWhole(ReduceStepQueue(s, e))
           /\ AllRecorded(ReduceStepQueue(s, e), {})
<1> DEFINE t == ReduceStepQueue(s, e)
           p == e.plan
           x == PlanIndex(s, p)
           done == e.done
           steps == StepsOf(s, p)
           Places(k) == {i \in DOMAIN done : done[i].step = k}
           Queued(k) == LastDone(done, Places(k), steps[k])
           new == [k \in DOMAIN steps |-> [steps[k] EXCEPT !.proposal = Queued(k).proposal]]
<1>1. p \in Plans /\ done \in Seq(Done) /\ HasPlan(s, p, "approved")
  BY EventFields DEF QueueDone
<1>2. t = PlanRewritten(s, x, new)
  BY <1>1 DEF ReduceStepQueue, WithSteps, PlanRewritten
<1>3. t \in State
  BY StepQueueType
<1>4. /\ x # 0 /\ x \in DOMAIN s.plans /\ s.plans[x].plan = p /\ s.plans[x].review = "approved"
      /\ steps = s.plans[x].steps /\ steps \in Seq(Step)
  BY <1>1, ApprovedPlan
<1>d. \A d \in DOMAIN done :
         LET id == done[d].proposal
         IN  /\ done[d].step \in ToQueue(steps, 0)
             /\ HasProposal(s, id) /\ id.plan = p /\ id.step = done[d].step
             /\ ProposalOf(s, id).tool = steps[id.step].tool
  BY DEF QueueDone
<1>a. AllRecorded(s, {done[d].proposal : d \in DOMAIN done})
  BY DEF QueueDone
<1>5. ASSUME NEW k \in DOMAIN steps
      PROVE  \/ Places(k) = {} /\ Queued(k) = steps[k]
             \/ \E i \in Places(k) : Queued(k) = done[i]
  <2>1. DOMAIN done = 1 .. Len(done) /\ Len(done) \in Nat
    BY <1>1
  <2> DEFINE places == Places(k)
  <2>2. places \in SUBSET (1 .. Len(done))
    BY <2>1
  <2> HIDE DEF places
  <2> DEFINE n == Len(done)  none == steps[k]
  <2>n. n \in Nat /\ places \in SUBSET (1 .. n)
    BY <2>1, <2>2
  <2> HIDE DEF n, none, done
  <2>3. \/ places = {} /\ LastDone(done, places, none) = none
        \/ \E i \in places : LastDone(done, places, none) = done[i]
    BY <2>n, LastDoneIs
  <2> USE DEF none
  <2>4. Queued(k) = LastDone(done, places, steps[k])
    BY DEF places
  <2> HIDE DEF Queued, steps, done
  <2>5. \/ places = {} /\ Queued(k) = steps[k]
        \/ \E i \in places : Queued(k) = done[i]
    BY <2>3, <2>4
  <2> QED
    BY <2>5 DEF places
<1> HIDE DEF Queued, t, x, steps
<1>6. ASSUME NEW k \in DOMAIN steps
      PROVE  /\ k \in DOMAIN new
             /\ new[k].proposal = Queued(k).proposal /\ new[k].receipt = steps[k].receipt
             /\ new[k].tool = steps[k].tool /\ new[k].bound = steps[k].bound
  <2>1. steps[k] \in Step
    BY <1>4
  <2> QED
    BY <2>1 DEF Step
<1>7. DOMAIN new = DOMAIN steps
  OBVIOUS
<1> HIDE DEF new
<1>8. /\ SameProposals(s, t) /\ DOMAIN t.plans = DOMAIN s.plans
      /\ \A i \in DOMAIN s.plans : i # x => t.plans[i] = s.plans[i]
      /\ t.plans[x].plan = p /\ t.plans[x].steps = new /\ t.plans[x].review = "approved"
  BY <1>2, <1>4, OtherPlan
<1>w. \A k \in DOMAIN steps : StepIsWhole(s, s.plans[x], k)
  BY <1>4 DEF RecordsAreWhole
<1>9. ASSUME NEW k \in DOMAIN steps
      PROVE  \/ new[k].proposal = steps[k].proposal
             \/ /\ steps[k].proposal = NoProposal
                /\ \E i \in Places(k) : new[k].proposal = done[i].proposal
  <2>1. CASE Queued(k) = steps[k]
    BY <1>6, <2>1
  <2>2. CASE \E i \in Places(k) : Queued(k) = done[i]
    <3>1. PICK i \in Places(k) : Queued(k) = done[i]
      BY <2>2
    <3>2. k \in ToQueue(steps, 0)
      BY <1>d, <3>1
    <3>3. steps[k].proposal = NoProposal
      BY <3>2 DEF ToQueue
    <3> QED
      BY <1>6, <3>1, <3>3
  <2> QED
    BY <1>5, <2>1, <2>2
<1>10. ASSUME NEW k \in DOMAIN steps, HasUsefulReceipt(s, steps[k])
       PROVE  HasUsefulReceipt(s, new[k])
  <2>1. steps[k].proposal # NoProposal
    BY <1>4, <1>w, <1>10, StepWithoutProposal
  <2>2. new[k].proposal = steps[k].proposal
    BY <1>9, <2>1
  <2> QED
    BY <1>6, <1>10, <2>2 DEF HasUsefulReceipt
<1>11. ASSUME NEW k \in DOMAIN new
       PROVE  StepIsWhole(s, t.plans[x], k)
  <2> DEFINE a == s.plans[x]  b == t.plans[x]
  <2> SUFFICES StepIsWhole(s, b, k)
    OBVIOUS
  <2>1. /\ a.plan = p /\ a.review = "approved" /\ a.steps = steps
        /\ b.plan = p /\ b.review = "approved" /\ b.steps = new
    BY <1>4, <1>8
  <2>2. StepIsWhole(s, a, k) /\ k \in DOMAIN steps
    BY <1>7, <1>w
  <2> HIDE DEF a, b
  <2>3. new[k].bound => \E j \in 1..(k - 1) : HasUsefulReceipt(s, new[j])
    <3>1. ASSUME new[k].bound
          PROVE  \E j \in 1..(k - 1) : HasUsefulReceipt(s, steps[j])
      BY <1>6, <2>1, <2>2, <3>1 DEF StepIsWhole, StepRecordIsTrue
    <3>2. \A j \in 1..(k - 1) : j \in DOMAIN steps
      BY <1>4, <2>2
    <3> QED
      BY <1>10, <3>1, <3>2
  <2>4. CASE new[k].proposal = steps[k].proposal
    <3>1. StepRecordIsTrue(s, b, k)
      BY <1>6, <2>1, <2>2, <2>3, <2>4 DEF StepIsWhole, StepRecordIsTrue
    <3> QED
      BY <1>6, <2>1, <2>2, <2>4, <3>1 DEF StepIsWhole
  <2>5. CASE steps[k].proposal = NoProposal /\ \E i \in Places(k) : new[k].proposal = done[i].proposal
    <3>1. PICK i \in Places(k) : new[k].proposal = done[i].proposal
      BY <2>5
    <3>2. /\ HasProposal(s, new[k].proposal) /\ new[k].proposal.plan = p /\ new[k].proposal.step = k
          /\ ProposalOf(s, new[k].proposal).tool = steps[k].tool
      BY <1>d, <3>1
    <3>3. new[k].receipt = NoReceipt
      BY <1>6, <2>1, <2>2, <2>5, StepWithoutProposal
    <3>4. StepRecordIsTrue(s, b, k)
      BY <2>1, <2>3, <3>2, <3>3 DEF StepRecordIsTrue
    <3> QED
      BY <1>6, <2>1, <2>2, <3>2, <3>3, <3>4 DEF StepIsWhole
  <2> QED
    BY <1>9, <2>2, <2>4, <2>5
<1>12. /\ RecordsAreWhole(t)
       /\ \A ids : AllRecorded(s, ids) => AllRecorded(t, ids)
       /\ \A q : PlanIndex(t, q) = PlanIndex(s, q)
  <2>1. \A k \in DOMAIN s.plans[x].steps :
           /\ k \in DOMAIN t.plans[x].steps
           /\ s.plans[x].steps[k].proposal # NoProposal =>
                 t.plans[x].steps[k].proposal = s.plans[x].steps[k].proposal
    BY <1>4, <1>7, <1>8, <1>9
  <2>2. \A k \in DOMAIN t.plans[x].steps : StepIsWhole(s, t.plans[x], k)
    BY <1>8, <1>11
  <2> QED
    BY <1>3, <1>4, <1>8, <2>1, <2>2, PlanSide
<1>13. ASSUME NEW d \in DOMAIN done
       PROVE  IsRecorded(t, done[d].proposal)
  <2> DEFINE id == done[d].proposal
             k == id.step
  <2>1. /\ k \in ToQueue(steps, 0) /\ HasProposal(s, id) /\ id.plan = p /\ d \in Places(k)
    BY <1>d
  <2>2. k \in DOMAIN steps
    BY <2>1 DEF ToQueue
  <2>3. PICK i \in Places(k) : Queued(k) = done[i]
    BY <1>5, <2>1, <2>2
  <2> DEFINE other == done[i].proposal
  <2>4. HasProposal(s, other) /\ other.plan = p /\ other.step = k
    BY <1>d, <2>3
  <2>5. p # NoPlan
    BY <1>1, PlansAssumption
  <2>6. new[k].proposal = other
    BY <1>6, <2>2, <2>3
  <2>7. id.step = k
    OBVIOUS
  <2> HIDE DEF id, other, k
  <2>8. id = other
    <3>1. NoStepQueuedTwice(s)
      BY DEF RecordsAreWhole
    <3>2. id.index = other.index
      BY <2>1, <2>4, <2>5, <2>7, <3>1 DEF NoStepQueuedTwice, HasProposal
    <3> QED
      BY <2>1, <2>4, <3>2 DEF HasProposal
  <2>9. PlanIndex(t, id.plan) = x /\ x # 0
    BY <1>4, <1>12, <2>1 DEF x
  <2>10. StepsOf(t, id.plan) = new
    BY <1>8, <2>9 DEF StepsOf
  <2>11. IsRecorded(t, id)
    BY <1>7, <2>2, <2>6, <2>7, <2>8, <2>9, <2>10 DEF IsRecorded
  <2> QED
    BY <2>11 DEF id
<1>14. AllRecorded(t, {})
  <2>1. AllRecorded(t, {done[d].proposal : d \in DOMAIN done})
    BY <1>a, <1>12
  <2> QED
    BY <1>13, <2>1 DEF AllRecorded
<1> QED
  BY <1>12, <1>14 DEF t

\* Each step gets the receipt of its proposal.
LEMMA PlanExecutionKeepsRecords ==
    ASSUME NEW s \in State, NEW e \in Event, e.type = "tool_plan_execution_request",
           RecordsAreWhole(s), ReceiptsAreTrue(s), ExecutionDone(s, e.plan, e.done)
    PROVE  /\ RecordsAreWhole(ReducePlanExecution(s, e))
           /\ AllRecorded(ReducePlanExecution(s, e), {})
<1> DEFINE t == ReducePlanExecution(s, e)
           p == e.plan
           x == PlanIndex(s, p)
           done == e.done
           steps == StepsOf(s, p)
           Places(k) == {i \in DOMAIN done : done[i].proposal = steps[k].proposal}
           Executed(k) == LastDone(done, Places(k), steps[k])
           new == [k \in DOMAIN steps |-> [steps[k] EXCEPT !.receipt = Executed(k).receipt]]
<1>1. p \in Plans /\ done \in Seq(Done) /\ HasPlan(s, p, "approved")
  BY EventFields DEF ExecutionDone
<1>2. t = PlanRewritten(s, x, new)
  BY <1>1 DEF ReducePlanExecution, WithSteps, PlanRewritten
<1>3. t \in State
  BY PlanExecutionType
<1>4. /\ x # 0 /\ x \in DOMAIN s.plans /\ s.plans[x].plan = p /\ s.plans[x].review = "approved"
      /\ steps = s.plans[x].steps /\ steps \in Seq(Step)
  BY <1>1, ApprovedPlan
<1>d. \A d \in DOMAIN done :
         /\ done[d].receipt \in Range(s.audit)
         /\ done[d].receipt.proposal = done[d].proposal
         /\ HasReview(s, done[d].proposal, "approved")
         /\ \/ done[d].receipt.status \in Useful
            \/ ProposalOf(s, done[d].proposal).tool = "boh.retrieve_proposed"
  BY DEF ExecutionDone
<1>a. AllRecorded(s, {})
  BY DEF ExecutionDone
<1>5. ASSUME NEW k \in DOMAIN steps
      PROVE  \/ Executed(k) = steps[k]
             \/ \E i \in Places(k) : Executed(k) = done[i]
  <2>1. DOMAIN done = 1 .. Len(done) /\ Len(done) \in Nat
    BY <1>1
  <2> DEFINE places == Places(k)
  <2>2. places \in SUBSET (1 .. Len(done))
    BY <2>1
  <2> HIDE DEF places
  <2> DEFINE n == Len(done)  none == steps[k]
  <2>n. n \in Nat /\ places \in SUBSET (1 .. n)
    BY <2>1, <2>2
  <2> HIDE DEF n, none, done
  <2>3. \/ places = {} /\ LastDone(done, places, none) = none
        \/ \E i \in places : LastDone(done, places, none) = done[i]
    BY <2>n, LastDoneIs
  <2> USE DEF none
  <2>4. Executed(k) = LastDone(done, places, steps[k])
    BY DEF places
  <2> HIDE DEF Executed, steps, done
  <2>5. \/ Executed(k) = steps[k]
        \/ \E i \in places : Executed(k) = done[i]
    BY <2>3, <2>4
  <2> QED
    BY <2>5 DEF places
<1> HIDE DEF Executed, t, x, steps
<1>6. ASSUME NEW k \in DOMAIN steps
      PROVE  /\ k \in DOMAIN new
             /\ new[k].receipt = Executed(k).receipt /\ new[k].proposal = steps[k].proposal
             /\ new[k].tool = steps[k].tool /\ new[k].bound = steps[k].bound
  <2>1. steps[k] \in Step
    BY <1>4
  <2> QED
    BY <2>1 DEF Step
<1>7. DOMAIN new = DOMAIN steps
  OBVIOUS
<1> HIDE DEF new
<1>8. /\ SameProposals(s, t) /\ DOMAIN t.plans = DOMAIN s.plans
      /\ \A i \in DOMAIN s.plans : i # x => t.plans[i] = s.plans[i]
      /\ t.plans[x].plan = p /\ t.plans[x].steps = new /\ t.plans[x].review = "approved"
  BY <1>2, <1>4, OtherPlan
<1>w. \A k \in DOMAIN steps : StepIsWhole(s, s.plans[x], k)
  BY <1>4 DEF RecordsAreWhole
<1>9. ASSUME NEW k \in DOMAIN steps
      PROVE  \/ new[k].receipt = steps[k].receipt
             \/ /\ new[k].receipt \in Range(s.audit)
                /\ new[k].receipt.proposal = steps[k].proposal
                /\ HasReview(s, steps[k].proposal, "approved")
                /\ \/ new[k].receipt.status \in Useful
                   \/ ProposalOf(s, steps[k].proposal).tool = "boh.retrieve_proposed"
  <2>1. CASE Executed(k) = steps[k]
    BY <1>6, <2>1
  <2>2. CASE \E i \in Places(k) : Executed(k) = done[i]
    <3>1. PICK i \in Places(k) : Executed(k) = done[i]
      BY <2>2
    <3>2. i \in DOMAIN done /\ done[i].proposal = steps[k].proposal /\ new[k].receipt = done[i].receipt
      BY <1>6, <3>1
    <3> QED
      BY <1>d, <3>2
  <2> QED
    BY <1>5, <2>1, <2>2
\* What is useful is not of a tool that only proposes.
<1>u. ASSUME NEW k \in DOMAIN steps, HasUsefulReceipt(s, steps[k])
      PROVE  ProposalOf(s, steps[k].proposal).tool # "boh.retrieve_proposed"
  <2>1. PICK i \in DOMAIN s.audit : s.audit[i].proposal = steps[k].proposal /\ s.audit[i].status \in Useful
    <3>1. CASE steps[k].receipt = NoReceipt
      BY <1>u, <3>1, UsefulIsLast
    <3>2. CASE steps[k].receipt # NoReceipt
      <4>1. steps[k].receipt \in Range(s.audit) /\ steps[k].receipt.status \in Useful
        BY <1>u, <3>2, UsefulIsLast
      <4>2. steps[k].receipt.proposal = steps[k].proposal
        BY <1>4, <1>w, <3>2 DEF StepIsWhole, StepRecordIsTrue
      <4> QED
        BY <4>1, <4>2 DEF Range
    <3> QED
      BY <3>1, <3>2
  <2>2. ReceiptIsTrue(s, s.audit[i])
    BY DEF ReceiptsAreTrue
  <2> QED
    BY <2>1, <2>2 DEF ReceiptIsTrue, Useful
<1>10. ASSUME NEW k \in DOMAIN steps, HasUsefulReceipt(s, steps[k])
       PROVE  HasUsefulReceipt(s, new[k])
  <2>1. CASE new[k].receipt = steps[k].receipt
    BY <1>6, <1>10, <2>1 DEF HasUsefulReceipt
  <2>2. CASE new[k].receipt # steps[k].receipt
    <3>1. new[k].receipt \in Range(s.audit) /\ new[k].receipt.status \in Useful
      BY <1>9, <1>10, <1>u, <2>2
    <3>2. new[k].receipt # NoReceipt
      BY <3>1 DEF NoReceipt, Useful
    <3> QED
      BY <3>1, <3>2, UsefulIsLast
  <2> QED
    BY <2>1, <2>2
<1>11. ASSUME NEW k \in DOMAIN new
       PROVE  StepIsWhole(s, t.plans[x], k)
  <2> DEFINE a == s.plans[x]  b == t.plans[x]
  <2> SUFFICES StepIsWhole(s, b, k)
    OBVIOUS
  <2>1. /\ a.plan = p /\ a.review = "approved" /\ a.steps = steps
        /\ b.plan = p /\ b.review = "approved" /\ b.steps = new
    BY <1>4, <1>8
  <2>2. StepIsWhole(s, a, k) /\ k \in DOMAIN steps
    BY <1>7, <1>w
  <2> HIDE DEF a, b
  <2>3. new[k].bound => \E j \in 1..(k - 1) : HasUsefulReceipt(s, new[j])
    <3>1. ASSUME new[k].bound
          PROVE  \E j \in 1..(k - 1) : HasUsefulReceipt(s, steps[j])
      BY <1>6, <2>1, <2>2, <3>1 DEF StepIsWhole, StepRecordIsTrue
    <3>2. \A j \in 1..(k - 1) : j \in DOMAIN steps
      BY <1>4, <2>2
    <3> QED
      BY <1>10, <3>1, <3>2
  <2>4. new[k].receipt # NoReceipt =>
           /\ new[k].receipt \in Range(s.audit)
           /\ new[k].receipt.proposal = new[k].proposal
           /\ HasReview(s, new[k].proposal, "approved")
    <3>1. CASE new[k].receipt = steps[k].receipt
      BY <1>6, <2>1, <2>2, <3>1 DEF StepIsWhole, StepRecordIsTrue
    <3>2. CASE new[k].receipt # steps[k].receipt
      BY <1>6, <1>9, <2>2, <3>2
    <3> QED
      BY <3>1, <3>2
  <2>5. StepRecordIsTrue(s, b, k)
    <3>1. new[k].proposal # NoProposal =>
             /\ HasProposal(s, new[k].proposal)
             /\ new[k].proposal.plan = p /\ new[k].proposal.step = k
      BY <1>6, <2>1, <2>2 DEF StepIsWhole, StepRecordIsTrue
    <3> QED
      BY <2>1, <2>3, <2>4, <3>1 DEF StepRecordIsTrue
  <2>6. new[k].proposal # NoProposal => ProposalOf(s, new[k].proposal).tool = new[k].tool
    BY <1>6, <2>1, <2>2 DEF StepIsWhole
  <2>7. new[k].receipt # NoReceipt =>
           new[k].receipt.status \in Useful \/ new[k].tool = "boh.retrieve_proposed"
    <3>1. CASE new[k].receipt = steps[k].receipt
      BY <1>6, <2>1, <2>2, <3>1 DEF StepIsWhole
    <3>2. CASE new[k].receipt # steps[k].receipt
      <4>1. HasReview(s, new[k].proposal, "approved")
        BY <1>6, <1>9, <2>2, <3>2
      <4>2. new[k].proposal # NoProposal
        BY <4>1, StepWithoutProposal DEF HasReview
      <4> QED
        BY <1>6, <1>9, <2>2, <2>6, <3>2, <4>2
    <3> QED
      BY <3>1, <3>2
  <2>8. k \in DOMAIN PlanTools[p] /\ new[k].tool = PlanTools[p][k]
    BY <1>6, <2>1, <2>2 DEF StepIsWhole
  <2> QED
    BY <2>1, <2>5, <2>6, <2>7, <2>8 DEF StepIsWhole
<1>12. RecordsAreWhole(t) /\ AllRecorded(t, {})
  <2>1. \A k \in DOMAIN s.plans[x].steps :
           /\ k \in DOMAIN t.plans[x].steps
           /\ t.plans[x].steps[k].proposal = s.plans[x].steps[k].proposal
    BY <1>4, <1>6, <1>7, <1>8
  <2>2. \A k \in DOMAIN t.plans[x].steps : StepIsWhole(s, t.plans[x], k)
    BY <1>8, <1>11
  <2> QED
    BY <1>3, <1>4, <1>8, <1>a, <2>1, <2>2, PlanSide
<1> QED
  BY <1>12 DEF t

\* A step that is bound waits for its review behind a step with a result.
LEMMA ResultBindingKeepsRecords ==
    ASSUME NEW s \in State, NEW e \in Event, e.type = "tool_plan_result_binding",
           RecordsAreWhole(s), ReceiptsAreTrue(s), AllRecorded(s, {}),
           HasPlan(s, e.plan, "approved"), e.ids = Bindable(s, StepsOf(s, e.plan))
    PROVE  /\ RecordsAreWhole(ReduceResultBinding(s, e))
           /\ AllRecorded(ReduceResultBinding(s, e), {})
<1> DEFINE t == ReduceResultBinding(s, e)
           p == e.plan
           x == PlanIndex(s, p)
           steps == StepsOf(s, p)
           ids == {id \in e.ids : HasReview(s, id, "pending")}
           new == [k \in DOMAIN steps |-> [steps[k] EXCEPT !.bound = @ \/ steps[k].proposal \in ids]]
           queue == [j \in DOMAIN s.queue |-> [s.queue[j] EXCEPT !.bound = @ \/ s.queue[j].id \in ids]]
           mid == PlanRewritten(s, x, new)
<1>1. p \in Plans
  BY EventFields
<1>4. /\ x # 0 /\ x \in DOMAIN s.plans /\ s.plans[x].plan = p /\ s.plans[x].review = "approved"
      /\ steps = s.plans[x].steps /\ steps \in Seq(Step)
  BY <1>1, ApprovedPlan
<1>2. t = [mid EXCEPT !.queue = queue]
  BY <1>4 DEF ReduceResultBinding, WithSteps, PlanRewritten
<1>3. t \in State
  BY ResultBindingType
<1>b. e.ids = {steps[k].proposal : k \in
                 {k \in DOMAIN steps : /\ steps[k].tool = "text.summarize"
                                       /\ HasReview(s, steps[k].proposal, "pending")
                                       /\ \E j \in 1..k : HasUsefulReceipt(s, steps[j])}}
  BY DEF Bindable
<1>6. /\ t.plans = mid.plans /\ t.queue = queue /\ t.audit = s.audit
  <2> HIDE DEF new, queue, t, x
  <2>1. PICK plans : mid = [s EXCEPT !.plans = plans]
    BY DEF PlanRewritten
  <2>2. mid = [queue |-> s.queue, plans |-> plans, audit |-> s.audit]
    BY <2>1, StateParts
  <2> HIDE DEF mid
  <2> QED
    BY <1>2, <2>2
<1> HIDE DEF t, x, steps, mid, ids
<1>7. ASSUME NEW i \in DOMAIN s.queue
      PROVE  queue[i].id = s.queue[i].id /\ queue[i].tool = s.queue[i].tool /\ queue[i].review = s.queue[i].review
  <2>1. s.queue[i] \in Proposal
    BY StateParts
  <2> QED
    BY <2>1 DEF Proposal
<1>8. DOMAIN queue = DOMAIN s.queue
  OBVIOUS
<1> HIDE DEF queue
<1>9. SameProposals(s, t)
  BY <1>6, <1>7, <1>8 DEF SameProposals
<1>10. ASSUME NEW k \in DOMAIN steps
       PROVE  /\ k \in DOMAIN new
              /\ new[k].receipt = steps[k].receipt /\ new[k].proposal = steps[k].proposal
              /\ new[k].tool = steps[k].tool
              /\ new[k].bound => steps[k].bound \/ steps[k].proposal \in ids
  <2>1. steps[k] \in Step
    BY <1>4
  <2> QED
    BY <2>1 DEF Step
<1>11. DOMAIN new = DOMAIN steps
  OBVIOUS
<1> HIDE DEF new
<1>12. /\ DOMAIN t.plans = DOMAIN s.plans
       /\ \A i \in DOMAIN s.plans : i # x => t.plans[i] = s.plans[i]
       /\ t.plans[x].plan = p /\ t.plans[x].steps = new /\ t.plans[x].review = "approved"
  BY <1>4, <1>6, OtherPlan DEF mid
<1>w. \A k \in DOMAIN steps : StepIsWhole(s, s.plans[x], k)
  BY <1>4 DEF RecordsAreWhole
<1>13. \A k \in DOMAIN steps : HasUsefulReceipt(s, steps[k]) = HasUsefulReceipt(s, new[k])
  BY <1>10 DEF HasUsefulReceipt
<1>14. ASSUME NEW k \in DOMAIN steps, steps[k].proposal \in ids
       PROVE  \E j \in 1..(k - 1) : HasUsefulReceipt(s, steps[j])
  <2>1. steps[k].proposal \in e.ids /\ HasReview(s, steps[k].proposal, "pending")
    BY <1>14 DEF ids
  <2>2. PICK l \in DOMAIN steps : /\ steps[k].proposal = steps[l].proposal
                                  /\ \E j \in 1..l : HasUsefulReceipt(s, steps[j])
    BY <1>b, <2>1
  <2>3. steps[k].proposal # NoProposal
    BY <2>1, StepWithoutProposal DEF HasReview
  <2>4. l = k
    BY <1>4, <1>w, <2>2, <2>3 DEF StepIsWhole, StepRecordIsTrue
  <2>5. ~ HasUsefulReceipt(s, steps[k])
    <3>1. ~ HasReview(s, steps[k].proposal, "approved")
      BY <2>1 DEF HasReview
    <3>2. steps[k].receipt = NoReceipt
      BY <1>4, <1>w, <3>1 DEF StepIsWhole, StepRecordIsTrue
    <3>3. \A i \in DOMAIN s.audit : ReceiptIsTrue(s, s.audit[i])
      BY DEF ReceiptsAreTrue
    <3>4. \A i \in DOMAIN s.audit : s.audit[i].proposal = steps[k].proposal => s.audit[i].status \notin Useful
      BY <3>1, <3>3 DEF ReceiptIsTrue, Useful
    <3> QED
      BY <3>2, <3>4, UsefulIsLast
  <2>6. PICK j \in 1..k : HasUsefulReceipt(s, steps[j])
    BY <2>2, <2>4
  <2>7. j # k /\ k \in Nat
    BY <1>4, <2>5, <2>6
  <2> QED
    BY <2>6, <2>7
<1>15. ASSUME NEW k \in DOMAIN new
       PROVE  StepIsWhole(s, t.plans[x], k)
  <2> DEFINE a == s.plans[x]  b == t.plans[x]
  <2> SUFFICES StepIsWhole(s, b, k)
    OBVIOUS
  <2>1. /\ a.plan = p /\ a.review = "approved" /\ a.steps = steps
        /\ b.plan = p /\ b.review = "approved" /\ b.steps = new
    BY <1>4, <1>12
  <2>2. StepIsWhole(s, a, k) /\ k \in DOMAIN steps
    BY <1>11, <1>w
  <2> HIDE DEF a, b
  <2>3. new[k].bound => \E j \in 1..(k - 1) : HasUsefulReceipt(s, new[j])
    <3>1. ASSUME new[k].bound
          PROVE  \E j \in 1..(k - 1) : HasUsefulReceipt(s, steps[j])
      <4>1. CASE steps[k].bound
        BY <2>1, <2>2, <4>1 DEF StepIsWhole, StepRecordIsTrue
      <4>2. CASE steps[k].proposal \in ids
        BY <1>14, <2>2, <4>2
      <4> QED
        BY <1>10, <2>2, <3>1, <4>1, <4>2
    <3>2. \A j \in 1..(k - 1) : j \in DOMAIN steps
      BY <1>4, <2>2
    <3> QED
      BY <1>13, <3>1, <3>2
  <2>4. StepRecordIsTrue(s, b, k)
    <3>1. /\ new[k].proposal # NoProposal =>
               /\ HasProposal(s, new[k].proposal)
               /\ new[k].proposal.plan = p /\ new[k].proposal.step = k
          /\ new[k].receipt # NoReceipt =>
               /\ new[k].receipt \in Range(s.audit)
               /\ new[k].receipt.proposal = new[k].proposal
               /\ HasReview(s, new[k].proposal, "approved")
      BY <1>10, <2>1, <2>2 DEF StepIsWhole, StepRecordIsTrue
    <3> QED
      BY <2>1, <2>3, <3>1 DEF StepRecordIsTrue
  <2>5. /\ new[k].proposal # NoProposal => ProposalOf(s, new[k].proposal).tool = new[k].tool
        /\ new[k].receipt # NoReceipt =>
             new[k].receipt.status \in Useful \/ new[k].tool = "boh.retrieve_proposed"
        /\ k \in DOMAIN PlanTools[p] /\ new[k].tool = PlanTools[p][k]
    BY <1>10, <2>1, <2>2 DEF StepIsWhole
  <2> QED
    BY <2>1, <2>4, <2>5 DEF StepIsWhole
<1>16. RecordsAreWhole(t) /\ AllRecorded(t, {})
  <2>1. \A k \in DOMAIN s.plans[x].steps :
           /\ k \in DOMAIN t.plans[x].steps
           /\ t.plans[x].steps[k].proposal = s.plans[x].steps[k].proposal
    BY <1>4, <1>10, <1>11, <1>12
  <2>2. \A k \in DOMAIN t.plans[x].steps : StepIsWhole(s, t.plans[x], k)
    BY <1>12, <1>15
  <2> QED
    BY <1>3, <1>4, <1>9, <1>12, <2>1, <2>2, PlanSide
<1> QED
  BY <1>16 DEF t

-----------------------------------------------------------------------------
\* What a request has begun is finished as it was meant.

\* The event of a request that is all it does.
LEMMA SingleIsStored ==
    ASSUME NEW s \in State, NEW e \in Event, RecordsAreWhole(s), ReceiptsAreTrue(s), EventFits(s, e)
    PROVE  RecordsAreWhole(Reduce(s, e)) /\ AllRecorded(Reduce(s, e), {})
<1>1. CASE e.type = "user_intent"
  <2>1. AllRecorded(s, {}) /\ e.plan = NoPlan
    BY <1>1 DEF EventFits
  <2> QED
    BY <1>1, <2>1, IntentKeepsRecords DEF Reduce
<1>2. CASE e.type = "proposal_review"
  <2>1. AllRecorded(s, {}) /\ HasReview(s, e.id, "pending")
    BY <1>2 DEF EventFits
  <2> QED
    BY <1>2, <2>1, ProposalReviewKeepsRecords DEF Reduce
<1>3. CASE e.type = "execution_request"
  <2>1. AllRecorded(s, {}) /\ HasProposal(s, e.id) /\ e = ExecutionRequest(ProposalOf(s, e.id))
    BY <1>3 DEF EventFits
  <2>2. Reduce(s, e) = ReduceExecutionRequest(s, e)
    BY <1>3 DEF Reduce
  <2> QED
    BY <1>3, <2>1, <2>2, ExecutionKeepsRecords
<1>4. CASE e.type = "tool_plan"
  <2>1. AllRecorded(s, {}) /\ PlanIndex(s, e.plan) = 0
    BY <1>4 DEF EventFits
  <2> QED
    BY <1>4, <2>1, ToolPlanKeepsRecords DEF Reduce
<1>5. CASE e.type = "tool_plan_review"
  <2>1. AllRecorded(s, {}) /\ HasPlan(s, e.plan, "pending")
    BY <1>5 DEF EventFits
  <2> QED
    BY <1>5, <2>1, PlanReviewKeepsRecords DEF Reduce
<1>6. CASE e.type = "tool_plan_step_queue"
  <2>1. QueueDone(s, e.plan, e.done)
    BY <1>6 DEF EventFits
  <2> QED
    BY <1>6, <2>1, StepQueueKeepsRecords DEF Reduce
<1>7. CASE e.type = "tool_plan_execution_request"
  <2>1. ExecutionDone(s, e.plan, e.done)
    BY <1>7 DEF EventFits
  <2> QED
    BY <1>7, <2>1, PlanExecutionKeepsRecords DEF Reduce
<1>8. CASE e.type = "tool_plan_result_binding"
  <2>1. AllRecorded(s, {}) /\ HasPlan(s, e.plan, "approved") /\ e.ids = Bindable(s, StepsOf(s, e.plan))
    BY <1>8 DEF EventFits
  <2> QED
    BY <1>8, <2>1, ResultBindingKeepsRecords DEF Reduce
<1>9. CASE e.type = "other"
  BY <1>9 DEF Reduce, EventFits
<1> QED
  BY <1>1, <1>2, <1>3, <1>4, <1>5, <1>6, <1>7, <1>8, <1>9, EventFields

\* The proposal of the step a request stands at.
LEMMA StepIsQueued ==
    ASSUME NEW s \in State, NEW w \in Work, NEW e \in Event, w.plan \in Plans,
           RecordsAreWhole(s), QueueJobFits(s, "read", w, e)
    PROVE  RecordsAreWhole(Reduce(s, e)) /\ QueueJobFits(Reduce(s, e), "stored", w, e)
<1> DEFINE t == Reduce(s, e)
           p == w.plan
           steps == StepsOf(s, p)
           id == Last(t.queue).id
           done == CollectedProposal(t, w)
<1>1. /\ HasPlan(s, p, "approved") /\ w.steps = steps /\ w.at \in ToQueue(steps, 0)
      /\ \A d \in DOMAIN w.done : w.done[d].step < w.at
      /\ e = StepIntent(p, steps, w.at)
      /\ QueueDone(s, p, w.done)
  BY DEF QueueJobFits
<1>2. e.type = "user_intent" /\ e.plan = p /\ e.step = w.at /\ e.tool = steps[w.at].tool
  BY <1>1 DEF StepIntent
<1>w. w.done \in Seq(Done) /\ w.at \in Nat
  BY DEF Work
<1>3. \A i \in DOMAIN s.queue : ~ (s.queue[i].id.plan = p /\ s.queue[i].id.step = w.at)
  <2> SUFFICES ASSUME NEW i \in DOMAIN s.queue, s.queue[i].id.plan = p, s.queue[i].id.step = w.at
               PROVE  FALSE
    OBVIOUS
  <2>1. AllRecorded(s, {w.done[d].proposal : d \in DOMAIN w.done})
    BY <1>1 DEF QueueDone
  <2>2. p # NoPlan
    BY PlansAssumption
  <2>3. CASE IsRecorded(s, s.queue[i].id)
    <3>1. steps[w.at].proposal = s.queue[i].id
      BY <2>3 DEF IsRecorded
    <3>2. steps[w.at].proposal = NoProposal
      BY <1>1 DEF ToQueue
    <3>3. s.queue[i].id.index = i /\ i # 0
      BY StateParts DEF RecordsAreWhole
    <3> QED
      BY <3>1, <3>2, <3>3 DEF NoProposal
  <2>4. CASE s.queue[i].id \in {w.done[d].proposal : d \in DOMAIN w.done}
    <3>1. PICK d \in DOMAIN w.done : s.queue[i].id = w.done[d].proposal
      BY <2>4
    <3>2. s.queue[i].id.step = w.done[d].step
      BY <1>1, <3>1 DEF QueueDone
    <3> QED
      BY <1>1, <1>w, <3>2
  <2> QED
    BY <2>1, <2>2, <2>3, <2>4 DEF AllRecorded
<1>4. t = ReduceIntent(s, e)
  BY <1>2 DEF Reduce
<1> HIDE DEF steps, p, t, id
<1>5. /\ RecordsAreWhole(t) /\ t.plans = s.plans /\ t.queue # <<>>
      /\ KeepsQueue(s, t)
      /\ HasProposal(t, id) /\ id.plan = p /\ id.step = w.at
      /\ ProposalOf(t, id).tool = steps[w.at].tool
      /\ \A ids : AllRecorded(s, ids) => AllRecorded(t, ids \cup {id})
  BY <1>2, <1>3, <1>4, IntentKeepsRecords DEF id
<1>6. StepsOf(t, p) = steps /\ HasPlan(t, p, "approved")
  BY <1>1, <1>5, SamePlans DEF steps
<1> DEFINE n == Len(w.done) + 1
           last == [step |-> w.at, proposal |-> id, receipt |-> NoReceipt]
<1>7. /\ DOMAIN done = 1 .. n /\ DOMAIN w.done = 1 .. (n - 1) /\ n \in Nat /\ n # 0
      /\ \A d \in DOMAIN w.done : done[d] = w.done[d]
      /\ done[n] = last
  <2>1. done = Append(w.done, last)
    BY DEF CollectedProposal, id
  <2> HIDE DEF last, done
  <2> QED
    BY <1>w, <2>1, OneMore
<1>l. last.step = w.at /\ last.proposal = id
  OBVIOUS
<1> HIDE DEF done, n, last
<1>8. \A d \in DOMAIN done : d = n \/ d \in DOMAIN w.done
  BY <1>7
<1>9. QueueDone(t, p, done)
  <2>1. ASSUME NEW d \in DOMAIN done
        PROVE  LET a == done[d].proposal
               IN  /\ done[d].step \in ToQueue(steps, 0)
                   /\ HasProposal(t, a) /\ a.plan = p /\ a.step = done[d].step
                   /\ ProposalOf(t, a).tool = steps[a.step].tool
    <3>1. CASE d = n
      BY <1>1, <1>5, <1>7, <1>l, <3>1
    <3>2. CASE d \in DOMAIN w.done
      <4> DEFINE a == w.done[d].proposal
      <4>1. /\ w.done[d].step \in ToQueue(steps, 0)
            /\ HasProposal(s, a) /\ a.plan = p /\ a.step = w.done[d].step
            /\ ProposalOf(s, a).tool = steps[a.step].tool
        BY <1>1, <3>2 DEF QueueDone, steps
      <4>2. HasProposal(t, a) /\ ProposalOf(t, a).tool = ProposalOf(s, a).tool
        BY <1>5, <4>1, KeptQueue
      <4>3. done[d] = w.done[d]
        BY <1>7, <3>2
      <4> QED
        BY <4>1, <4>2, <4>3
    <3> QED
      BY <1>8, <3>1, <3>2
  <2>2. AllRecorded(t, {done[d].proposal : d \in DOMAIN done})
    <3>1. AllRecorded(t, {w.done[d].proposal : d \in DOMAIN w.done} \cup {id})
      BY <1>1, <1>5 DEF QueueDone
    <3>2. {w.done[d].proposal : d \in DOMAIN w.done} \cup {id} \subseteq {done[d].proposal : d \in DOMAIN done}
      <4>1. n \in DOMAIN done /\ done[n].proposal = id
        BY <1>7, <1>l
      <4>2. \A d \in DOMAIN w.done : d \in DOMAIN done /\ done[d].proposal = w.done[d].proposal
        BY <1>7
      <4> QED
        BY <4>1, <4>2
    <3> QED
      BY <3>1, <3>2 DEF AllRecorded
  <2> QED
    BY <1>6, <2>1, <2>2 DEF QueueDone
<1>10. QueueJobFits(t, "stored", w, e)
  BY <1>1, <1>5, <1>6, <1>9 DEF QueueJobFits, done, p
<1> QED
  BY <1>5, <1>10 DEF t

\* The receipt of the step a request stands at.
LEMMA StepIsExecuted ==
    ASSUME NEW s \in State, NEW w \in Work, NEW e \in Event, w.plan \in Plans,
           RecordsAreWhole(s), ReceiptsAreTrue(s), ExecutionJobFits(s, "read", w, e)
    PROVE  RecordsAreWhole(Reduce(s, e)) /\ ExecutionJobFits(Reduce(s, e), "stored", w, e)
<1> DEFINE t == Reduce(s, e)
           p == w.plan
           steps == StepsOf(s, p)
           id == steps[w.at].proposal
           done == CollectedReceipt(t, w)
           r == Last(t.audit)
<1>1. /\ HasPlan(s, p, "approved") /\ w.steps = steps /\ w.at \in DOMAIN steps
      /\ HasReview(s, id, "approved")
      /\ e = ExecutionRequest(ProposalOf(s, id))
      /\ ExecutionDone(s, p, w.done)
  BY DEF ExecutionJobFits
<1>2. HasProposal(s, id) /\ ProposalOf(s, id).id = id
  BY <1>1 DEF HasReview, HasProposal, ProposalOf
<1>w. w.done \in Seq(Done)
  BY DEF Work
<1> HIDE DEF steps, p, id
<1>3. e.type = "execution_request" /\ e.id = id
  BY <1>1, <1>2 DEF ExecutionRequest
<1>4. t = ReduceExecutionRequest(s, e)
  BY <1>3 DEF Reduce
<1>e. HasProposal(s, e.id) /\ e = ExecutionRequest(ProposalOf(s, e.id))
  BY <1>1, <1>2, <1>3
<1> HIDE DEF t, r
<1>5. /\ RecordsAreWhole(t) /\ t.plans = s.plans /\ t.audit # <<>> /\ t.queue = s.queue
      /\ Range(s.audit) \subseteq Range(t.audit)
      /\ r \in Range(t.audit) /\ r.proposal = e.id
      /\ HasReview(s, e.id, "approved") =>
            r.status \in Useful \/ ProposalOf(s, e.id).tool = "boh.retrieve_proposed"
      /\ \A ids : AllRecorded(s, ids) => AllRecorded(t, ids)
  BY <1>3, <1>4, <1>e, ExecutionKeepsRecords DEF r
<1>6. StepsOf(t, p) = steps /\ HasPlan(t, p, "approved")
  BY <1>1, <1>5, SamePlans DEF steps
<1>q. \A a, review : /\ HasReview(t, a, review) = HasReview(s, a, review)
                     /\ ProposalOf(t, a) = ProposalOf(s, a)
  BY <1>5 DEF HasReview, HasProposal, ProposalOf
<1> DEFINE n == Len(w.done) + 1
           last == [step |-> w.at, proposal |-> id, receipt |-> r]
<1>7. /\ DOMAIN done = 1 .. n /\ DOMAIN w.done = 1 .. (n - 1)
      /\ \A d \in DOMAIN w.done : done[d] = w.done[d]
      /\ done[n] = last
  <2>1. done = Append(w.done, last)
    BY <1>1 DEF CollectedReceipt, id, r
  <2> HIDE DEF last, done
  <2> QED
    BY <1>w, <2>1, OneMore
<1>l. last.receipt = r /\ last.proposal = id
  OBVIOUS
<1> HIDE DEF done, last
<1>8. \A d \in DOMAIN done : d = n \/ d \in DOMAIN w.done
  BY <1>7, <1>w
<1> HIDE DEF n
<1>9. ExecutionDone(t, p, done)
  <2>1. ASSUME NEW d \in DOMAIN done
        PROVE  /\ done[d].receipt \in Range(t.audit)
               /\ done[d].receipt.proposal = done[d].proposal
               /\ HasReview(t, done[d].proposal, "approved")
               /\ \/ done[d].receipt.status \in Useful
                  \/ ProposalOf(t, done[d].proposal).tool = "boh.retrieve_proposed"
    <3>1. CASE d = n
      <4>1. done[d].receipt = r /\ done[d].proposal = id
        BY <1>7, <1>l, <3>1
      <4> QED
        BY <1>1, <1>3, <1>5, <1>q, <4>1
    <3>2. CASE d \in DOMAIN w.done
      <4>1. done[d] = w.done[d]
        BY <1>7, <3>2
      <4> QED
        BY <1>1, <1>5, <1>q, <3>2, <4>1 DEF ExecutionDone
    <3> QED
      BY <1>8, <3>1, <3>2
  <2>2. AllRecorded(t, {})
    BY <1>1, <1>5 DEF ExecutionDone
  <2> QED
    BY <1>6, <2>1, <2>2 DEF ExecutionDone
<1>10. ExecutionJobFits(t, "stored", w, e)
  BY <1>1, <1>5, <1>6, <1>9, <1>q DEF ExecutionJobFits, done, p, id
<1> QED
  BY <1>5, <1>10 DEF t

-----------------------------------------------------------------------------
\* As long as no two requests overlapped, STATE is whole and the one request
\* under way, if any, finds what it checked.

SerialInv == IInv /\ Serial

\* A request that begins while none is under way.
LEMMA BeginIsSerial ==
    ASSUME IInv, Serial, NEW c \in Clients, NEW e, NEW w, Begin(c, e, w),
           overlaps = 0 /\ RecordsAreWhole(state) /\ AllRecorded(state, {}) =>
               JobFits(state, "begun", w, e)
    PROVE  Serial'
<1> SUFFICES ASSUME overlaps' = 0 PROVE Serial'
  BY DEF Serial
<1>1. /\ overlaps = 0 /\ \A d \in Clients : pc[d] = "idle"
      /\ pc' = [pc EXCEPT ![c] = "begun"] /\ event' = [event EXCEPT ![c] = e]
      /\ work' = [work EXCEPT ![c] = w] /\ state' = state /\ base' = base
  BY DEF Begin, Arrives, IInv, TypeOK
<1>2. RecordsAreWhole(state) /\ AllRecorded(state, {}) /\ JobFits(state, "begun", w, e)
  BY <1>1 DEF Serial
<1>3. /\ \A d \in Clients : d # c => pc'[d] = "idle"
      /\ pc'[c] = "begun" /\ work'[c] = w /\ event'[c] = e
  BY <1>1 DEF IInv, TypeOK
<1> QED
  BY <1>1, <1>2, <1>3 DEF Serial

\* A request that goes on.
LEMMA ContinueIsSerial ==
    ASSUME IInv, Serial, NEW c \in Clients, NEW e, NEW w, pc[c] = "stored", Continue(c, e, w),
           overlaps = 0 /\ RecordsAreWhole(state) => JobFits(state, "begun", w, e)
    PROVE  Serial'
<1> SUFFICES ASSUME overlaps' = 0 PROVE Serial'
  BY DEF Serial
<1>1. /\ overlaps = 0
      /\ pc' = [pc EXCEPT ![c] = "begun"] /\ event' = [event EXCEPT ![c] = e]
      /\ work' = [work EXCEPT ![c] = w] /\ state' = state /\ base' = base
  BY DEF Continue
<1>2. /\ RecordsAreWhole(state) /\ JobFits(state, "begun", w, e)
      /\ \A d \in Clients : d # c => pc[d] = "idle"
  BY <1>1 DEF Serial
<1>3. /\ \A d \in Clients : d # c => pc'[d] = "idle"
      /\ pc'[c] = "begun" /\ work'[c] = w /\ event'[c] = e
  BY <1>1, <1>2 DEF IInv, TypeOK
<1> QED
  BY <1>1, <1>2, <1>3 DEF Serial

\* A request that ends, with what it leaves.
LEMMA EndIsSerial ==
    ASSUME IInv, Serial, NEW c \in Clients, pc' = [pc EXCEPT ![c] = "idle"], pc[c] # "idle",
           overlaps' = overlaps,
           overlaps = 0 => RecordsAreWhole(state') /\ AllRecorded(state', {})
    PROVE  Serial'
<1>1. overlaps = 0 => \A d \in Clients : pc'[d] = "idle"
  BY DEF Serial, IInv, TypeOK
<1> QED
  BY <1>1 DEF Serial

\* The requests of one event check what the event is to find.
LEMMA SingleIsSerial ==
    ASSUME IInv, Serial, NEW c \in Clients,
           \/ OtherEvent(c) \/ Propose(c) \/ ReviewProposal(c) \/ RequestExecution(c)
           \/ CreatePlan(c) \/ ReviewPlan(c) \/ BindResults(c)
    PROVE  Serial'
<1> USE DEF JobFits, EventFits
<1>0. Single.job = "single" /\ NoEvent.type = "other"
  BY DEF Single, NoEvent
<1>p. ASSUME NEW i \in DOMAIN state.queue, RecordsAreWhole(state)
      PROVE  HasProposal(state, state.queue[i].id) /\ ProposalOf(state, state.queue[i].id) = state.queue[i]
  BY <1>p DEF RecordsAreWhole, HasProposal, ProposalOf
<1>1. CASE OtherEvent(c)
  <2>1. Begin(c, NoEvent, Single)
    BY <1>1 DEF OtherEvent
  <2>2. AllRecorded(state, {}) => JobFits(state, "begun", Single, NoEvent)
    BY <1>0
  <2> QED
    BY <2>1, <2>2, BeginIsSerial
<1>2. CASE Propose(c)
  <2>1. PICK tool \in RequestTools :
           Begin(c, [type |-> "user_intent", tool |-> tool, plan |-> NoPlan, step |-> 0], Single)
    BY <1>2 DEF Propose
  <2> DEFINE e == [type |-> "user_intent", tool |-> tool, plan |-> NoPlan, step |-> 0]
  <2>2. AllRecorded(state, {}) => JobFits(state, "begun", Single, e)
    BY <1>0
  <2>3. Begin(c, e, Single)
    BY <2>1
  <2> HIDE DEF e
  <2> QED
    BY <2>2, <2>3, BeginIsSerial
<1>3. CASE ReviewProposal(c)
  <2>1. PICK i \in DOMAIN state.queue, decision \in {"approved", "denied"} :
           /\ state.queue[i].review = "pending"
           /\ Begin(c, [type |-> "proposal_review", id |-> state.queue[i].id,
                        decision |-> decision], Single)
    BY <1>3 DEF ReviewProposal
  <2> DEFINE e == [type |-> "proposal_review", id |-> state.queue[i].id, decision |-> decision]
  <2>2. RecordsAreWhole(state) => HasReview(state, state.queue[i].id, "pending")
    BY <1>p, <2>1 DEF HasReview
  <2>3. RecordsAreWhole(state) /\ AllRecorded(state, {}) => JobFits(state, "begun", Single, e)
    BY <1>0, <2>2
  <2>4. Begin(c, e, Single)
    BY <2>1
  <2> HIDE DEF e
  <2> QED
    BY <2>3, <2>4, BeginIsSerial
<1>4. CASE RequestExecution(c)
  <2>1. PICK i \in DOMAIN state.queue : Begin(c, ExecutionRequest(state.queue[i]), Single)
    BY <1>4 DEF RequestExecution
  <2> DEFINE e == ExecutionRequest(state.queue[i])
  <2>2. e.type = "execution_request" /\ e.id = state.queue[i].id
    BY DEF ExecutionRequest
  <2>4. Begin(c, e, Single)
    BY <2>1
  <2>3. RecordsAreWhole(state) =>
           HasProposal(state, e.id) /\ e = ExecutionRequest(ProposalOf(state, e.id))
    BY <1>p, <2>2
  <2> HIDE DEF e
  <2>5. RecordsAreWhole(state) /\ AllRecorded(state, {}) => JobFits(state, "begun", Single, e)
    BY <1>0, <2>2, <2>3
  <2> QED
    BY <2>4, <2>5, BeginIsSerial
<1>5. CASE CreatePlan(c)
  <2>1. PICK p \in Plans : PlanIndex(state, p) = 0 /\ Begin(c, [type |-> "tool_plan", plan |-> p], Single)
    BY <1>5 DEF CreatePlan
  <2> DEFINE e == [type |-> "tool_plan", plan |-> p]
  <2>2. AllRecorded(state, {}) => JobFits(state, "begun", Single, e)
    BY <1>0, <2>1
  <2>3. Begin(c, e, Single)
    BY <2>1
  <2> HIDE DEF e
  <2> QED
    BY <2>2, <2>3, BeginIsSerial
<1>6. CASE ReviewPlan(c)
  <2>1. PICK p \in Plans, decision \in {"approved", "denied"} :
           /\ HasPlan(state, p, "pending")
           /\ Begin(c, [type |-> "tool_plan_review", plan |-> p, decision |-> decision], Single)
    BY <1>6 DEF ReviewPlan
  <2> DEFINE e == [type |-> "tool_plan_review", plan |-> p, decision |-> decision]
  <2>2. AllRecorded(state, {}) => JobFits(state, "begun", Single, e)
    BY <1>0, <2>1
  <2>3. Begin(c, e, Single)
    BY <2>1
  <2> HIDE DEF e
  <2> QED
    BY <2>2, <2>3, BeginIsSerial
<1>7. CASE BindResults(c)
  <2>1. PICK p \in Plans :
           /\ HasPlan(state, p, "approved")
           /\ Begin(c, [type |-> "tool_plan_result_binding", plan |-> p,
                        ids |-> Bindable(state, StepsOf(state, p))], Single)
    BY <1>7 DEF BindResults
  <2> DEFINE e == [type |-> "tool_plan_result_binding", plan |-> p,
                   ids |-> Bindable(state, StepsOf(state, p))]
  <2>2. AllRecorded(state, {}) => JobFits(state, "begun", Single, e)
    BY <1>0, <2>1
  <2>3. Begin(c, e, Single)
    BY <2>1
  <2> HIDE DEF e
  <2> QED
    BY <2>2, <2>3, BeginIsSerial
<1> QED
  BY <1>1, <1>2, <1>3, <1>4, <1>5, <1>6, <1>7

\* The requests that run through a plan.
LEMMA PlanJobIsSerial ==
    ASSUME IInv, Serial, NEW c \in Clients, QueueSteps(c) \/ ExecuteSteps(c)
    PROVE  Serial'
<1>1. CASE QueueSteps(c)
  <2>1. PICK p \in Plans : \E k \in ToQueue(StepsOf(state, p), 0) :
           /\ HasPlan(state, p, "approved")
           /\ Begin(c, StepIntent(p, StepsOf(state, p), k),
                    [job |-> "queue_steps", plan |-> p, steps |-> StepsOf(state, p),
                     at |-> k, done |-> <<>>])
    BY <1>1 DEF QueueSteps
  <2>k. PICK k \in ToQueue(StepsOf(state, p), 0) :
           Begin(c, StepIntent(p, StepsOf(state, p), k),
                 [job |-> "queue_steps", plan |-> p, steps |-> StepsOf(state, p),
                  at |-> k, done |-> <<>>])
    BY <2>1
  <2> DEFINE w == [job |-> "queue_steps", plan |-> p, steps |-> StepsOf(state, p),
                   at |-> k, done |-> <<>>]
             e == StepIntent(p, StepsOf(state, p), k)
  <2>2. /\ w.job = "queue_steps" /\ w.plan = p /\ w.steps = StepsOf(state, p)
        /\ w.at = k /\ w.done = <<>>
    OBVIOUS
  <2>3. Begin(c, e, w)
    BY <2>k
  <2>e. e = StepIntent(p, StepsOf(state, p), k)
    OBVIOUS
  <2> HIDE DEF w, e
  <2>4. ASSUME AllRecorded(state, {})
        PROVE  JobFits(state, "begun", w, e)
    <3>1. DOMAIN w.done = {}
      BY <2>2
    <3>2. QueueDone(state, p, w.done)
      BY <2>1, <2>4, <3>1 DEF QueueDone
    <3> QED
      BY <2>1, <2>2, <2>e, <3>1, <3>2 DEF JobFits, QueueJobFits
  <2> QED
    BY <2>3, <2>4, BeginIsSerial
<1>2. CASE ExecuteSteps(c)
  <2>1. PICK p \in Plans : \E k \in ToExecute(state, StepsOf(state, p), 0) :
           /\ HasPlan(state, p, "approved")
           /\ Begin(c, ExecutionRequest(ProposalOf(state, StepsOf(state, p)[k].proposal)),
                    [job |-> "request_execution", plan |-> p, steps |-> StepsOf(state, p),
                     at |-> k, done |-> <<>>])
    BY <1>2 DEF ExecuteSteps
  <2>k. PICK k \in ToExecute(state, StepsOf(state, p), 0) :
           Begin(c, ExecutionRequest(ProposalOf(state, StepsOf(state, p)[k].proposal)),
                 [job |-> "request_execution", plan |-> p, steps |-> StepsOf(state, p),
                  at |-> k, done |-> <<>>])
    BY <2>1
  <2> DEFINE w == [job |-> "request_execution", plan |-> p, steps |-> StepsOf(state, p),
                   at |-> k, done |-> <<>>]
             e == ExecutionRequest(ProposalOf(state, StepsOf(state, p)[k].proposal))
  <2>2. /\ w.job = "request_execution" /\ w.plan = p /\ w.steps = StepsOf(state, p)
        /\ w.at = k /\ w.done = <<>>
    OBVIOUS
  <2>3. Begin(c, e, w)
    BY <2>k
  <2>e. e = ExecutionRequest(ProposalOf(state, StepsOf(state, p)[k].proposal))
    OBVIOUS
  <2> HIDE DEF w, e
  <2>4. ASSUME AllRecorded(state, {})
        PROVE  JobFits(state, "begun", w, e)
    <3>1. DOMAIN w.done = {}
      BY <2>2
    <3>2. ExecutionDone(state, p, w.done)
      BY <2>1, <2>4, <3>1 DEF ExecutionDone
    <3>3. k \in DOMAIN StepsOf(state, p) /\ HasReview(state, StepsOf(state, p)[k].proposal, "approved")
      BY DEF ToExecute
    <3> QED
      BY <2>1, <2>2, <2>e, <3>2, <3>3 DEF JobFits, ExecutionJobFits
  <2> QED
    BY <2>3, <2>4, BeginIsSerial
<1> QED
  BY <1>1, <1>2

\* Nothing happens between a request's steps, so the copy it reads is STATE still.
LEMMA ReadIsSerial ==
    ASSUME IInv, Serial, NEW c \in Clients, Read(c)
    PROVE  Serial'
<1> SUFFICES ASSUME overlaps' = 0 PROVE Serial'
  BY DEF Serial
<1>1. /\ overlaps = 0 /\ pc[c] = "begun" /\ pc' = [pc EXCEPT ![c] = "read"]
      /\ base' = [base EXCEPT ![c] = state] /\ state' = state /\ event' = event /\ work' = work
  BY DEF Read
<1>2. /\ RecordsAreWhole(state) /\ JobFits(state, "begun", work[c], event[c])
      /\ \A d \in Clients : d # c => pc[d] = "idle"
  BY <1>1 DEF Serial
<1>3. JobFits(state, "read", work[c], event[c])
  BY <1>2 DEF JobFits, QueueJobFits, ExecutionJobFits
<1>4. /\ \A d \in Clients : d # c => pc'[d] = "idle"
      /\ pc'[c] = "read" /\ base'[c] = state
  BY <1>1, <1>2 DEF IInv, TypeOK
<1> QED
  BY <1>1, <1>2, <1>3, <1>4 DEF Serial

\* With nothing stored between, a reduced copy says what STATE would.
LEMMA StoreIsSerial ==
    ASSUME IInv, Serial, NEW c \in Clients, Store(c)
    PROVE  Serial'
<1> SUFFICES ASSUME overlaps' = 0 PROVE Serial'
  BY DEF Serial
<1> DEFINE s == state
           t == Reduce(s, event[c])
           w == work[c]
           e == event[c]
<1>1. overlaps = 0 /\ pc[c] = "read" /\ overlaps' = overlaps
  BY DEF Store
<1>2. /\ RecordsAreWhole(s) /\ JobFits(s, "read", w, e) /\ base[c] = s
      /\ \A d \in Clients : d # c => pc[d] = "idle"
  BY <1>1 DEF Serial
<1>3. state' = t
  BY <1>2 DEF Store
<1>4. /\ s \in State /\ e \in Event /\ w \in Work /\ ReceiptsAreTrue(s)
      /\ w.job # "single" => w.plan \in Plans
      /\ w.job \in {"single", "queue_steps", "request_execution"}
  <2>1. s \in State /\ e \in Event /\ w \in Work
    BY DEF IInv, TypeOK
  <2> HIDE DEF w, e, s
  <2>2. w.job \in {"single", "queue_steps", "request_execution"}
    BY <2>1 DEF Work
  <2> USE DEF w, e, s
  <2> QED
    BY <2>1, <2>2 DEF IInv, JobStandsAtStep
<1> HIDE DEF t
<1>5. CASE w.job = "single"
  <2>1. RecordsAreWhole(t) /\ AllRecorded(t, {})
    BY <1>2, <1>4, <1>5, SingleIsStored DEF t, JobFits
  <2>2. pc' = [pc EXCEPT ![c] = "idle"]
    BY <1>5 DEF Store, Finish
  <2> QED
    BY <1>1, <1>3, <2>1, <2>2, EndIsSerial
<1>6. CASE w.job # "single"
  <2>1. pc' = [pc EXCEPT ![c] = "stored"] /\ event' = event /\ work' = work
    BY <1>6 DEF Store
  <2>2. RecordsAreWhole(t) /\ JobFits(t, "stored", w, e)
    <3>1. CASE w.job = "queue_steps"
      <4>1. QueueJobFits(s, "read", w, e)
        BY <1>2, <3>1 DEF JobFits
      <4>2. RecordsAreWhole(t) /\ QueueJobFits(t, "stored", w, e)
        BY <1>2, <1>4, <1>6, <4>1, StepIsQueued DEF t
      <4> QED
        BY <3>1, <4>2 DEF JobFits
    <3>2. CASE w.job = "request_execution"
      <4>1. ExecutionJobFits(s, "read", w, e)
        BY <1>2, <3>2 DEF JobFits
      <4>2. RecordsAreWhole(t) /\ ExecutionJobFits(t, "stored", w, e)
        BY <1>2, <1>4, <1>6, <4>1, StepIsExecuted DEF t
      <4> QED
        BY <3>2, <4>2 DEF JobFits
    <3> QED
      BY <1>4, <1>6, <3>1, <3>2
  <2>3. /\ \A d \in Clients : d # c => pc'[d] = "idle"
        /\ pc'[c] = "stored" /\ work'[c] = w /\ event'[c] = e
    BY <1>2, <2>1 DEF IInv, TypeOK
  <2> QED
    BY <1>3, <2>2, <2>3 DEF Serial
<1> QED
  BY <1>5, <1>6

\* A request that keeps its plan and goes on with a later step.
AtStep(w, k, done) == [w EXCEPT !.at = k, !.done = done]

LEMMA AtStepIs ==
    ASSUME NEW w \in Work, NEW k, NEW done
    PROVE  LET v == AtStep(w, k, done)
           IN  /\ v.job = w.job /\ v.plan = w.plan /\ v.steps = w.steps
               /\ v.at = k /\ v.done = done
BY DEF AtStep, Work

\* The proposal found at the end of the queue is the one just made.
LEMMA CollectProposalIsSerial ==
    ASSUME IInv, Serial, NEW c \in Clients, CollectProposal(c)
    PROVE  Serial'
<1> DEFINE w == work[c]
           done == CollectedProposal(state, w)
           e == [type |-> "tool_plan_step_queue", plan |-> w.plan, done |-> done]
<1>1. w \in Work /\ pc[c] = "stored" /\ w.job = "queue_steps"
  BY DEF IInv, TypeOK, CollectProposal
<1>2. overlaps = 0 => QueueJobFits(state, "stored", w, event[c])
  BY <1>1 DEF Serial, JobFits
<1>3. overlaps = 0 => state.queue # <<>> /\ QueueDone(state, w.plan, done)
  BY <1>2 DEF QueueJobFits
<1>4. CASE overlaps # 0
  <2>1. overlaps' = overlaps
    BY DEF CollectProposal, Record, Continue
  <2> QED
    BY <1>4, <2>1 DEF Serial
<1>5. CASE overlaps = 0
  <2>1. \/ Continue(c, e, Single)
        \/ \E k \in ToQueue(w.steps, w.at) :
              Continue(c, StepIntent(w.plan, w.steps, k), AtStep(w, k, done))
    BY <1>3, <1>5 DEF CollectProposal, CollectedProposal, Record, AtStep
  <2>2. CASE Continue(c, e, Single)
    <3>1. e.type = "tool_plan_step_queue" /\ e.plan = w.plan /\ e.done = done
      OBVIOUS
    <3> HIDE DEF e
    <3>2. Single.job = "single"
      BY DEF Single
    <3>3. JobFits(state, "begun", Single, e)
      BY <1>3, <1>5, <3>1, <3>2 DEF JobFits, EventFits
    <3> QED
      BY <1>1, <2>2, <3>3, ContinueIsSerial
  <2>3. CASE \E k \in ToQueue(w.steps, w.at) :
                Continue(c, StepIntent(w.plan, w.steps, k), AtStep(w, k, done))
    <3>1. PICK k \in ToQueue(w.steps, w.at) :
             Continue(c, StepIntent(w.plan, w.steps, k), AtStep(w, k, done))
      BY <2>3
    <3> DEFINE v == AtStep(w, k, done)
               i == StepIntent(w.plan, w.steps, k)
    <3>2. Continue(c, i, v)
      BY <3>1
    <3>3. /\ v.job = "queue_steps" /\ v.plan = w.plan /\ v.steps = w.steps
          /\ v.at = k /\ v.done = done
      BY <1>1, AtStepIs
    <3>4. /\ HasPlan(state, w.plan, "approved") /\ w.steps = StepsOf(state, w.plan)
          /\ w.at \in ToQueue(w.steps, 0) /\ \A d \in DOMAIN w.done : w.done[d].step < w.at
      BY <1>2, <1>5 DEF QueueJobFits
    <3>s. w.steps \in Seq(Step) /\ w.done \in Seq(Done) /\ w.at \in Nat
      <4>1. w \in Work
        BY <1>1
      <4> HIDE DEF w
      <4> QED
        BY <4>1 DEF Work
    <3>5. k \in ToQueue(w.steps, 0) /\ w.at < k /\ k \in Nat
      <4> HIDE DEF w
      <4> QED
        BY <3>s DEF ToQueue
    <3>6. \A d \in DOMAIN done : done[d].step < k
      <4> DEFINE new == [step |-> w.at, proposal |-> Last(state.queue).id, receipt |-> NoReceipt]
      <4>1. done = Append(w.done, new) /\ new.step = w.at
        BY DEF CollectedProposal
      <4> HIDE DEF done, new, w
      <4>2. \A d \in DOMAIN w.done : w.done[d].step \in Nat
        <5>1. \A d \in DOMAIN w.done : w.done[d] \in Done
          BY <3>s
        <5> QED
          BY <5>1 DEF Done
      <4>3. \A d \in DOMAIN done : done[d] = new \/ (d \in DOMAIN w.done /\ done[d] = w.done[d])
        BY <3>s, <4>1, OneMore
      <4> QED
        BY <3>4, <3>5, <3>s, <4>1, <4>2, <4>3
    <3>7. QueueDone(state, v.plan, v.done)
      BY <1>3, <1>5, <3>3
    <3>8. i = StepIntent(v.plan, v.steps, v.at)
      BY <3>3
    <3> HIDE DEF v, i, w, done
    <3>9. QueueJobFits(state, "begun", v, i)
      BY <3>3, <3>4, <3>5, <3>6, <3>7, <3>8 DEF QueueJobFits
    <3>10. JobFits(state, "begun", v, i)
      BY <3>3, <3>9 DEF JobFits
    <3> QED
      BY <1>1, <3>2, <3>10, ContinueIsSerial DEF w
  <2> QED
    BY <2>1, <2>2, <2>3
<1> QED
  BY <1>4, <1>5

\* The receipt found at the end of the log is the one just made.
LEMMA CollectReceiptIsSerial ==
    ASSUME IInv, Serial, NEW c \in Clients, CollectReceipt(c)
    PROVE  Serial'
<1> DEFINE w == work[c]
           done == CollectedReceipt(state, w)
           e == [type |-> "tool_plan_execution_request", plan |-> w.plan, done |-> done]
<1>1. w \in Work /\ pc[c] = "stored" /\ w.job = "request_execution"
  BY DEF IInv, TypeOK, CollectReceipt
<1>2. overlaps = 0 => ExecutionJobFits(state, "stored", w, event[c])
  BY <1>1 DEF Serial, JobFits
<1>3. overlaps = 0 => ExecutionDone(state, w.plan, done)
  BY <1>2 DEF ExecutionJobFits
<1>4. CASE overlaps # 0
  <2>1. overlaps' = overlaps
    BY DEF CollectReceipt, Record, Continue
  <2> QED
    BY <1>4, <2>1 DEF Serial
<1>5. CASE overlaps = 0
  <2>1. \/ Continue(c, e, Single)
        \/ \E k \in ToExecute(state, w.steps, w.at) :
              Continue(c, ExecutionRequest(ProposalOf(state, w.steps[k].proposal)),
                       AtStep(w, k, done))
    BY DEF CollectReceipt, CollectedReceipt, Record, AtStep
  <2>2. CASE Continue(c, e, Single)
    <3>1. e.type = "tool_plan_execution_request" /\ e.plan = w.plan /\ e.done = done
      OBVIOUS
    <3> HIDE DEF e
    <3>2. Single.job = "single"
      BY DEF Single
    <3>3. AllRecorded(state, {})
      BY <1>3, <1>5 DEF ExecutionDone
    <3>4. JobFits(state, "begun", Single, e)
      BY <1>3, <1>5, <3>1, <3>2, <3>3 DEF JobFits, EventFits
    <3> QED
      BY <1>1, <2>2, <3>4, ContinueIsSerial
  <2>3. CASE \E k \in ToExecute(state, w.steps, w.at) :
                Continue(c, ExecutionRequest(ProposalOf(state, w.steps[k].proposal)),
                         AtStep(w, k, done))
    <3>1. PICK k \in ToExecute(state, w.steps, w.at) :
             Continue(c, ExecutionRequest(ProposalOf(state, w.steps[k].proposal)),
                      AtStep(w, k, done))
      BY <2>3
    <3> DEFINE v == AtStep(w, k, done)
               i == ExecutionRequest(ProposalOf(state, w.steps[k].proposal))
    <3>2. Continue(c, i, v)
      BY <3>1
    <3>3. /\ v.job = "request_execution" /\ v.plan = w.plan /\ v.steps = w.steps
          /\ v.at = k /\ v.done = done
      BY <1>1, AtStepIs
    <3>4. HasPlan(state, w.plan, "approved") /\ w.steps = StepsOf(state, w.plan)
      BY <1>2, <1>5 DEF ExecutionJobFits
    <3>5. k \in DOMAIN w.steps /\ HasReview(state, w.steps[k].proposal, "approved")
      BY DEF ToExecute
    <3>6. ExecutionDone(state, v.plan, v.done)
      BY <1>3, <1>5, <3>3
    <3>7. i = ExecutionRequest(ProposalOf(state, v.steps[v.at].proposal))
      BY <3>3
    <3> HIDE DEF v, i, w, done
    <3>8. ExecutionJobFits(state, "begun", v, i)
      BY <3>3, <3>4, <3>5, <3>6, <3>7 DEF ExecutionJobFits
    <3>9. JobFits(state, "begun", v, i)
      BY <3>3, <3>8 DEF JobFits
    <3> QED
      BY <1>1, <3>2, <3>9, ContinueIsSerial DEF w
  <2> QED
    BY <2>1, <2>2, <2>3
<1> QED
  BY <1>4, <1>5

\* In the beginning, and after a reset, there is nothing to be wrong about.
LEMMA BaselineIsWhole == RecordsAreWhole(Baseline) /\ AllRecorded(Baseline, {})
<1>1. /\ DOMAIN Baseline.queue = {} /\ DOMAIN Baseline.plans = {} /\ DOMAIN Baseline.audit = {}
  BY DEF Baseline
<1> QED
  BY <1>1 DEF RecordsAreWhole, AllRecorded, NoStepQueuedTwice

\* A request that fails between two steps leaves its receipts to no record, but no
\* proposal: those it found recorded.
LEMMA EndsAreSerial ==
    ASSUME IInv, Serial, NEW c \in Clients, ExecutionFails(c) \/ Reset(c)
    PROVE  Serial'
<1>1. CASE ExecutionFails(c)
  <2>1. /\ pc[c] = "stored" /\ work[c].job = "request_execution"
        /\ pc' = [pc EXCEPT ![c] = "idle"] /\ overlaps' = overlaps /\ state' = state
    BY <1>1 DEF ExecutionFails, Finish
  <2>2. overlaps = 0 => RecordsAreWhole(state) /\ AllRecorded(state, {})
    BY <2>1 DEF Serial, JobFits, ExecutionJobFits, ExecutionDone
  <2>3. overlaps = 0 => RecordsAreWhole(state') /\ AllRecorded(state', {})
    BY <2>1, <2>2
  <2> QED
    BY <2>1, <2>3, EndIsSerial
<1>2. CASE Reset(c)
  <2>1. state' = Baseline /\ pc' = pc
    BY <1>2 DEF Reset
  <2>2. overlaps' = 0 => \A d \in Clients : pc[d] = "idle"
    BY <1>2 DEF Reset, Arrives, IInv, TypeOK
  <2> QED
    BY <2>1, <2>2, BaselineIsWhole DEF Serial
<1> QED
  BY <1>1, <1>2

\* In the beginning no request is under way.
LEMMA InitSerial == Init => SerialInv
<1> SUFFICES ASSUME Init PROVE SerialInv
  OBVIOUS
<1>1. state = Baseline /\ \A c \in Clients : pc[c] = "idle"
  BY DEF Init
<1>2. Serial
  BY <1>1, BaselineIsWhole DEF Serial
<1> QED
  BY <1>2, InitIInv DEF SerialInv

\* Every step keeps plans whole for as long as requests do not overlap.
LEMMA NextKeepsSerial == SerialInv /\ [Next]_vars => SerialInv'
<1> SUFFICES ASSUME IInv, Serial, [Next]_vars PROVE SerialInv'
  BY DEF SerialInv
<1>1. IInv'
  BY NextKeeps
<1>2. CASE Next
  <2>1. PICK c \in Clients :
           \/ OtherEvent(c) \/ Propose(c) \/ ReviewProposal(c) \/ RequestExecution(c)
           \/ CreatePlan(c) \/ ReviewPlan(c) \/ QueueSteps(c) \/ ExecuteSteps(c) \/ BindResults(c)
           \/ Read(c) \/ Store(c) \/ CollectProposal(c) \/ CollectReceipt(c) \/ ExecutionFails(c)
           \/ Reset(c)
    BY <1>2 DEF Next
  <2>2. Serial'
    BY <2>1, SingleIsSerial, PlanJobIsSerial, ReadIsSerial, StoreIsSerial,
       CollectProposalIsSerial, CollectReceiptIsSerial, EndsAreSerial
  <2> QED
    BY <1>1, <2>2 DEF SerialInv
<1>3. CASE UNCHANGED vars
  <2>1. Serial'
    BY <1>3 DEF vars, Serial
  <2> QED
    BY <1>1, <2>1 DEF SerialInv
<1> QED
  BY <1>2, <1>3

\* What the guided advance calls bindable, bind_results can bind: before a summary
\* stand reads only, and a read's receipt that its step records is useful.
LEMMA AdvanceIsNotStuck ==
    ASSUME NEW s \in State, RecordsAreWhole(s), NEW p \in Plans, PlanIndex(s, p) # 0
    PROVE  AdvanceHelps(s, p)
<1> DEFINE x == PlanIndex(s, p)
           steps == StepsOf(s, p)
<1> SUFFICES ASSUME NextPlanAction(s, p) = "can_bind_results"
             PROVE  Bindable(s, steps) # {}
  BY DEF AdvanceHelps
<1>1. PICK k \in DOMAIN steps :
         /\ HasReview(s, steps[k].proposal, "pending") /\ steps[k].tool = "text.summarize"
         /\ \E j \in 1..(k - 1) : steps[j].receipt # NoReceipt
  BY DEF NextPlanAction
<1>2. PICK j \in 1..(k - 1) : steps[j].receipt # NoReceipt
  BY <1>1
<1>3. /\ x \in DOMAIN s.plans /\ s.plans[x].plan = p /\ steps = s.plans[x].steps
      /\ steps \in Seq(Step)
  BY PlanIndexIsPlace, StepsOfPlan DEF StepsOf
<1>4. j \in DOMAIN steps /\ j \in 1..k
  <2> HIDE DEF steps
  <2> QED
    BY <1>2, <1>3
<1>5. StepIsWhole(s, s.plans[x], k) /\ StepIsWhole(s, s.plans[x], j)
  BY <1>3, <1>4 DEF RecordsAreWhole
<1> HIDE DEF x, steps
<1>6. k \in DOMAIN PlanTools[p] /\ PlanTools[p][k] = "text.summarize"
  BY <1>1, <1>3, <1>5 DEF StepIsWhole
<1>7. PlanTools[p][j] # "boh.retrieve_proposed"
  BY <1>2, <1>6, SummariesFollowReads
<1>8. steps[j].receipt.status \in Useful /\ steps[j].receipt \in Range(s.audit)
  BY <1>2, <1>3, <1>5, <1>7 DEF StepIsWhole, StepRecordIsTrue
<1>9. HasUsefulReceipt(s, steps[j])
  BY <1>2, <1>8 DEF HasUsefulReceipt
<1> QED
  BY <1>1, <1>4, <1>9 DEF Bindable

\* While no two requests overlap, every step of a plan names a proposal made for
\* it and the receipt of that proposal, no step is queued twice, and the guided
\* advance is never stuck (brain.py:1248-1345, tool_plan_runner.py:9-65).
THEOREM SerialPlansStayWhole == Spec => []SerialRequestsKeepPlansWhole
<1>1. SerialInv => SerialRequestsKeepPlansWhole
  <2> SUFFICES ASSUME IInv, Serial, overlaps = 0
               PROVE  /\ \A i \in DOMAIN state.plans : \A k \in DOMAIN state.plans[i].steps :
                            StepRecordIsTrue(state, state.plans[i], k)
                      /\ NoStepQueuedTwice(state)
                      /\ \A p \in Plans : PlanIndex(state, p) # 0 => AdvanceHelps(state, p)
    BY DEF SerialInv, SerialRequestsKeepPlansWhole
  <2>1. state \in State /\ RecordsAreWhole(state)
    BY DEF IInv, TypeOK, Serial
  <2> QED
    BY <2>1, AdvanceIsNotStuck DEF RecordsAreWhole, StepIsWhole
<1> QED
  BY InitSerial, NextKeepsSerial, <1>1, PTL DEF Spec

(***************************************************************************)
(* The stored Google accounts.  Keyring and metadata file tell one story,  *)
(* a state parameter becomes one connection, and of overlapping requests   *)
(* none undoes another.                                                    *)
(***************************************************************************)

Token == [scopes : SUBSET Scopes, life : Lives \cup {"none"}]

StoredRecord == [connected : BOOLEAN, scopes : SUBSET Scopes, allowed : SUBSET Calendars,
           selected : SUBSET Calendars]

\* A request that knows its account, and one that was given a token to store.
Knowing == {"connecting", "saving", "forgetting", "restoring", "granted", "refreshing",
            "dispatching", "calling"}
Places == Knowing \cup {"idle", "exchanging"}

AccountWork == [at : Places, account : GoogleAccounts \cup {"none"},
         from : SignIns \cup {"none", "sign-in", "refresh"}, token : Token,
         record : StoredRecord, authorized : BOOLEAN, found : [GoogleAccounts -> StoredRecord]]

AccountsTypeOK ==
    /\ records \in [GoogleAccounts -> StoredRecord]
    /\ keyring \in [GoogleAccounts -> Token]
    /\ fileLock \in Requests \cup {NoRequest}
    /\ signIns \in [SignIns -> {"unused", "pending", "gone"}]
    /\ exchanged \in [SignIns -> Nat]
    /\ tasks \in [Requests -> AccountWork]
    /\ torn \in SUBSET GoogleAccounts
    /\ \A r \in Requests :
        /\ tasks[r].at \in Knowing => tasks[r].account \in GoogleAccounts
        /\ tasks[r].at = "exchanging" => tasks[r].from \in SignIns
        /\ tasks[r].at = "connecting" => tasks[r].token.life = "fresh"

\* A token is there or is not.
TokensAreWhole == \A a \in GoogleAccounts : keyring[a] = NoToken \/ keyring[a].life \in Lives

\* Between keyring and file is only who has the lock; it writes what the file held when it
\* took the lock, beside the token that is in the keyring.
TransactionsAreApart ==
    \A r \in Requests :
        /\ tasks[r].at \in {"saving", "forgetting"} => fileLock = r
        /\ tasks[r].at = "saving" =>
            /\ tasks[r].found = records
            /\ keyring[tasks[r].account] # NoToken
            /\ keyring[tasks[r].account].scopes = tasks[r].token.scopes
        /\ tasks[r].at = "forgetting" => keyring[tasks[r].account] = NoToken

\* An authorization is with Google, with one request, or spent.
SignInsAreSpent ==
    \A s \in SignIns :
        /\ exchanged[s] <= 1
        /\ signIns[s] # "gone" =>
            exchanged[s] = 0 /\ \A r \in Requests : ~(tasks[r].at = "exchanging" /\ tasks[r].from = s)
        /\ \A r \in Requests : tasks[r].at = "exchanging" /\ tasks[r].from = s =>
            /\ exchanged[s] = 0
            /\ \A q \in Requests \ {r} : ~(tasks[q].at = "exchanging" /\ tasks[q].from = s)

AccountsInv ==
    /\ AccountsTypeOK /\ TokensAreWhole /\ TransactionsAreApart /\ SignInsAreSpent
    /\ AccountsAgree

LEMMA NothingIsTyped ==
    /\ NoToken \in Token /\ NoRecord \in StoredRecord /\ NoRecords \in [GoogleAccounts -> StoredRecord]
    /\ NoAccountWork \in AccountWork /\ NoAccountWork.at = "idle"
<1>1. NoToken \in Token /\ NoRecord \in StoredRecord
  BY DEF NoToken, Token, NoRecord, StoredRecord
<1>2. NoRecords \in [GoogleAccounts -> StoredRecord]
  BY <1>1 DEF NoRecords
<1> QED
  BY <1>1, <1>2 DEF NoAccountWork, AccountWork, Places

LEMMA AccountsInvInit == AccountsInit => AccountsInv
<1> SUFFICES ASSUME AccountsInit PROVE AccountsInv
  OBVIOUS
<1>1. PICK known \in SUBSET GoogleAccounts, allowed \in SUBSET Calendars :
        /\ records = [a \in GoogleAccounts |->
                        IF a \in known THEN [NoRecord EXCEPT !.connected = TRUE, !.scopes = Scopes,
                                                             !.allowed = allowed]
                        ELSE NoRecord]
        /\ keyring = [a \in GoogleAccounts |->
                        IF a \in known THEN [scopes |-> Scopes, life |-> "fresh"] ELSE NoToken]
  BY DEF AccountsInit
<1> DEFINE kept == [NoRecord EXCEPT !.connected = TRUE, !.scopes = Scopes, !.allowed = allowed]
<1>2. kept \in StoredRecord /\ kept.connected /\ kept.scopes = Scopes
  BY NothingIsTyped DEF StoredRecord
<1>3. [scopes |-> Scopes, life |-> "fresh"] \in Token
  BY DEF Token, Lives
<1> HIDE DEF kept
<1>4. records \in [GoogleAccounts -> StoredRecord] /\ keyring \in [GoogleAccounts -> Token]
  BY <1>1, <1>2, <1>3, NothingIsTyped DEF kept
<1>5. \A r \in Requests : tasks[r] = NoAccountWork
  BY DEF AccountsInit
<1>6. AccountsTypeOK
  BY <1>4, <1>5, NothingIsTyped DEF AccountsInit, AccountsTypeOK, Knowing
<1>7. TokensAreWhole
  BY <1>1 DEF TokensAreWhole, Lives
<1>8. TransactionsAreApart /\ SignInsAreSpent
  BY <1>5, NothingIsTyped DEF AccountsInit, TransactionsAreApart, SignInsAreSpent
<1>9. AccountsAgree
  <2> SUFFICES ASSUME NEW a \in GoogleAccounts
               PROVE  /\ Connected(a) <=> keyring[a] # NoToken
                      /\ records[a].scopes = keyring[a].scopes
    BY DEF AccountsAgree
  <2>1. CASE a \in known
    BY <2>1, <1>1, <1>2 DEF Connected, NoToken, kept
  <2>2. CASE a \notin known
    BY <2>2, <1>1 DEF Connected, NoToken, NoRecord
  <2> QED
    BY <2>1, <2>2
<1> QED
  BY <1>6, <1>7, <1>8, <1>9 DEF AccountsInv

\* A step of a request that stores nothing.
LEMMA WorkGoesOn ==
    ASSUME AccountsInv, NEW r \in Requests, NEW doing \in AccountWork, Does(r, doing), OnlyWork,
           tasks[r].at \notin {"saving", "forgetting"},
           doing.at \notin {"saving", "forgetting", "exchanging"},
           doing.at \in Knowing => doing.account \in GoogleAccounts,
           doing.at = "connecting" => doing.token.life = "fresh"
    PROVE  AccountsInv'
<1>1. /\ tasks' = [tasks EXCEPT ![r] = doing]
      /\ UNCHANGED <<records, keyring, fileLock, signIns, exchanged, torn>>
  BY DEF Does, OnlyWork
<1>2. tasks'[r] = doing /\ \A q \in Requests \ {r} : tasks'[q] = tasks[q]
  BY <1>1 DEF AccountsInv, AccountsTypeOK
<1>3. AccountsTypeOK'
  BY <1>1, <1>2 DEF AccountsInv, AccountsTypeOK
<1>4. TokensAreWhole'
  BY <1>1 DEF AccountsInv, TokensAreWhole
<1>5. TransactionsAreApart'
  BY <1>1, <1>2 DEF AccountsInv, TransactionsAreApart
<1>6. SignInsAreSpent'
  BY <1>1, <1>2 DEF AccountsInv, SignInsAreSpent
<1>7. AccountsAgree'
  BY <1>1, <1>2 DEF AccountsInv, AccountsAgree, Connected
<1> QED
  BY <1>3, <1>4, <1>5, <1>6, <1>7 DEF AccountsInv

LEMMA WorkIsLeft ==
    ASSUME AccountsInv, NEW r \in Requests, Leaves(r), OnlyWork,
           tasks[r].at \notin {"saving", "forgetting"}
    PROVE  AccountsInv'
BY WorkGoesOn, NothingIsTyped DEF Leaves, Knowing

LEMMA RestoresKeepsInv ==
    ASSUME AccountsInv, NEW r \in Requests, NEW a \in GoogleAccounts, Restores(r, a)
    PROVE  AccountsInv'
<1> DEFINE doing == [NoAccountWork EXCEPT !.at = "restoring", !.account = a, !.record = records[a]]
<1>1. doing \in AccountWork /\ doing.at = "restoring" /\ doing.account = a
  BY NothingIsTyped DEF AccountWork, Places, Knowing, AccountsInv, AccountsTypeOK
<1>2. tasks[r].at = "idle" /\ Does(r, doing) /\ OnlyWork
  BY DEF Restores, Starts
<1> HIDE DEF doing
<1> QED
  BY <1>1, <1>2, WorkGoesOn

LEMMA ReadsKeepsInv ==
    ASSUME AccountsInv, NEW r \in Requests, NEW from, NEW to,
           <<from, to>> \in {<<"restoring", "granted">>, <<"dispatching", "calling">>},
           Reads(r, from, to)
    PROVE  AccountsInv'
<1> DEFINE token == keyring[tasks[r].account]
           goes(place) == [tasks[r] EXCEPT !.at = place, !.token = token]
<1>1. tasks[r] \in AccountWork /\ tasks[r].at = from /\ tasks[r].at \in Knowing
  BY DEF Reads, AccountsInv, AccountsTypeOK, Knowing
<1>2. tasks[r].account \in GoogleAccounts /\ token \in Token
  BY <1>1 DEF AccountsInv, AccountsTypeOK
<1>3. \A place \in {to, "refreshing"} :
         goes(place) \in AccountWork /\ goes(place).at = place /\ goes(place).account = tasks[r].account
  BY <1>1, <1>2 DEF AccountWork, Places, Knowing
<1>4. OnlyWork /\ (Leaves(r) \/ \E place \in {to, "refreshing"} : Does(r, goes(place)))
  BY DEF Reads
<1>5. from \notin {"saving", "forgetting"} /\ to \in {"granted", "calling"}
  OBVIOUS
<1> HIDE DEF goes, token
<1>6. CASE Leaves(r)
  BY <1>1, <1>4, <1>5, <1>6, WorkIsLeft
<1>7. ASSUME NEW place \in {to, "refreshing"}, Does(r, goes(place)) PROVE AccountsInv'
  BY <1>1, <1>2, <1>3, <1>4, <1>5, <1>7, WorkGoesOn
<1> QED
  BY <1>4, <1>6, <1>7

LEMMA RefreshesKeepsInv ==
    ASSUME AccountsInv, NEW r \in Requests, Refreshes(r)
    PROVE  AccountsInv'
<1>1. PICK scopes \in (SUBSET tasks[r].token.scopes) \ {{}} :
        Does(r, [tasks[r] EXCEPT !.at = "connecting", !.from = "refresh",
                                !.token = [scopes |-> scopes, life |-> "fresh"]])
  BY DEF Refreshes
<1> DEFINE doing == [tasks[r] EXCEPT !.at = "connecting", !.from = "refresh",
                                    !.token = [scopes |-> scopes, life |-> "fresh"]]
<1>2. tasks[r] \in AccountWork /\ tasks[r].at = "refreshing" /\ tasks[r].account \in GoogleAccounts
  BY DEF Refreshes, AccountsInv, AccountsTypeOK, Knowing
<1>3. [scopes |-> scopes, life |-> "fresh"] \in Token
  BY <1>2 DEF AccountWork, Token, Lives
<1>4. doing \in AccountWork /\ doing.at = "connecting" /\ doing.account = tasks[r].account
      /\ doing.token.life = "fresh"
  BY <1>2, <1>3 DEF AccountWork, Places, Knowing
<1>5. Does(r, doing) /\ OnlyWork
  BY <1>1 DEF Refreshes
<1> HIDE DEF doing
<1> QED
  BY <1>2, <1>4, <1>5, WorkGoesOn

LEMMA AuthorizesKeepsInv ==
    ASSUME AccountsInv, NEW r \in Requests, Authorizes(r)
    PROVE  AccountsInv'
<1> DEFINE doing == [NoAccountWork EXCEPT !.at = "dispatching", !.account = tasks[r].account,
                                         !.authorized = TRUE]
<1>1. tasks[r] \in AccountWork /\ tasks[r].at = "granted" /\ tasks[r].account \in GoogleAccounts
  BY DEF Authorizes, AccountsInv, AccountsTypeOK, Knowing
<1>2. doing \in AccountWork /\ doing.at = "dispatching" /\ doing.account = tasks[r].account
  BY <1>1, NothingIsTyped DEF AccountWork, Places, Knowing
<1>3. OnlyWork /\ (Does(r, doing) \/ Leaves(r))
  BY DEF Authorizes
<1> HIDE DEF doing
<1> QED
  BY <1>1, <1>2, <1>3, WorkGoesOn, WorkIsLeft

LEMMA SignInReturnsKeepsInv ==
    ASSUME AccountsInv, NEW r \in Requests, NEW s \in SignIns, SignInReturns(r, s)
    PROVE  AccountsInv'
<1> DEFINE doing == [NoAccountWork EXCEPT !.at = "exchanging", !.from = s]
<1>1. doing \in AccountWork /\ doing.at = "exchanging" /\ doing.from = s
  BY NothingIsTyped DEF AccountWork, Places
<1>2. /\ tasks[r].at = "idle" /\ tasks' = [tasks EXCEPT ![r] = doing]
      /\ signIns[s] = "pending" /\ signIns' = [signIns EXCEPT ![s] = "gone"]
      /\ UNCHANGED <<records, keyring, fileLock, exchanged, torn>>
  BY DEF SignInReturns, Starts, Does
<1> HIDE DEF doing
<1>3. tasks'[r] = doing /\ \A q \in Requests \ {r} : tasks'[q] = tasks[q]
  BY <1>2 DEF AccountsInv, AccountsTypeOK
<1>4. AccountsTypeOK'
  BY <1>1, <1>2, <1>3 DEF AccountsInv, AccountsTypeOK, Knowing
<1>5. TokensAreWhole' /\ TransactionsAreApart'
  BY <1>1, <1>2, <1>3 DEF AccountsInv, TokensAreWhole, TransactionsAreApart
<1>6. SignInsAreSpent'
  <2>1. /\ signIns'[s] = "gone" /\ \A t \in SignIns \ {s} : signIns'[t] = signIns[t]
        /\ exchanged' = exchanged
    BY <1>2 DEF AccountsInv, AccountsTypeOK
  <2> QED
    BY <2>1, <1>1, <1>2, <1>3 DEF AccountsInv, SignInsAreSpent
<1>7. AccountsAgree'
  BY <1>1, <1>2, <1>3 DEF AccountsInv, AccountsAgree, Connected
<1> QED
  BY <1>4, <1>5, <1>6, <1>7 DEF AccountsInv

LEMMA SignInExchangesKeepsInv ==
    ASSUME AccountsInv, NEW r \in Requests, SignInExchanges(r)
    PROVE  AccountsInv'
<1>1. PICK account \in GoogleAccounts, scopes \in (SUBSET Scopes) \ {{}} :
        Does(r, [NoAccountWork EXCEPT !.at = "connecting", !.account = account, !.from = "sign-in",
                                      !.token = [scopes |-> scopes, life |-> "fresh"]])
  BY DEF SignInExchanges
<1> DEFINE doing == [NoAccountWork EXCEPT !.at = "connecting", !.account = account,
                                         !.from = "sign-in",
                                         !.token = [scopes |-> scopes, life |-> "fresh"]]
           s == tasks[r].from
<1>2. [scopes |-> scopes, life |-> "fresh"] \in Token
  BY DEF Token, Lives
<1>3. doing \in AccountWork /\ doing.at = "connecting" /\ doing.account = account
      /\ doing.token.life = "fresh"
  BY <1>2, NothingIsTyped DEF AccountWork, Places, Knowing
<1>4. /\ tasks[r].at = "exchanging" /\ tasks' = [tasks EXCEPT ![r] = doing]
      /\ exchanged' = [exchanged EXCEPT ![s] = exchanged[s] + 1]
      /\ UNCHANGED <<records, keyring, fileLock, signIns, torn>>
  BY <1>1 DEF SignInExchanges, Does
<1>5. s \in SignIns
  BY <1>4 DEF AccountsInv, AccountsTypeOK
<1>6. exchanged[s] = 0
  BY <1>4, <1>5 DEF AccountsInv, SignInsAreSpent
<1>7. /\ exchanged'[s] = 1 /\ \A t \in SignIns \ {s} : exchanged'[t] = exchanged[t]
      /\ exchanged' \in [SignIns -> Nat]
  BY <1>4, <1>5, <1>6 DEF AccountsInv, AccountsTypeOK
<1> HIDE DEF doing
<1>8. tasks'[r] = doing /\ \A q \in Requests \ {r} : tasks'[q] = tasks[q]
  BY <1>4 DEF AccountsInv, AccountsTypeOK
<1>9. AccountsTypeOK'
  BY <1>3, <1>4, <1>7, <1>8 DEF AccountsInv, AccountsTypeOK
<1>10. TokensAreWhole' /\ TransactionsAreApart'
  BY <1>3, <1>4, <1>8 DEF AccountsInv, TokensAreWhole, TransactionsAreApart
<1>11. SignInsAreSpent'
  BY <1>3, <1>4, <1>5, <1>7, <1>8 DEF AccountsInv, SignInsAreSpent
<1>12. AccountsAgree'
  BY <1>3, <1>4, <1>8 DEF AccountsInv, AccountsAgree, Connected
<1> QED
  BY <1>9, <1>10, <1>11, <1>12 DEF AccountsInv

\* Who has the lock is the only one between keyring and file, whatever was in it before.
LEMMA LockIsAlone ==
    ASSUME AccountsInv, NEW r \in Requests, Free(r) \/ fileLock = r
    PROVE  \A q \in Requests \ {r} : tasks[q].at \notin {"saving", "forgetting"}
BY AccountsAssumption DEF Free, AccountsInv, TransactionsAreApart

\* Taking the lock for an account and its token.
LEMMA TransactionBegins ==
    ASSUME AccountsInv, NEW r \in Requests, NEW doing \in AccountWork, NEW token \in Token,
           Free(r), fileLock' = r, tasks[r].at \notin {"saving", "forgetting", "exchanging"},
           Does(r, doing), doing.account \in GoogleAccounts,
           keyring' = [keyring EXCEPT ![doing.account] = token],
           UNCHANGED <<records, signIns, exchanged, torn>>,
           \/ doing.at = "forgetting" /\ token = NoToken
           \/ /\ doing.at = "saving" /\ doing.found = records
              /\ doing.token = token /\ token.life = "fresh"
    PROVE  AccountsInv'
<1> DEFINE a == doing.account
<1>1. tasks'[r] = doing /\ \A q \in Requests \ {r} : tasks'[q] = tasks[q]
  BY DEF Does, AccountsInv, AccountsTypeOK
<1>2. keyring'[a] = token /\ \A b \in GoogleAccounts \ {a} : keyring'[b] = keyring[b]
  BY DEF AccountsInv, AccountsTypeOK
<1>3. \A q \in Requests \ {r} : tasks'[q].at \notin {"saving", "forgetting"}
  BY <1>1, LockIsAlone
<1>4. token.life = "fresh" => token # NoToken
  BY DEF NoToken
<1>5. AccountsTypeOK'
  BY <1>1 DEF Does, AccountsInv, AccountsTypeOK
<1>6. TokensAreWhole'
  BY <1>2 DEF AccountsInv, TokensAreWhole, Lives
<1>7. TransactionsAreApart'
  BY <1>1, <1>2, <1>3, <1>4 DEF TransactionsAreApart
<1>8. SignInsAreSpent'
  BY <1>1 DEF AccountsInv, SignInsAreSpent
<1>9. AccountsAgree'
  <2> SUFFICES ASSUME NEW b \in GoogleAccounts, b # a, b \notin torn
               PROVE  /\ Connected(b)' <=> keyring'[b] # NoToken
                      /\ records'[b].scopes = keyring'[b].scopes
    BY <1>1 DEF AccountsAgree
  <2>1. \A q \in Requests : tasks[q].at \notin {"saving", "forgetting"}
    BY <1>1, <1>3
  <2> QED
    BY <2>1, <1>2 DEF AccountsInv, AccountsAgree, Connected
<1> QED
  BY <1>5, <1>6, <1>7, <1>8, <1>9 DEF AccountsInv

LEMMA ConnectsKeepsInv ==
    ASSUME AccountsInv, NEW r \in Requests, Connects(r)
    PROVE  AccountsInv'
<1> DEFINE doing == [tasks[r] EXCEPT !.at = "saving", !.found = records]
<1>1. tasks[r] \in AccountWork /\ tasks[r].at = "connecting" /\ tasks[r].account \in GoogleAccounts
      /\ tasks[r].token \in Token /\ tasks[r].token.life = "fresh"
  BY DEF Connects, AccountsInv, AccountsTypeOK, Knowing, AccountWork
<1>2. doing \in AccountWork /\ doing.at = "saving" /\ doing.found = records
      /\ doing.token = tasks[r].token /\ doing.account = tasks[r].account
  BY <1>1 DEF AccountWork, Places, Knowing, AccountsInv, AccountsTypeOK
<1>3. Does(r, doing)
  BY DEF Connects, Does, AccountsInv, AccountsTypeOK, AccountWork
<1> HIDE DEF doing
<1> QED
  BY <1>1, <1>2, <1>3, TransactionBegins DEF Connects

LEMMA DisconnectsKeepsInv ==
    ASSUME AccountsInv, NEW r \in Requests, NEW a \in GoogleAccounts, Disconnects(r, a)
    PROVE  AccountsInv'
<1> DEFINE doing == [NoAccountWork EXCEPT !.at = "forgetting", !.account = a]
<1>1. doing \in AccountWork /\ doing.at = "forgetting" /\ doing.account = a
  BY NothingIsTyped DEF AccountWork, Places, Knowing
<1>2. tasks[r].at = "idle" /\ Does(r, doing)
  BY DEF Disconnects, Starts
<1> HIDE DEF doing
<1> QED
  BY <1>1, <1>2, TransactionBegins, NothingIsTyped DEF Disconnects

\* Giving the lock back with a record beside the token that is in the keyring.
LEMMA TransactionEnds ==
    ASSUME AccountsInv, NEW r \in Requests, NEW doing \in AccountWork, NEW record \in StoredRecord,
           tasks[r].at \in {"saving", "forgetting"}, fileLock' = NoRequest, Does(r, doing),
           doing.at \in {"idle", "calling", "granted"},
           doing.at # "idle" => doing.account \in GoogleAccounts,
           records' = [records EXCEPT ![tasks[r].account] = record],
           record.connected <=> keyring[tasks[r].account] # NoToken,
           record.scopes = keyring[tasks[r].account].scopes,
           torn' = torn \ {tasks[r].account},
           UNCHANGED <<keyring, signIns, exchanged>>
    PROVE  AccountsInv'
<1> DEFINE a == tasks[r].account
<1>1. tasks'[r] = doing /\ \A q \in Requests \ {r} : tasks'[q] = tasks[q]
  BY DEF Does, AccountsInv, AccountsTypeOK
<1>2. fileLock = r /\ a \in GoogleAccounts
  BY DEF AccountsInv, AccountsTypeOK, TransactionsAreApart, Knowing
<1>3. records'[a] = record /\ \A b \in GoogleAccounts \ {a} : records'[b] = records[b]
  BY <1>2 DEF AccountsInv, AccountsTypeOK
<1>4. \A q \in Requests : tasks'[q].at \notin {"saving", "forgetting"}
  BY <1>1, <1>2, LockIsAlone
<1>5. AccountsTypeOK'
  BY <1>1 DEF Does, AccountsInv, AccountsTypeOK, Knowing
<1>6. TokensAreWhole' /\ TransactionsAreApart'
  BY <1>4 DEF AccountsInv, TokensAreWhole, TransactionsAreApart
<1>7. SignInsAreSpent'
  BY <1>1 DEF AccountsInv, SignInsAreSpent
<1>8. AccountsAgree'
  <2> SUFFICES ASSUME NEW b \in GoogleAccounts, b \notin torn'
               PROVE  /\ Connected(b)' <=> keyring'[b] # NoToken
                      /\ records'[b].scopes = keyring'[b].scopes
    BY DEF AccountsAgree
  <2>1. CASE b = a
    BY <2>1, <1>3 DEF Connected
  <2>2. CASE b # a
    <3>1. \A q \in Requests : tasks[q].at \in {"saving", "forgetting"} => tasks[q].account # b
      BY <2>2, <1>2, LockIsAlone
    <3> QED
      BY <2>2, <3>1, <1>3 DEF AccountsInv, AccountsAgree, Connected
  <2> QED
    BY <2>1, <2>2
<1> QED
  BY <1>5, <1>6, <1>7, <1>8 DEF AccountsInv

\* What a connect saves: the record it found, with the token's scopes.
Saved(record, token) == [record EXCEPT !.connected = TRUE, !.scopes = token.scopes]

LEMMA SavesWhatItFound ==
    ASSUME AccountsInv, NEW r \in Requests, Saves(r)
    PROVE  /\ tasks[r].at = "saving" /\ tasks[r].account \in GoogleAccounts
           /\ records' = [records EXCEPT ![tasks[r].account] =
                            Saved(records[tasks[r].account], tasks[r].token)]
           /\ Saved(records[tasks[r].account], tasks[r].token) \in StoredRecord
<1>1. tasks[r].at = "saving" /\ tasks[r].account \in GoogleAccounts /\ tasks[r].found = records
      /\ tasks[r].token \in Token
  BY DEF Saves, AccountsInv, AccountsTypeOK, TransactionsAreApart, Knowing, AccountWork
<1>2. records' = [records EXCEPT ![tasks[r].account] =
                            Saved(records[tasks[r].account], tasks[r].token)]
  BY <1>1 DEF Saves, Saved, AccountsInv, AccountsTypeOK, StoredRecord
<1>3. ASSUME NEW record \in StoredRecord, NEW token \in Token PROVE Saved(record, token) \in StoredRecord
  BY DEF Saved, StoredRecord, Token
<1>4. records[tasks[r].account] \in StoredRecord
  BY <1>1 DEF AccountsInv, AccountsTypeOK
<1> QED
  BY <1>1, <1>2, <1>3, <1>4

LEMMA SavesKeepsInv ==
    ASSUME AccountsInv, NEW r \in Requests, Saves(r)
    PROVE  AccountsInv'
<1> DEFINE record == Saved(records[tasks[r].account], tasks[r].token)
           resumed == [tasks[r] EXCEPT !.at = IF tasks[r].authorized THEN "calling" ELSE "granted",
                                       !.from = "none", !.found = NoRecords]
<1>1. tasks[r] \in AccountWork /\ keyring[tasks[r].account] # NoToken
      /\ keyring[tasks[r].account].scopes = tasks[r].token.scopes
  BY DEF Saves, AccountsInv, AccountsTypeOK, TransactionsAreApart
<1>2. record.connected /\ record.scopes = tasks[r].token.scopes
  BY SavesWhatItFound DEF Saved, StoredRecord, AccountsInv, AccountsTypeOK
<1>3. resumed \in AccountWork /\ resumed.at \in {"calling", "granted"}
      /\ resumed.account = tasks[r].account
  BY <1>1, NothingIsTyped DEF AccountWork, Places, Knowing
<1>4. Does(r, NoAccountWork) \/ Does(r, resumed)
  BY DEF Saves, Resumes, Leaves
<1>5. PICK doing \in {NoAccountWork, resumed} : Does(r, doing)
  BY <1>4
<1> HIDE DEF record, resumed
<1>6. doing \in AccountWork /\ doing.at \in {"idle", "calling", "granted"}
      /\ (doing.at # "idle" => doing.account \in GoogleAccounts)
  BY <1>3, <1>5, NothingIsTyped, SavesWhatItFound
<1> QED
  BY <1>1, <1>2, <1>5, <1>6, SavesWhatItFound, TransactionEnds DEF Saves, record

LEMMA ForgetsKeepsInv ==
    ASSUME AccountsInv, NEW r \in Requests, Forgets(r)
    PROVE  AccountsInv'
<1>1. keyring[tasks[r].account] = NoToken
  BY DEF Forgets, AccountsInv, TransactionsAreApart
<1>2. ~NoRecord.connected /\ NoRecord.scopes = NoToken.scopes
  BY DEF NoRecord, NoToken
<1> QED
  BY <1>1, <1>2, TransactionEnds, NothingIsTyped DEF Forgets, Leaves

LEMMA SelectsKeepsInv ==
    ASSUME AccountsInv, NEW r \in Requests, NEW a \in GoogleAccounts,
           NEW chosen \in SUBSET Calendars, Selects(r, a, chosen)
    PROVE  AccountsInv'
<1> DEFINE record == [records[a] EXCEPT !.selected = chosen]
<1>1. record \in StoredRecord /\ record.connected = records[a].connected
      /\ record.scopes = records[a].scopes
  BY DEF StoredRecord, AccountsInv, AccountsTypeOK
<1>2. records' = [records EXCEPT ![a] = record] /\ Free(r) /\ tasks[r].at = "idle"
      /\ UNCHANGED <<keyring, fileLock, signIns, exchanged, tasks, torn>>
  BY DEF Selects, AccountsInv, AccountsTypeOK
<1> HIDE DEF record
<1>3. records'[a] = record /\ \A b \in GoogleAccounts \ {a} : records'[b] = records[b]
  BY <1>2 DEF AccountsInv, AccountsTypeOK
<1>4. \A q \in Requests : tasks[q].at \notin {"saving", "forgetting"}
  BY <1>2, LockIsAlone
<1>5. AccountsTypeOK' /\ TokensAreWhole' /\ SignInsAreSpent'
  BY <1>1, <1>2 DEF AccountsInv, AccountsTypeOK, TokensAreWhole, SignInsAreSpent
<1>6. TransactionsAreApart'
  BY <1>2, <1>4 DEF TransactionsAreApart
<1>7. AccountsAgree'
  BY <1>1, <1>2, <1>3 DEF AccountsInv, AccountsAgree, Connected
<1> QED
  BY <1>5, <1>6, <1>7 DEF AccountsInv

LEMMA BreaksKeepsInv ==
    ASSUME AccountsInv, NEW r \in Requests, Breaks(r)
    PROVE  AccountsInv'
<1>1. tasks'[r] = NoAccountWork /\ \A q \in Requests \ {r} : tasks'[q] = tasks[q]
  BY DEF Breaks, Leaves, Does, AccountsInv, AccountsTypeOK
<1>2. fileLock' = (IF fileLock = r THEN NoRequest ELSE fileLock)
      /\ UNCHANGED <<records, keyring, signIns, exchanged>>
  BY DEF Breaks
<1>3. torn' = (IF tasks[r].at \in {"saving", "forgetting"} THEN torn \cup {tasks[r].account}
               ELSE torn)
  BY DEF Breaks
<1>4. AccountsTypeOK'
  <2>1. torn' \in SUBSET GoogleAccounts /\ fileLock' \in Requests \cup {NoRequest}
    BY <1>2, <1>3 DEF AccountsInv, AccountsTypeOK, Knowing
  <2>2. tasks' \in [Requests -> AccountWork]
    BY NothingIsTyped DEF Breaks, Leaves, Does, AccountsInv, AccountsTypeOK
  <2> QED
    BY <1>1, <1>2, <2>1, <2>2, NothingIsTyped DEF AccountsInv, AccountsTypeOK, Knowing
<1>5. TokensAreWhole' /\ SignInsAreSpent'
  BY <1>1, <1>2, NothingIsTyped DEF AccountsInv, TokensAreWhole, SignInsAreSpent
<1>6. TransactionsAreApart'
  BY <1>1, <1>2, NothingIsTyped DEF AccountsInv, TransactionsAreApart
<1>7. AccountsAgree'
  BY <1>1, <1>2, <1>3 DEF AccountsInv, AccountsAgree, Connected
<1> QED
  BY <1>4, <1>5, <1>6, <1>7 DEF AccountsInv

LEMMA TimeKeepsInv ==
    ASSUME AccountsInv,
           \/ \E a \in GoogleAccounts : TokenAges(a)
           \/ \E s \in SignIns : SignInStarts(s) \/ SignInExpires(s)
    PROVE  AccountsInv'
<1>1. ASSUME NEW a \in GoogleAccounts, TokenAges(a) PROVE AccountsInv'
  <2>1. PICK life \in Lives : keyring' = [keyring EXCEPT ![a].life = life]
    BY <1>1 DEF TokenAges
  <2>2. keyring' \in [GoogleAccounts -> Token]
        /\ keyring'[a].life = life /\ keyring'[a].scopes = keyring[a].scopes
        /\ \A b \in GoogleAccounts \ {a} : keyring'[b] = keyring[b]
    BY <2>1 DEF AccountsInv, AccountsTypeOK, Token
  <2>3. keyring[a] # NoToken /\ keyring'[a] # NoToken
    BY <1>1, <2>2 DEF TokenAges, NoToken, Lives
  <2>4. UNCHANGED <<records, fileLock, signIns, exchanged, tasks, torn>>
    BY <1>1 DEF TokenAges
  <2>5. AccountsTypeOK' /\ TokensAreWhole' /\ SignInsAreSpent'
    BY <2>2, <2>4 DEF AccountsInv, AccountsTypeOK, TokensAreWhole, SignInsAreSpent
  <2>6. TransactionsAreApart'
    BY <2>2, <2>3, <2>4 DEF AccountsInv, AccountsTypeOK, TransactionsAreApart, Knowing
  <2>7. AccountsAgree'
    BY <2>2, <2>3, <2>4 DEF AccountsInv, AccountsAgree, Connected
  <2> QED
    BY <2>5, <2>6, <2>7 DEF AccountsInv
<1>2. ASSUME NEW s \in SignIns, SignInStarts(s) \/ SignInExpires(s) PROVE AccountsInv'
  <2>1. UNCHANGED <<records, keyring, fileLock, exchanged, tasks, torn>>
        /\ signIns[s] # "gone" /\ \E to \in {"pending", "gone"} : signIns' = [signIns EXCEPT ![s] = to]
    BY <1>2 DEF SignInStarts, SignInExpires
  <2>2. AccountsTypeOK' /\ TokensAreWhole' /\ TransactionsAreApart' /\ AccountsAgree'
    BY <2>1 DEF AccountsInv, AccountsTypeOK, TokensAreWhole, TransactionsAreApart,
                AccountsAgree, Connected
  <2>3. SignInsAreSpent'
    BY <2>1 DEF AccountsInv, AccountsTypeOK, SignInsAreSpent
  <2> QED
    BY <2>2, <2>3 DEF AccountsInv
<1> QED
  BY <1>1, <1>2

LEMMA AccountsInvStep == AccountsInv /\ [AccountsNext]_accountVars => AccountsInv'
<1> SUFFICES ASSUME AccountsInv, [AccountsNext]_accountVars PROVE AccountsInv'
  OBVIOUS
<1>1. CASE UNCHANGED accountVars
  BY <1>1 DEF accountVars, AccountsInv, AccountsTypeOK, TokensAreWhole, TransactionsAreApart,
              SignInsAreSpent, AccountsAgree, Connected
<1>2. ASSUME NEW r \in Requests, AccountsStep(r) PROVE AccountsInv'
  <2>1. CASE Calls(r)
    BY <2>1, WorkIsLeft DEF Calls
  <2>2. CASE Reads(r, "restoring", "granted") \/ Reads(r, "dispatching", "calling")
    BY <2>2, ReadsKeepsInv
  <2> QED
    BY <1>2, <2>1, <2>2, SignInReturnsKeepsInv, SignInExchangesKeepsInv, ConnectsKeepsInv,
       SavesKeepsInv, ForgetsKeepsInv, DisconnectsKeepsInv, RestoresKeepsInv, SelectsKeepsInv,
       RefreshesKeepsInv, AuthorizesKeepsInv, BreaksKeepsInv
    DEF AccountsStep
<1> QED
  BY <1>1, <1>2, TimeKeepsInv DEF AccountsNext

-----------------------------------------------------------------------------
\* For any number of accounts, calendars and requests, wherever they break off: keyring and
\* metadata file tell the same story about an account unless a transaction was cut in two,
\* and an authorization becomes one connection (credentials/store.py, google_oauth_web.py).
THEOREM AccountsStayWhole == AccountsSpec => []AccountsAreWhole
<1>1. AccountsInv => AccountsAreWhole
  BY DEF AccountsInv, SignInsAreSpent, AccountsAreWhole, SignInIsUsedOnce
<1> QED
  BY <1>1, AccountsInvInit, AccountsInvStep, PTL DEF AccountsSpec

\* While an account is connected, no connect or refresh takes a selection back, and no selection
\* a grant: the file is only written under its lock, from what it held when the lock was taken
\* (credentials/store.py, connect and update_google_selection).
THEOREM SelectionsOutlastConnects == AccountsSpec => CalendarsOutlastConnects
<1> DEFINE Kept == \A a \in GoogleAccounts :
         LET old == records[a]
             new == records'[a]
         IN  old.connected /\ new.connected =>
                \/ new = [old EXCEPT !.scopes = new.scopes]
                \/ /\ new = [old EXCEPT !.selected = new.selected]
                   /\ new.selected \subseteq old.allowed
<1>1. AccountsInv /\ AccountsNext => Kept
  <2> SUFFICES ASSUME AccountsInv, AccountsNext, NEW a \in GoogleAccounts,
                      records[a].connected, records'[a].connected
               PROVE  \/ records'[a] = [records[a] EXCEPT !.scopes = records'[a].scopes]
                      \/ /\ records'[a] = [records[a] EXCEPT !.selected = records'[a].selected]
                         /\ records'[a].selected \subseteq records[a].allowed
    OBVIOUS
  <2>typed. records[a] \in StoredRecord /\ records \in [GoogleAccounts -> StoredRecord]
    BY DEF AccountsInv, AccountsTypeOK
  <2>1. CASE records' = records
    BY <2>1, <2>typed DEF StoredRecord
  <2>2. ASSUME NEW r \in Requests, Saves(r) PROVE records'[a] = [records[a] EXCEPT !.scopes = records'[a].scopes]
    <3>1. records' = [records EXCEPT ![tasks[r].account] =
                        Saved(records[tasks[r].account], tasks[r].token)]
      BY <2>2, SavesWhatItFound
    <3>2. CASE tasks[r].account = a
      BY <3>1, <3>2, <2>typed DEF Saved, StoredRecord
    <3>3. CASE tasks[r].account # a
      BY <3>1, <3>3, <2>typed DEF StoredRecord
    <3> QED
      BY <3>2, <3>3
  <2>3. ASSUME NEW r \in Requests, Forgets(r) PROVE records'[a] = records[a]
    <3>1. records' = [records EXCEPT ![tasks[r].account] = NoRecord]
      BY <2>3 DEF Forgets
    <3> QED
      BY <3>1, <2>typed DEF NoRecord
  <2>4. ASSUME NEW r \in Requests, NEW b \in GoogleAccounts, NEW chosen \in SUBSET Calendars,
               Selects(r, b, chosen)
        PROVE \/ records'[a] = records[a]
              \/ /\ records'[a] = [records[a] EXCEPT !.selected = records'[a].selected]
                 /\ records'[a].selected \subseteq records[a].allowed
    <3>1. records' = [records EXCEPT ![b].selected = chosen] /\ chosen \subseteq records[b].allowed
      BY <2>4 DEF Selects
    <3>2. CASE a = b
      BY <3>1, <3>2, <2>typed DEF StoredRecord
    <3>3. CASE a # b
      BY <3>1, <3>3, <2>typed DEF StoredRecord
    <3> QED
      BY <3>2, <3>3
  <2>5. \/ records' = records
        \/ \E r \in Requests : Saves(r) \/ Forgets(r)
        \/ \E r \in Requests, b \in GoogleAccounts, chosen \in SUBSET Calendars : Selects(r, b, chosen)
    BY DEF AccountsNext, AccountsStep, TokenAges, SignInStarts, SignInExpires, SignInReturns,
           SignInExchanges, Connects, Disconnects, Restores, Reads, Refreshes, Authorizes, Calls,
           Breaks, OnlyWork
  <2>6. CASE records'[a] = records[a]
    BY <2>6, <2>typed DEF StoredRecord
  <2> QED
    BY <2>1, <2>2, <2>3, <2>4, <2>5, <2>6
<1>2. AccountsInv /\ [AccountsNext]_accountVars => [Kept]_accountVars
  BY <1>1
<1> QED
  BY <1>2, AccountsInvInit, AccountsInvStep, PTL DEF AccountsSpec, CalendarsOutlastConnects

=============================================================================
