-------------------------- MODULE ToolOrchestrator --------------------------
(***************************************************************************)
(* One run of the tool-calling loop (metis_head/orchestration/loop.py) and *)
(* of the executor it calls (metis_head/orchestration/executor.py).        *)
(*                                                                         *)
(* The run asks the model and executes each tool on a daemon thread of its *)
(* own and polls a one-place queue for the answer, looking at the          *)
(* CancellationToken and at the clock between two polls.  It abandons a    *)
(* thread by returning: the thread goes on, and what it answers is thrown  *)
(* away.  Whoever stops the turn cancels the token at any moment.          *)
(*                                                                         *)
(* The clock is two facts: the run's max_total_seconds are over, and the   *)
(* deadline of the tool call being executed is over.  The deadline is      *)
(* taken from the time left when the call was looked at, so that either    *)
(* may come first.  Model answers and handler results are external.  Left  *)
(* out: prompts, arguments and result data other than their size; which    *)
(* check of validation or authorization refuses a call.                    *)
(***************************************************************************)
EXTENDS Integers, Sequences, FiniteSets

CONSTANTS MaxRounds, MaxToolCalls, MaxCallsPerRound,  \* LoopLimits
          MaxTotalBytes,                              \* LoopLimits.max_total_result_bytes
          MaxResultBytes,                             \* ToolSpec.max_result_bytes
          CallIds,      \* identifiers the model may give its calls
          Sizes         \* encoded sizes of the results handlers return

ASSUME LimitsArePositive ==
    /\ MaxRounds \in Nat \ {0} /\ MaxToolCalls \in Nat \ {0} /\ MaxCallsPerRound \in Nat \ {0}
    /\ MaxTotalBytes \in Nat \ {0} /\ MaxResultBytes \in Nat \ {0}
    /\ Sizes \subseteq Nat

VARIABLES pc,           \* where run and execute stand
          round,        \* round_number
          pending,      \* calls of the response not yet looked at
          calls,        \* calls
          seen,         \* seen_call_ids
          total_bytes,  \* total_bytes
          call,         \* the call being executed
          result,       \* status and byte_count of its ToolResult
          stop_reason,  \* stop_reason of the outcome, "none" while running
          cancelled,    \* the CancellationToken is set
          stopped,      \* somebody outside the run cancelled the token
          time_up,      \* max_total_seconds are over
          call_late,    \* the deadline of the call being executed is over
          thinking,     \* rounds whose adapter thread is at work
          answer,       \* adapter_queue of the round
          handlers,     \* tool threads in the order they were started
          late_starts   \* threads started although the token was set

progress == <<round, pending, calls, seen, total_bytes, call>>
control == <<pc, progress, result, stop_reason>>
token == <<cancelled, stopped>>
clock == <<time_up, call_late>>
threads == <<thinking, answer, handlers, late_starts>>
vars == <<control, token, clock, threads>>

StopReasons == {"cancelled", "timeout", "adapter_error", "completed", "calls_per_round_exhausted",
                "duplicate_call_id", "tool_call_limit_exhausted", "result_size_limit_exhausted",
                "round_limit_exhausted", "raised"}
Kinds == {"unknown", "refused", "allowed", "nameless"}
Call == [id : CallIds, kind : Kinds]
NoCall == [id |-> "none", kind |-> "unknown"]
Statuses == {"invalid", "denied", "timeout", "cancelled", "error", "returned"}
Result == [status : Statuses, bytes : Nat]
NoResult == [status |-> "error", bytes |-> 0]
Answers == [kind : {"none", "error", "text"}, calls : {0}]
           \cup [kind : {"calls"}, calls : 1 .. MaxCallsPerRound + 1]
Empty == [kind |-> "none", calls |-> 0]
Handler == [id : CallIds, round : Nat, state : {"running", "error", "returned"}, size : Nat]

Running == {i \in DOMAIN handlers : handlers[i].state = "running"}
StartedIn(r) == {i \in DOMAIN handlers : handlers[i].round = r}
Smaller(m, n) == IF m <= n THEN m ELSE n

Init ==
    /\ pc = "top" /\ round = 1 /\ pending = 0 /\ calls = 0 /\ seen = {} /\ total_bytes = 0
    /\ call = NoCall /\ result = NoResult /\ stop_reason = "none"
    /\ cancelled = FALSE /\ stopped = FALSE
    /\ time_up = FALSE /\ call_late = FALSE
    /\ thinking = {} /\ answer = Empty /\ handlers = <<>> /\ late_starts = 0

Goto(place) == pc' = place
Return(reason) == stop_reason' = reason /\ Goto("returned")
Started == late_starts' = late_starts + (IF cancelled THEN 1 ELSE 0)

(***************************************************************************)
(* The environment                                                         *)
(***************************************************************************)
\* PersonalConversationCoordinator.cancel_session, from another request.
Cancel ==
    /\ ~stopped
    /\ stopped' = TRUE /\ cancelled' = TRUE
    /\ UNCHANGED <<control, clock, threads>>

TimePasses ==
    /\ ~time_up
    /\ time_up' = TRUE
    /\ UNCHANGED <<control, token, call_late, threads>>

DeadlinePasses ==
    /\ pc \in {"tool_waiting", "tool_polling"} /\ ~call_late
    /\ call_late' = TRUE
    /\ UNCHANGED <<control, cancelled, stopped, time_up, threads>>

\* The model answers the round it was asked in; when the run has returned,
\* nobody reads the answer.
ModelAnswers(given) ==
    /\ thinking # {}
    /\ thinking' = {}
    /\ answer' = given
    /\ UNCHANGED <<control, token, clock, handlers, late_starts>>

HandlerEnds(i, state, size) ==
    /\ i \in Running
    /\ handlers' = [handlers EXCEPT ![i].state = state, ![i].size = size]
    /\ UNCHANGED <<control, token, clock, thinking, answer, late_starts>>

(***************************************************************************)
(* ToolOrchestrator.run: asking the model                                  *)
(***************************************************************************)
RoundsExhausted ==
    /\ pc = "top" /\ round > MaxRounds
    /\ Return("round_limit_exhausted")
    /\ UNCHANGED <<progress, result, token, clock, threads>>

\* The two checks at the top of a round and again before every poll.
Noticing == (pc = "top" /\ round <= MaxRounds) \/ pc = "waiting"

NoticeCancel ==
    /\ Noticing /\ cancelled
    /\ Return("cancelled")
    /\ UNCHANGED <<progress, result, token, clock, threads>>

NoticeTimeout ==
    /\ Noticing /\ ~cancelled /\ time_up
    /\ cancelled' = TRUE
    /\ Return("timeout")
    /\ UNCHANGED <<progress, result, stopped, clock, threads>>

\* Faulty variant: only the clock is looked at.
NoticeClockOnly ==
    /\ Noticing /\ ~time_up
    /\ Goto(IF pc = "top" THEN "asking" ELSE "polling")
    /\ UNCHANGED <<progress, result, stop_reason, token, clock, threads>>

NoticeNothing ==
    /\ Noticing /\ ~cancelled /\ ~time_up
    /\ Goto(IF pc = "top" THEN "asking" ELSE "polling")
    /\ UNCHANGED <<progress, result, stop_reason, token, clock, threads>>

\* A fresh adapter_queue, and a thread that will put the answer into it.
AskModel ==
    /\ pc = "asking"
    /\ thinking' = {round} /\ answer' = Empty /\ Started
    /\ Goto("waiting")
    /\ UNCHANGED <<progress, result, stop_reason, token, clock, handlers>>

PollAgain ==
    /\ pc = "polling" /\ answer = Empty
    /\ Goto("waiting")
    /\ UNCHANGED <<progress, result, stop_reason, token, clock, threads>>

TakeAnswer ==
    /\ pc = "polling" /\ answer # Empty
    /\ \/ answer.kind = "error" /\ Return("adapter_error") /\ UNCHANGED pending
       \/ answer.kind = "text" /\ Return("completed") /\ UNCHANGED pending
       \/ answer.calls > MaxCallsPerRound /\ Return("calls_per_round_exhausted") /\ UNCHANGED pending
       \/ /\ answer.kind = "calls" /\ answer.calls <= MaxCallsPerRound
          /\ pending' = answer.calls
          /\ Goto("calls") /\ UNCHANGED stop_reason
    /\ UNCHANGED <<round, calls, seen, total_bytes, call, result, token, clock, threads>>

(***************************************************************************)
(* ToolOrchestrator.run: the calls of a response                           *)
(***************************************************************************)
NextRound ==
    /\ pc = "calls" /\ pending = 0
    /\ round' = round + 1
    /\ Goto("top")
    /\ UNCHANGED <<pending, calls, seen, total_bytes, call, result, stop_reason, token, clock, threads>>

\* Faulty variant: the limit is compared before the call is counted.
NextCallUncounted(next) ==
    /\ pc = "calls" /\ pending > 0
    /\ pending' = pending - 1
    /\ \/ next.id \in seen /\ Return("duplicate_call_id") /\ UNCHANGED <<calls, seen, call>>
       \/ /\ next.id \notin seen
          /\ seen' = seen \cup {next.id} /\ calls' = calls + 1
          /\ \/ /\ calls > MaxToolCalls
                /\ Return("tool_call_limit_exhausted") /\ UNCHANGED call
             \/ /\ calls <= MaxToolCalls /\ total_bytes >= MaxTotalBytes
                /\ Return("result_size_limit_exhausted") /\ UNCHANGED call
             \/ /\ calls <= MaxToolCalls /\ total_bytes < MaxTotalBytes
                /\ next.kind = "nameless" /\ Return("raised") /\ UNCHANGED call
             \/ /\ calls <= MaxToolCalls /\ total_bytes < MaxTotalBytes
                /\ next.kind # "nameless" /\ call' = next
                /\ Goto("executing") /\ UNCHANGED stop_reason
    /\ UNCHANGED <<round, total_bytes, result, token, clock, threads>>

\* Of a call whose identifier is blank no ToolRequest can be made: run raises.
NextCall(next) ==
    /\ pc = "calls" /\ pending > 0
    /\ pending' = pending - 1
    /\ \/ next.id \in seen /\ Return("duplicate_call_id") /\ UNCHANGED <<calls, seen, call>>
       \/ /\ next.id \notin seen
          /\ seen' = seen \cup {next.id} /\ calls' = calls + 1
          /\ \/ /\ calls + 1 > MaxToolCalls
                /\ Return("tool_call_limit_exhausted") /\ UNCHANGED call
             \/ /\ calls + 1 <= MaxToolCalls /\ total_bytes >= MaxTotalBytes
                /\ Return("result_size_limit_exhausted") /\ UNCHANGED call
             \/ /\ calls + 1 <= MaxToolCalls /\ total_bytes < MaxTotalBytes
                /\ next.kind = "nameless" /\ Return("raised") /\ UNCHANGED call
             \/ /\ calls + 1 <= MaxToolCalls /\ total_bytes < MaxTotalBytes
                /\ next.kind # "nameless" /\ call' = next
                /\ Goto("executing") /\ UNCHANGED stop_reason
    /\ UNCHANGED <<round, total_bytes, result, token, clock, threads>>

\* The ToolResult is recorded and counted.
TakeResult ==
    /\ pc = "result"
    /\ total_bytes' = total_bytes + result.bytes
    /\ \/ result.status = "cancelled" /\ Return("cancelled")
       \/ result.status = "timeout" /\ cancelled /\ Return("timeout")
       \/ /\ result.status # "cancelled" /\ ~(result.status = "timeout" /\ cancelled)
          /\ Goto("calls") /\ UNCHANGED stop_reason
    /\ UNCHANGED <<round, pending, calls, seen, call, result, token, clock, threads>>

(***************************************************************************)
(* ToolExecutor.execute                                                    *)
(***************************************************************************)
Yield(status, bytes) ==
    /\ result' = [status |-> status, bytes |-> bytes]
    /\ Goto("result")

\* The call is settled without a thread: an unknown tool, a token already set,
\* arguments or accounts refused, or no time left.
Settle ==
    /\ pc = "executing"
    /\ \/ call.kind = "unknown" /\ Yield("invalid", 0)
       \/ call.kind # "unknown" /\ cancelled /\ Yield("cancelled", 0)
       \/ call.kind = "refused" /\ ~cancelled /\ Yield("denied", 0)
       \/ call.kind = "allowed" /\ ~cancelled /\ time_up /\ Yield("timeout", 0)
    /\ UNCHANGED <<progress, stop_reason, token, clock, threads>>

Admit ==
    /\ pc = "executing" /\ call.kind = "allowed" /\ ~cancelled /\ ~time_up
    /\ Goto("starting")
    /\ UNCHANGED <<progress, result, stop_reason, token, clock, threads>>

StartHandler ==
    /\ pc = "starting"
    /\ handlers' = Append(handlers, [id |-> call.id, round |-> round, state |-> "running", size |-> 0])
    /\ Started
    /\ call_late' = FALSE
    /\ Goto("tool_waiting")
    /\ UNCHANGED <<progress, result, stop_reason,
                   token, time_up, thinking, answer>>

ToolCancelled ==
    /\ pc = "tool_waiting" /\ cancelled
    /\ Yield("cancelled", 0)
    /\ UNCHANGED <<progress, stop_reason, token, clock, threads>>

\* Faulty variant: the deadline of a tool leaves the token alone.
ToolTimeoutAlone ==
    /\ pc = "tool_waiting" /\ ~cancelled /\ call_late
    /\ Yield("timeout", 0)
    /\ UNCHANGED <<progress, stop_reason, token, clock, threads>>

\* Faulty variant: the deadline of a tool is reported as a cancellation.
ToolTimeoutAsCancel ==
    /\ pc = "tool_waiting" /\ ~cancelled /\ call_late
    /\ cancelled' = TRUE
    /\ Yield("cancelled", 0)
    /\ UNCHANGED <<progress, stop_reason, stopped, clock, threads>>

ToolTimeout ==
    /\ pc = "tool_waiting" /\ ~cancelled /\ call_late
    /\ cancelled' = TRUE
    /\ Yield("timeout", 0)
    /\ UNCHANGED <<progress, stop_reason, stopped, clock, threads>>

\* Faulty variant: the clock is not looked at while a tool is at work.
ToolWaitsOn ==
    /\ pc = "tool_waiting" /\ ~cancelled
    /\ Goto("tool_polling")
    /\ UNCHANGED <<progress, result, stop_reason, token, clock, threads>>

ToolWaits ==
    /\ pc = "tool_waiting" /\ ~cancelled /\ ~call_late
    /\ Goto("tool_polling")
    /\ UNCHANGED <<progress, result, stop_reason, token, clock, threads>>

Newest == handlers[Len(handlers)]

ToolPollAgain ==
    /\ pc = "tool_polling" /\ Newest.state = "running"
    /\ Goto("tool_waiting")
    /\ UNCHANGED <<progress, result, stop_reason, token, clock, threads>>

\* Faulty variant: only the tool's own limit bounds a result.
ToolResultLimit == MaxResultBytes

ResultLimit == Smaller(MaxResultBytes, MaxTotalBytes - total_bytes)

\* Faulty variant: the room for the quotes is taken off without a floor.
DeliveredUnquoted(size, limit) == IF size <= limit THEN {size} ELSE limit - 2 .. limit

\* _bound_result: what fits is passed on; what does not is cut to a quoted
\* preview of at most the limit, or, without room for the quotes, counted as
\* the limit.
Delivered(size, limit) ==
    IF size <= limit THEN {size} ELSE IF limit < 2 THEN {limit} ELSE 2 .. limit

ToolAnswers ==
    /\ pc = "tool_polling" /\ Newest.state # "running"
    /\ \/ cancelled /\ Yield("cancelled", 0)
       \/ ~cancelled /\ Newest.state = "error" /\ Yield("error", 0)
       \/ /\ ~cancelled /\ Newest.state = "returned"
          /\ \E bytes \in Delivered(Newest.size, ResultLimit) : Yield("returned", bytes)
    /\ UNCHANGED <<progress, stop_reason, token, clock, threads>>

Loop ==
    \/ RoundsExhausted \/ NoticeCancel \/ NoticeTimeout \/ NoticeNothing
    \/ AskModel \/ PollAgain \/ TakeAnswer
    \/ NextRound \/ (\E next \in Call : NextCall(next)) \/ TakeResult
    \/ Settle \/ Admit \/ StartHandler
    \/ ToolCancelled \/ ToolTimeout \/ ToolWaits \/ ToolPollAgain \/ ToolAnswers

Next ==
    \/ Loop
    \/ Cancel \/ TimePasses \/ DeadlinePasses
    \/ \E given \in Answers \ {Empty} : ModelAnswers(given)
    \/ \E i \in Running, size \in Sizes :
          HandlerEnds(i, "returned", size) \/ HandlerEnds(i, "error", 0)

Spec == Init /\ [][Next]_vars

\* The request thread runs on and the clock ticks; neither the model nor a
\* tool need ever answer, and nobody need stop the turn.
FairSpec == Spec /\ WF_vars(Loop) /\ WF_vars(TimePasses) /\ WF_vars(DeadlinePasses)

(***************************************************************************)
(* Properties                                                              *)
(***************************************************************************)
TypeOK ==
    /\ pc \in {"top", "asking", "waiting", "polling", "calls", "executing", "starting",
               "tool_waiting", "tool_polling", "result", "returned"}
    /\ round \in Nat /\ pending \in Nat /\ calls \in Nat /\ total_bytes \in Nat
    /\ seen \subseteq CallIds
    /\ call \in Call \cup {NoCall} /\ result \in Result
    /\ stop_reason \in StopReasons \cup {"none"}
    /\ cancelled \in BOOLEAN /\ stopped \in BOOLEAN
    /\ time_up \in BOOLEAN /\ call_late \in BOOLEAN
    /\ thinking \subseteq Nat /\ answer \in Answers
    /\ handlers \in Seq(Handler) /\ late_starts \in Nat

\* However the model spreads its calls over rounds, no more tools are started
\* than the limits allow, in all and in any round, and none is started twice
\* for one call (LoopLimits, seen_call_ids).
ToolsStartedWithinLimits ==
    /\ Len(handlers) <= MaxToolCalls
    /\ \A r \in 1 .. MaxRounds : Cardinality(StartedIn(r)) <= MaxCallsPerRound
    /\ \A i, j \in DOMAIN handlers : handlers[i].id = handlers[j].id => i = j

\* The results of all rounds together stay within the byte budget of the run,
\* whatever sizes the tools return (LoopLimits.max_total_result_bytes,
\* _bound_result).
ResultsWithinBudget == total_bytes <= MaxTotalBytes

\* A run has one thing at work at a time: a tool it has given up ends the run,
\* so no tool and no model call starts beside an abandoned one
\* (ToolExecutor.execute, which cancels the token when a deadline passes).
OneThingAtATime == Cardinality(Running) + Cardinality(thinking) <= 1

\* Once the token is set the run starts at most one more thread, the one whose
\* check was already behind it (ToolOrchestrator.run, ToolExecutor.execute).
AtMostOneStartsLate == late_starts <= 1

\* A run says "cancelled" only when somebody stopped it and "timeout" only when
\* time was up, although both end up in one token (CancellationToken).
StopReasonIsTrue ==
    /\ stop_reason = "cancelled" => stopped
    /\ stop_reason = "timeout" => time_up \/ call_late

\* A run returns, even if the model and the tools never do.
EveryRunReturns == <>(pc = "returned")

\* A run is of its type, has at most one thread to wait for, and says truly why
\* it stopped.
RunIsSound == TypeOK /\ OneThingAtATime /\ StopReasonIsTrue
=============================================================================
