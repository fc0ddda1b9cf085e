------------------------- MODULE ToolsAndHeadProofs --------------------------
(***************************************************************************)
(* Proofs about the tool loop and the head state reducer, for any limits,  *)
(* any calls, and events in any order.                                     *)
(***************************************************************************)
EXTENDS ToolOrchestrator, HeadState, FiniteSetTheorems, SequenceTheorems, TLAPS

(***************************************************************************)
(* The tool loop.  A call in flight (looked at, its thread not started) is *)
(* counted before it starts and leaves room in every limit (RoomIsKept,    *)
(* CallsAreCounted, RoundIsCounted).  While the run goes on, a thread at   *)
(* work is the one the run waits for (ThreadIsAwaited), a set token was    *)
(* set by somebody else unless a deadline is being reported, and a thread  *)
(* started late is followed by the check that notices the token            *)
(* (TokenIsNoticed).                                                       *)
(***************************************************************************)

(***************************************************************************)
(* The inductive invariant                                                 *)
(***************************************************************************)
BeforeStart == {"executing", "starting"}
AwaitingTool == {"tool_waiting", "tool_polling"}

RoomIsKept ==
    /\ total_bytes <= MaxTotalBytes
    /\ pc \in BeforeStart \cup AwaitingTool => total_bytes < MaxTotalBytes
    /\ pc = "result" => total_bytes + result.bytes <= MaxTotalBytes

CallsAreCounted ==
    /\ Len(handlers) <= MaxToolCalls
    /\ pc # "returned" => Len(handlers) <= calls /\ calls <= MaxToolCalls
    /\ \A i \in DOMAIN handlers : handlers[i].id \in seen
    /\ \A i, j \in DOMAIN handlers : handlers[i].id = handlers[j].id => i = j
    /\ pc \in BeforeStart =>
          /\ Len(handlers) < calls
          /\ call \in Call /\ call.id \in seen
          /\ \A i \in DOMAIN handlers : handlers[i].id # call.id

RoundIsCounted ==
    /\ \A i \in DOMAIN handlers : handlers[i].round <= round
    /\ \A r \in Nat : Cardinality(StartedIn(r)) <= MaxCallsPerRound
    /\ pc \in {"top", "asking", "waiting", "polling"} => Cardinality(StartedIn(round)) = 0
    /\ pc \in AwaitingTool \cup {"calls", "result"} =>
          Cardinality(StartedIn(round)) + pending <= MaxCallsPerRound
    /\ pc \in BeforeStart => Cardinality(StartedIn(round)) + pending < MaxCallsPerRound

ThreadIsAwaited ==
    /\ thinking \subseteq {round} /\ Running \subseteq {Len(handlers)}
    /\ thinking = {} \/ Running = {}
    /\ pc \in AwaitingTool => handlers # <<>>
    /\ thinking # {} => answer = Empty /\ pc \in {"waiting", "polling", "returned"}
    /\ Running # {} =>
          \/ pc \in AwaitingTool \cup {"returned"}
          \/ pc = "result" /\ (result.status = "cancelled" \/ (result.status = "timeout" /\ cancelled))

TokenIsNoticed ==
    /\ pc # "returned" => stop_reason = "none"
    /\ stop_reason = "cancelled" => stopped
    /\ stop_reason = "timeout" => time_up \/ call_late
    /\ cancelled => stopped \/ pc = "returned" \/ (pc = "result" /\ result.status = "timeout")
    /\ pc = "result" /\ result.status = "cancelled" => stopped
    /\ pc = "result" /\ result.status = "timeout" => time_up \/ call_late
    /\ late_starts <= 1
    /\ late_starts = 1 =>
          /\ cancelled
          /\ \/ pc \in {"waiting", "tool_waiting", "returned"}
             \/ pc = "result" /\ result.status = "cancelled"

IInv ==
    /\ TypeOK
    /\ RoomIsKept /\ CallsAreCounted /\ RoundIsCounted /\ ThreadIsAwaited /\ TokenIsNoticed

(***************************************************************************)
(* Sequences of handlers                                                   *)
(***************************************************************************)

\* A started thread is added behind the others.
LEMMA StartedFacts ==
    ASSUME NEW s \in Seq(Handler), NEW h \in Handler
    PROVE  /\ Append(s, h) \in Seq(Handler)
           /\ Len(s) \in Nat /\ DOMAIN s = 1 .. Len(s)
           /\ Len(Append(s, h)) = Len(s) + 1
           /\ DOMAIN Append(s, h) = 1 .. Len(s) + 1
           /\ Append(s, h)[Len(s) + 1] = h
           /\ \A i \in DOMAIN s : Append(s, h)[i] = s[i]
OBVIOUS

\* A thread that ends changes in state and size, and no other thread changes.
LEMMA EndedFacts ==
    ASSUME NEW s \in Seq(Handler), NEW i \in DOMAIN s,
           NEW state \in {"error", "returned"}, NEW size \in Nat,
           NEW t, t = [s EXCEPT ![i].state = state, ![i].size = size]
    PROVE  /\ t \in Seq(Handler)
           /\ Len(t) = Len(s) /\ DOMAIN t = DOMAIN s /\ Len(s) \in Nat
           /\ t[i].state = state
           /\ \A j \in DOMAIN s : t[j].id = s[j].id /\ t[j].round = s[j].round
           /\ \A j \in DOMAIN s : j # i => t[j] = s[j]
<1>1. s[i] \in Handler
  OBVIOUS
<1> DEFINE h == [s[i] EXCEPT !.state = state, !.size = size]
           r == [s EXCEPT ![i] = h]
<1>2. h \in Handler /\ h.id = s[i].id /\ h.round = s[i].round /\ h.state = state
  BY <1>1 DEF Handler
<1>3. t = r
  OBVIOUS
<1> HIDE DEF h
<1>4. r \in Seq(Handler) /\ Len(r) = Len(s) /\ DOMAIN r = DOMAIN s /\ Len(s) \in Nat
      /\ r[i] = h /\ \A j \in DOMAIN s : j # i => r[j] = s[j]
  BY <1>2
<1> HIDE DEF r
<1>5. QED
  BY <1>2, <1>3, <1>4

(***************************************************************************)
(* Sizes and counts                                                        *)
(***************************************************************************)

\* What is delivered of a result is no larger than its limit.
LEMMA DeliveredFacts ==
    ASSUME NEW size \in Nat, NEW limit \in Nat, NEW bytes \in Delivered(size, limit)
    PROVE  bytes \in Nat /\ bytes <= limit
BY DEF Delivered

\* The limit of a result is what is left of the budget, or less.
LEMMA ResultLimitFacts ==
    ASSUME TypeOK, total_bytes < MaxTotalBytes
    PROVE  ResultLimit \in Nat /\ total_bytes + ResultLimit <= MaxTotalBytes
BY LimitsArePositive DEF ResultLimit, Smaller, TypeOK

\* So an answered tool call fits into the budget.
LEMMA AnswerFacts ==
    ASSUME TypeOK, RoomIsKept, ThreadIsAwaited, ToolAnswers
    PROVE  result' \in Result /\ total_bytes + result'.bytes <= MaxTotalBytes
<1>1. pc \in AwaitingTool /\ total_bytes < MaxTotalBytes /\ MaxTotalBytes \in Nat /\ total_bytes \in Nat
  BY LimitsArePositive DEF ToolAnswers, AwaitingTool, RoomIsKept, TypeOK
<1>2. Newest \in Handler
  BY <1>1 DEF ThreadIsAwaited, Newest, TypeOK
<1>3. Newest.size \in Nat
  BY <1>2 DEF Handler
<1>4. ResultLimit \in Nat /\ total_bytes + ResultLimit <= MaxTotalBytes
  BY <1>1, ResultLimitFacts
<1>5. \A bytes \in Delivered(Newest.size, ResultLimit) :
         bytes \in Nat /\ total_bytes + bytes <= MaxTotalBytes
  BY <1>1, <1>3, <1>4, DeliveredFacts
<1>6. QED
  BY <1>1, <1>5 DEF ToolAnswers, Yield, Result, Statuses

\* The threads of a round can be counted.
LEMMA CountFacts ==
    ASSUME TypeOK
    PROVE  \A r : IsFiniteSet(StartedIn(r)) /\ Cardinality(StartedIn(r)) \in Nat
<1> TAKE r
<1>1. Len(handlers) \in Nat /\ StartedIn(r) \in SUBSET (1 .. Len(handlers))
  BY DEF TypeOK, StartedIn
<1>2. IsFiniteSet(1 .. Len(handlers))
  BY <1>1, FS_Interval
<1>3. IsFiniteSet(StartedIn(r))
  BY <1>1, <1>2, FS_Subset
<1>4. QED
  BY <1>3, FS_CardinalityType

(***************************************************************************)
(* Every step keeps the invariant                                          *)
(***************************************************************************)
\* Every step keeps the types; a delivered result has a size because there is
\* room for it.
LEMMA TypeKept ==
    ASSUME TypeOK, RoomIsKept, CallsAreCounted, ThreadIsAwaited, [Next]_vars
    PROVE  TypeOK'
<1> USE DEF TypeOK
<1>1. ASSUME RoundsExhausted
      PROVE  TypeOK'
  BY <1>1 DEF RoundsExhausted, StopReasons, Return, Goto, progress, token, clock, threads
<1>2. ASSUME NoticeCancel
      PROVE  TypeOK'
  BY <1>2 DEF NoticeCancel, StopReasons, Noticing, Return, Goto, progress, token, clock, threads
<1>3. ASSUME NoticeTimeout
      PROVE  TypeOK'
  BY <1>3 DEF NoticeTimeout, StopReasons, Noticing, Return, Goto, progress, clock, threads
<1>4. ASSUME NoticeNothing
      PROVE  TypeOK'
  BY <1>4 DEF NoticeNothing, Noticing, Goto, progress, token, clock, threads
<1>5. ASSUME AskModel
      PROVE  TypeOK'
  BY <1>5 DEF AskModel, Empty, Answers, Started, Goto, progress, token, clock
<1>6. ASSUME PollAgain
      PROVE  TypeOK'
  BY <1>6 DEF PollAgain, Goto, progress, token, clock, threads
<1>7. ASSUME TakeAnswer
      PROVE  TypeOK'
  BY <1>7 DEF TakeAnswer, StopReasons, Answers, Return, Goto, token, clock, threads
<1>8. ASSUME NextRound
      PROVE  TypeOK'
  BY <1>8 DEF NextRound, Goto, token, clock, threads
<1>9. ASSUME NEW next \in Call, NextCall(next)
      PROVE  TypeOK'
  <2>1. next.id \in CallIds
    BY DEF Call
  <2>2. QED
    BY <1>9, <2>1 DEF NextCall, StopReasons, Return, Goto, token, clock, threads
<1>10. ASSUME TakeResult
       PROVE  TypeOK'
  BY <1>10 DEF TakeResult, StopReasons, Result, Statuses, Return, Goto, token, clock, threads
<1>11. ASSUME Settle
       PROVE  TypeOK'
  BY <1>11 DEF Settle, Result, Statuses, Yield, Goto, progress, token, clock, threads
<1>12. ASSUME Admit
       PROVE  TypeOK'
  BY <1>12 DEF Admit, Goto, progress, token, clock, threads
<1>13. ASSUME StartHandler
       PROVE  TypeOK'
  <2>1. [id |-> call.id, round |-> round, state |-> "running", size |-> 0] \in Handler
    BY <1>13 DEF StartHandler, CallsAreCounted, BeforeStart, Call, Handler
  <2>2. handlers' \in Seq(Handler)
    BY <1>13, <2>1, StartedFacts DEF StartHandler
  <2>3. late_starts' \in Nat
    BY <1>13 DEF StartHandler, Started
  <2>4. QED
    BY <1>13, <2>2, <2>3 DEF StartHandler, Goto, progress, token
<1>14. ASSUME ToolCancelled
       PROVE  TypeOK'
  BY <1>14 DEF ToolCancelled, Result, Statuses, Yield, Goto, progress, token, clock, threads
<1>15. ASSUME ToolTimeout
       PROVE  TypeOK'
  BY <1>15 DEF ToolTimeout, Result, Statuses, Yield, Goto, progress, clock, threads
<1>16. ASSUME ToolWaits
       PROVE  TypeOK'
  BY <1>16 DEF ToolWaits, Goto, progress, token, clock, threads
<1>17. ASSUME ToolPollAgain
       PROVE  TypeOK'
  BY <1>17 DEF ToolPollAgain, Goto, progress, token, clock, threads
<1>18. ASSUME ToolAnswers
       PROVE  TypeOK'
  BY <1>18, AnswerFacts DEF ToolAnswers, Yield, Goto, progress, token, clock, threads
<1>19. ASSUME Cancel
       PROVE  TypeOK'
  BY <1>19 DEF Cancel, control, progress, clock, threads
<1>20. ASSUME TimePasses
       PROVE  TypeOK'
  BY <1>20 DEF TimePasses, control, progress, token, threads
<1>21. ASSUME DeadlinePasses
       PROVE  TypeOK'
  BY <1>21 DEF DeadlinePasses, control, progress, threads
<1>22. ASSUME NEW given \in Answers \ {Empty}, ModelAnswers(given)
       PROVE  TypeOK'
  BY <1>22 DEF ModelAnswers, control, progress, token, clock
<1>23. ASSUME NEW i \in Running, NEW state \in {"error", "returned"}, NEW size \in Nat,
              HandlerEnds(i, state, size)
       PROVE  TypeOK'
  <2>1. handlers' \in Seq(Handler)
    BY <1>23, EndedFacts DEF HandlerEnds, Running
  <2>2. QED
    BY <1>23, <2>1 DEF HandlerEnds, control, progress, token, clock
<1>24. CASE UNCHANGED vars
  BY <1>24 DEF vars, control, progress, token, clock, threads
<1>25. QED
  BY <1>1, <1>2, <1>3, <1>4, <1>5, <1>6, <1>7, <1>8, <1>9, <1>10, <1>11, <1>12,
     <1>13, <1>14, <1>15, <1>16, <1>17, <1>18, <1>19, <1>20, <1>21, <1>22, <1>23, <1>24,
     LimitsArePositive DEF Next, Loop

\* The byte budget is checked before a call and bounds its result.
LEMMA RoomKept ==
    ASSUME TypeOK, RoomIsKept, ThreadIsAwaited, [Next]_vars
    PROVE  RoomIsKept'
<1> USE DEF TypeOK, RoomIsKept, BeforeStart, AwaitingTool
<1>1. ASSUME RoundsExhausted
      PROVE  RoomIsKept'
  BY <1>1 DEF RoundsExhausted, Return, Goto, progress, token, clock, threads
<1>2. ASSUME NoticeCancel
      PROVE  RoomIsKept'
  BY <1>2 DEF NoticeCancel, Noticing, Return, Goto, progress, token, clock, threads
<1>3. ASSUME NoticeTimeout
      PROVE  RoomIsKept'
  BY <1>3 DEF NoticeTimeout, Noticing, Return, Goto, progress, clock, threads
<1>4. ASSUME NoticeNothing
      PROVE  RoomIsKept'
  BY <1>4 DEF NoticeNothing, Noticing, Goto, progress, token, clock, threads
<1>5. ASSUME AskModel
      PROVE  RoomIsKept'
  BY <1>5 DEF AskModel, Started, Goto, progress, token, clock
<1>6. ASSUME PollAgain
      PROVE  RoomIsKept'
  BY <1>6 DEF PollAgain, Goto, progress, token, clock, threads
<1>7. ASSUME TakeAnswer
      PROVE  RoomIsKept'
  BY <1>7 DEF TakeAnswer, Return, Goto, token, clock, threads
<1>8. ASSUME NextRound
      PROVE  RoomIsKept'
  BY <1>8 DEF NextRound, Goto, token, clock, threads
<1>9. ASSUME NEW next \in Call, NextCall(next)
      PROVE  RoomIsKept'
  BY <1>9, LimitsArePositive DEF NextCall, Return, Goto, token, clock, threads
<1>10. ASSUME TakeResult
       PROVE  RoomIsKept'
  BY <1>10 DEF TakeResult, Return, Goto, token, clock, threads
<1>11. ASSUME Settle
       PROVE  RoomIsKept'
  BY <1>11 DEF Settle, Yield, Goto, progress, token, clock, threads
<1>12. ASSUME Admit
       PROVE  RoomIsKept'
  BY <1>12 DEF Admit, Goto, progress, token, clock, threads
<1>13. ASSUME StartHandler
       PROVE  RoomIsKept'
  BY <1>13 DEF StartHandler, Started, Goto, progress, token
<1>14. ASSUME ToolCancelled
       PROVE  RoomIsKept'
  BY <1>14 DEF ToolCancelled, Yield, Goto, progress, token, clock, threads
<1>15. ASSUME ToolTimeout
       PROVE  RoomIsKept'
  BY <1>15 DEF ToolTimeout, Yield, Goto, progress, clock, threads
<1>16. ASSUME ToolWaits
       PROVE  RoomIsKept'
  BY <1>16 DEF ToolWaits, Goto, progress, token, clock, threads
<1>17. ASSUME ToolPollAgain
       PROVE  RoomIsKept'
  BY <1>17 DEF ToolPollAgain, Goto, progress, token, clock, threads
<1>18. ASSUME ToolAnswers
       PROVE  RoomIsKept'
  BY <1>18, AnswerFacts DEF ToolAnswers, Yield, Goto, progress, token, clock, threads
<1>19. ASSUME Cancel
       PROVE  RoomIsKept'
  BY <1>19 DEF Cancel, control, progress, clock, threads
<1>20. ASSUME TimePasses
       PROVE  RoomIsKept'
  BY <1>20 DEF TimePasses, control, progress, token, threads
<1>21. ASSUME DeadlinePasses
       PROVE  RoomIsKept'
  BY <1>21 DEF DeadlinePasses, control, progress, threads
<1>22. ASSUME NEW given \in Answers \ {Empty}, ModelAnswers(given)
       PROVE  RoomIsKept'
  BY <1>22 DEF ModelAnswers, control, progress, token, clock
<1>23. ASSUME NEW i \in Running, NEW state \in {"error", "returned"}, NEW size \in Nat,
              HandlerEnds(i, state, size)
       PROVE  RoomIsKept'
  BY <1>23 DEF HandlerEnds, control, progress, token, clock
<1>24. CASE UNCHANGED vars
  BY <1>24 DEF vars, control, progress, token, clock, threads
<1>25. QED
  BY <1>1, <1>2, <1>3, <1>4, <1>5, <1>6, <1>7, <1>8, <1>9, <1>10, <1>11, <1>12,
     <1>13, <1>14, <1>15, <1>16, <1>17, <1>18, <1>19, <1>20, <1>21, <1>22, <1>23, <1>24,
     LimitsArePositive DEF Next, Loop

\* A call is counted, and its identifier remembered, before its thread starts.
LEMMA CallsKept ==
    ASSUME TypeOK, CallsAreCounted, [Next]_vars
    PROVE  CallsAreCounted'
<1> USE DEF TypeOK, CallsAreCounted, BeforeStart, AwaitingTool
<1>1. ASSUME RoundsExhausted
      PROVE  CallsAreCounted'
  BY <1>1 DEF RoundsExhausted, Return, Goto, progress, token, clock, threads
<1>2. ASSUME NoticeCancel
      PROVE  CallsAreCounted'
  BY <1>2 DEF NoticeCancel, Noticing, Return, Goto, progress, token, clock, threads
<1>3. ASSUME NoticeTimeout
      PROVE  CallsAreCounted'
  BY <1>3 DEF NoticeTimeout, Noticing, Return, Goto, progress, clock, threads
<1>4. ASSUME NoticeNothing
      PROVE  CallsAreCounted'
  BY <1>4 DEF NoticeNothing, Noticing, Goto, progress, token, clock, threads
<1>5. ASSUME AskModel
      PROVE  CallsAreCounted'
  BY <1>5 DEF AskModel, Started, Goto, progress, token, clock
<1>6. ASSUME PollAgain
      PROVE  CallsAreCounted'
  BY <1>6 DEF PollAgain, Goto, progress, token, clock, threads
<1>7. ASSUME TakeAnswer
      PROVE  CallsAreCounted'
  BY <1>7 DEF TakeAnswer, Return, Goto, token, clock, threads
<1>8. ASSUME NextRound
      PROVE  CallsAreCounted'
  BY <1>8 DEF NextRound, Goto, token, clock, threads
<1>9. ASSUME NEW next \in Call, NextCall(next)
      PROVE  CallsAreCounted'
  BY <1>9, LimitsArePositive DEF NextCall, Return, Goto, token, clock, threads
<1>10. ASSUME TakeResult
       PROVE  CallsAreCounted'
  BY <1>10 DEF TakeResult, Return, Goto, token, clock, threads
<1>11. ASSUME Settle
       PROVE  CallsAreCounted'
  BY <1>11 DEF Settle, Yield, Goto, progress, token, clock, threads
<1>12. ASSUME Admit
       PROVE  CallsAreCounted'
  BY <1>12 DEF Admit, Goto, progress, token, clock, threads
<1>13. ASSUME StartHandler
       PROVE  CallsAreCounted'
  <2> DEFINE h == [id |-> call.id, round |-> round, state |-> "running", size |-> 0]
  <2>1. h \in Handler /\ h.id = call.id
    BY <1>13 DEF StartHandler, Call, Handler
  <2>2. handlers' = Append(handlers, h) /\ pc' = "tool_waiting"
        /\ UNCHANGED <<calls, seen, call>>
    BY <1>13 DEF StartHandler, Goto, progress
  <2> HIDE DEF h
  <2>3. /\ Len(handlers) \in Nat /\ DOMAIN handlers = 1 .. Len(handlers)
        /\ Len(handlers') = Len(handlers) + 1
        /\ DOMAIN handlers' = 1 .. Len(handlers) + 1
        /\ handlers'[Len(handlers) + 1].id = call.id
        /\ \A i \in DOMAIN handlers : handlers'[i].id = handlers[i].id
    BY <2>1, <2>2, StartedFacts
  <2>4. /\ Len(handlers) < calls /\ calls <= MaxToolCalls /\ call.id \in seen
        /\ \A i \in DOMAIN handlers : handlers[i].id # call.id
    BY <1>13 DEF StartHandler
  <2>5. \A i \in DOMAIN handlers' : i = Len(handlers) + 1 \/ i \in DOMAIN handlers
    BY <2>3
  <2>6. /\ \A i \in DOMAIN handlers' : handlers'[i].id \in seen'
        /\ \A i, j \in DOMAIN handlers' : handlers'[i].id = handlers'[j].id => i = j
    BY <2>2, <2>3, <2>4, <2>5
  <2>7. Len(handlers') <= calls' /\ calls' <= MaxToolCalls /\ Len(handlers') <= MaxToolCalls
    BY <2>2, <2>3, <2>4, LimitsArePositive
  <2>8. QED
    BY <2>2, <2>6, <2>7
<1>14. ASSUME ToolCancelled
       PROVE  CallsAreCounted'
  BY <1>14 DEF ToolCancelled, Yield, Goto, progress, token, clock, threads
<1>15. ASSUME ToolTimeout
       PROVE  CallsAreCounted'
  BY <1>15 DEF ToolTimeout, Yield, Goto, progress, clock, threads
<1>16. ASSUME ToolWaits
       PROVE  CallsAreCounted'
  BY <1>16 DEF ToolWaits, Goto, progress, token, clock, threads
<1>17. ASSUME ToolPollAgain
       PROVE  CallsAreCounted'
  BY <1>17 DEF ToolPollAgain, Goto, progress, token, clock, threads
<1>18. ASSUME ToolAnswers
       PROVE  CallsAreCounted'
  BY <1>18 DEF ToolAnswers, Yield, Goto, progress, token, clock, threads
<1>19. ASSUME Cancel
       PROVE  CallsAreCounted'
  BY <1>19 DEF Cancel, control, progress, clock, threads
<1>20. ASSUME TimePasses
       PROVE  CallsAreCounted'
  BY <1>20 DEF TimePasses, control, progress, token, threads
<1>21. ASSUME DeadlinePasses
       PROVE  CallsAreCounted'
  BY <1>21 DEF DeadlinePasses, control, progress, threads
<1>22. ASSUME NEW given \in Answers \ {Empty}, ModelAnswers(given)
       PROVE  CallsAreCounted'
  BY <1>22 DEF ModelAnswers, control, progress, token, clock
<1>23. ASSUME NEW i \in Running, NEW state \in {"error", "returned"}, NEW size \in Nat,
              HandlerEnds(i, state, size)
       PROVE  CallsAreCounted'
  BY <1>23 DEF HandlerEnds, control, progress, token, clock
<1>24. CASE UNCHANGED vars
  BY <1>24 DEF vars, control, progress, token, clock, threads
<1>25. QED
  BY <1>1, <1>2, <1>3, <1>4, <1>5, <1>6, <1>7, <1>8, <1>9, <1>10, <1>11, <1>12,
     <1>13, <1>14, <1>15, <1>16, <1>17, <1>18, <1>19, <1>20, <1>21, <1>22, <1>23, <1>24,
     LimitsArePositive DEF Next, Loop

\* A round starts a thread for none but the calls of its answer.
LEMMA RoundKept ==
    ASSUME TypeOK, CallsAreCounted, RoundIsCounted, [Next]_vars
    PROVE  RoundIsCounted'
<1> USE DEF TypeOK, RoundIsCounted, BeforeStart, AwaitingTool
<1> DEFINE count == Cardinality(StartedIn(round))
<1>0. UNCHANGED handlers => \A r : StartedIn(r)' = StartedIn(r)
  BY DEF StartedIn
<1>c. count \in Nat /\ MaxCallsPerRound \in Nat
  BY CountFacts, LimitsArePositive
<1>1. ASSUME RoundsExhausted
      PROVE  RoundIsCounted'
  BY <1>0, <1>1 DEF RoundsExhausted, Return, Goto, progress, token, clock, threads
<1>2. ASSUME NoticeCancel
      PROVE  RoundIsCounted'
  BY <1>0, <1>2 DEF NoticeCancel, Noticing, Return, Goto, progress, token, clock, threads
<1>3. ASSUME NoticeTimeout
      PROVE  RoundIsCounted'
  BY <1>0, <1>3 DEF NoticeTimeout, Noticing, Return, Goto, progress, clock, threads
<1>4. ASSUME NoticeNothing
      PROVE  RoundIsCounted'
  BY <1>0, <1>4 DEF NoticeNothing, Noticing, Goto, progress, token, clock, threads
<1>5. ASSUME AskModel
      PROVE  RoundIsCounted'
  BY <1>0, <1>5 DEF AskModel, Started, Goto, progress, token, clock
<1>6. ASSUME PollAgain
      PROVE  RoundIsCounted'
  BY <1>0, <1>6 DEF PollAgain, Goto, progress, token, clock, threads
<1>7. ASSUME TakeAnswer
      PROVE  RoundIsCounted'
  <2>1. answer.calls \in Nat
    BY <1>7, LimitsArePositive DEF TakeAnswer, Answers
  <2>2. QED
    BY <1>0, <1>c, <1>7, <2>1 DEF TakeAnswer, Return, Goto, token, clock, threads
<1>8. ASSUME NextRound
      PROVE  RoundIsCounted'
  <2>1. StartedIn(round + 1) = {}
    BY <1>8 DEF Handler, StartedIn
  <2>2. Cardinality(StartedIn(round + 1)) = 0
    BY <2>1, FS_EmptySet
  <2>3. \A i \in DOMAIN handlers : handlers[i].round <= round + 1
    <3>1. \A i \in DOMAIN handlers : handlers[i] \in Handler
      OBVIOUS
    <3>2. QED
      BY <3>1 DEF Handler
  <2>4. handlers' = handlers /\ round' = round + 1 /\ pc' = "top"
    BY <1>8 DEF NextRound, Goto, threads
  <2>5. QED
    BY <1>0, <2>2, <2>3, <2>4
<1>9. ASSUME NEW next \in Call, NextCall(next)
      PROVE  RoundIsCounted'
  <2>1. /\ count' = count /\ UNCHANGED <<handlers, round>>
        /\ count + pending <= MaxCallsPerRound /\ pending' = pending - 1
        /\ pc' \in {"returned", "executing"}
    BY <1>0, <1>9 DEF NextCall, Return, Goto, threads
  <2>2. count' + pending' < MaxCallsPerRound
    BY <1>c, <2>1
  <2>3. QED
    BY <1>0, <2>1, <2>2
<1>10. ASSUME TakeResult
       PROVE  RoundIsCounted'
  BY <1>0, <1>10 DEF TakeResult, Return, Goto, token, clock, threads
<1>11. ASSUME Settle
       PROVE  RoundIsCounted'
  <2>1. /\ count' = count /\ UNCHANGED <<handlers, round, pending>>
        /\ count + pending < MaxCallsPerRound
        /\ pc' = "result"
    BY <1>0, <1>11 DEF Settle, Yield, Goto, progress, threads
  <2>2. count' + pending' <= MaxCallsPerRound
    BY <1>c, <2>1
  <2>3. QED
    BY <1>0, <2>1, <2>2
<1>12. ASSUME Admit
       PROVE  RoundIsCounted'
  BY <1>0, <1>12 DEF Admit, Goto, progress, token, clock, threads
<1>13. ASSUME StartHandler
       PROVE  RoundIsCounted'
  <2> DEFINE h == [id |-> call.id, round |-> round, state |-> "running", size |-> 0]
             n == Len(handlers) + 1
  <2>1. h \in Handler /\ h.round = round
    BY <1>13 DEF StartHandler, CallsAreCounted, Call, Handler
  <2>2. handlers' = Append(handlers, h) /\ pc' = "tool_waiting" /\ pc = "starting"
        /\ UNCHANGED <<round, pending>>
    BY <1>13 DEF StartHandler, Goto, progress
  <2> HIDE DEF h
  <2>3. /\ n \in Nat /\ DOMAIN handlers' = DOMAIN handlers \cup {n} /\ n \notin DOMAIN handlers
        /\ handlers'[n].round = round
        /\ \A i \in DOMAIN handlers : handlers'[i].round = handlers[i].round
    BY <2>1, <2>2, StartedFacts
  <2> HIDE DEF n
  <2>4. \A i \in DOMAIN handlers' : handlers'[i].round <= round'
    BY <2>2, <2>3
  <2>5. StartedIn(round)' = StartedIn(round) \cup {n} /\ n \notin StartedIn(round)
    BY <2>2, <2>3 DEF StartedIn
  <2>6. \A r \in Nat \ {round} : StartedIn(r)' = StartedIn(r)
    BY <2>3 DEF StartedIn
  <2>7. Cardinality(StartedIn(round)') = Cardinality(StartedIn(round)) + 1
    BY <2>5, CountFacts, FS_AddElement
  <2>8. Cardinality(StartedIn(round)) + pending < MaxCallsPerRound
    BY <2>2
  <2>9. Cardinality(StartedIn(round)') + pending' <= MaxCallsPerRound
    BY <1>c, <2>2, <2>7, <2>8
  <2>10. \A r \in Nat : Cardinality(StartedIn(r)') <= MaxCallsPerRound
    BY <1>c, <2>2, <2>6, <2>7, <2>8
  <2>11. QED
    BY <2>2, <2>4, <2>9, <2>10
<1>14. ASSUME ToolCancelled
       PROVE  RoundIsCounted'
  BY <1>0, <1>14 DEF ToolCancelled, Yield, Goto, progress, token, clock, threads
<1>15. ASSUME ToolTimeout
       PROVE  RoundIsCounted'
  BY <1>0, <1>15 DEF ToolTimeout, Yield, Goto, progress, clock, threads
<1>16. ASSUME ToolWaits
       PROVE  RoundIsCounted'
  BY <1>0, <1>16 DEF ToolWaits, Goto, progress, token, clock, threads
<1>17. ASSUME ToolPollAgain
       PROVE  RoundIsCounted'
  BY <1>0, <1>17 DEF ToolPollAgain, Goto, progress, token, clock, threads
<1>18. ASSUME ToolAnswers
       PROVE  RoundIsCounted'
  BY <1>0, <1>18 DEF ToolAnswers, Yield, Goto, progress, token, clock, threads
<1>19. ASSUME Cancel
       PROVE  RoundIsCounted'
  BY <1>0, <1>19 DEF Cancel, control, progress, clock, threads
<1>20. ASSUME TimePasses
       PROVE  RoundIsCounted'
  BY <1>0, <1>20 DEF TimePasses, control, progress, token, threads
<1>21. ASSUME DeadlinePasses
       PROVE  RoundIsCounted'
  BY <1>0, <1>21 DEF DeadlinePasses, control, progress, threads
<1>22. ASSUME NEW given \in Answers \ {Empty}, ModelAnswers(given)
       PROVE  RoundIsCounted'
  BY <1>0, <1>22 DEF ModelAnswers, control, progress, token, clock
<1>23. ASSUME NEW i \in Running, NEW state \in {"error", "returned"}, NEW size \in Nat,
              HandlerEnds(i, state, size)
       PROVE  RoundIsCounted'
  <2>1. /\ i \in DOMAIN handlers
        /\ handlers' = [handlers EXCEPT ![i].state = state, ![i].size = size]
    BY <1>23 DEF HandlerEnds, Running
  <2>2. DOMAIN handlers' = DOMAIN handlers
        /\ \A j \in DOMAIN handlers : handlers'[j].round = handlers[j].round
    <3> HIDE DEF TypeOK, RoundIsCounted
    <3>1. handlers \in Seq(Handler)
      BY DEF TypeOK
    <3>2. QED
      BY <2>1, <3>1, EndedFacts
  <2>3. \A r : StartedIn(r)' = StartedIn(r)
    BY <2>2 DEF StartedIn
  <2>4. UNCHANGED <<pc, round, pending>>
    BY <1>23 DEF HandlerEnds, control, progress
  <2>5. QED
    BY <2>2, <2>3, <2>4
<1>24. CASE UNCHANGED vars
  BY <1>0, <1>24 DEF vars, control, progress, token, clock, threads
<1>25. QED
  BY <1>1, <1>2, <1>3, <1>4, <1>5, <1>6, <1>7, <1>8, <1>9, <1>10, <1>11, <1>12,
     <1>13, <1>14, <1>15, <1>16, <1>17, <1>18, <1>19, <1>20, <1>21, <1>22, <1>23, <1>24,
     LimitsArePositive DEF Next, Loop

\* The run goes on only when the thread it waited for has ended.
LEMMA ThreadKept ==
    ASSUME TypeOK, ThreadIsAwaited, [Next]_vars
    PROVE  ThreadIsAwaited'
<1> USE DEF TypeOK, ThreadIsAwaited, Running, BeforeStart, AwaitingTool
<1>1. ASSUME RoundsExhausted
      PROVE  ThreadIsAwaited'
  BY <1>1 DEF RoundsExhausted, Return, Goto, progress, token, clock, threads
<1>2. ASSUME NoticeCancel
      PROVE  ThreadIsAwaited'
  BY <1>2 DEF NoticeCancel, Noticing, Return, Goto, progress, token, clock, threads
<1>3. ASSUME NoticeTimeout
      PROVE  ThreadIsAwaited'
  BY <1>3 DEF NoticeTimeout, Noticing, Return, Goto, progress, clock, threads
<1>4. ASSUME NoticeNothing
      PROVE  ThreadIsAwaited'
  BY <1>4 DEF NoticeNothing, Noticing, Goto, progress, token, clock, threads
<1>5. ASSUME AskModel
      PROVE  ThreadIsAwaited'
  BY <1>5 DEF AskModel, Started, Goto, progress, token, clock
<1>6. ASSUME PollAgain
      PROVE  ThreadIsAwaited'
  BY <1>6 DEF PollAgain, Goto, progress, token, clock, threads
<1>7. ASSUME TakeAnswer
      PROVE  ThreadIsAwaited'
  BY <1>7 DEF TakeAnswer, Return, Goto, token, clock, threads
<1>8. ASSUME NextRound
      PROVE  ThreadIsAwaited'
  BY <1>8 DEF NextRound, Goto, token, clock, threads
<1>9. ASSUME NEW next \in Call, NextCall(next)
      PROVE  ThreadIsAwaited'
  BY <1>9 DEF NextCall, Return, Goto, token, clock, threads
<1>10. ASSUME TakeResult
       PROVE  ThreadIsAwaited'
  BY <1>10 DEF TakeResult, Return, Goto, token, clock, threads
<1>11. ASSUME Settle
       PROVE  ThreadIsAwaited'
  BY <1>11 DEF Settle, Yield, Goto, progress, token, clock, threads
<1>12. ASSUME Admit
       PROVE  ThreadIsAwaited'
  BY <1>12 DEF Admit, Goto, progress, token, clock, threads
<1>13. ASSUME StartHandler
       PROVE  ThreadIsAwaited'
  BY <1>13 DEF StartHandler, Started, Goto, progress, token
<1>14. ASSUME ToolCancelled
       PROVE  ThreadIsAwaited'
  BY <1>14 DEF ToolCancelled, Yield, Goto, progress, token, clock, threads
<1>15. ASSUME ToolTimeout
       PROVE  ThreadIsAwaited'
  BY <1>15 DEF ToolTimeout, Yield, Goto, progress, clock, threads
<1>16. ASSUME ToolWaits
       PROVE  ThreadIsAwaited'
  BY <1>16 DEF ToolWaits, Goto, progress, token, clock, threads
<1>17. ASSUME ToolPollAgain
       PROVE  ThreadIsAwaited'
  BY <1>17 DEF ToolPollAgain, Goto, progress, token, clock, threads
<1>18. ASSUME ToolAnswers
       PROVE  ThreadIsAwaited'
  <2>1. Running = {} /\ thinking = {}
    BY <1>18 DEF ToolAnswers, Newest
  <2>2. QED
    BY <1>18, <2>1 DEF ToolAnswers, Yield, Goto, progress, token, clock, threads
<1>19. ASSUME Cancel
       PROVE  ThreadIsAwaited'
  BY <1>19 DEF Cancel, control, progress, clock, threads
<1>20. ASSUME TimePasses
       PROVE  ThreadIsAwaited'
  BY <1>20 DEF TimePasses, control, progress, token, threads
<1>21. ASSUME DeadlinePasses
       PROVE  ThreadIsAwaited'
  BY <1>21 DEF DeadlinePasses, control, progress, threads
<1>22. ASSUME NEW given \in Answers \ {Empty}, ModelAnswers(given)
       PROVE  ThreadIsAwaited'
  BY <1>22 DEF ModelAnswers, control, progress, token, clock
<1>23. ASSUME NEW i \in Running, NEW state \in {"error", "returned"}, NEW size \in Nat,
              HandlerEnds(i, state, size)
       PROVE  ThreadIsAwaited'
  BY <1>23 DEF HandlerEnds, control, progress, token, clock
<1>24. CASE UNCHANGED vars
  BY <1>24 DEF vars, control, progress, token, clock, threads
<1>25. QED
  BY <1>1, <1>2, <1>3, <1>4, <1>5, <1>6, <1>7, <1>8, <1>9, <1>10, <1>11, <1>12,
     <1>13, <1>14, <1>15, <1>16, <1>17, <1>18, <1>19, <1>20, <1>21, <1>22, <1>23, <1>24,
     LimitsArePositive DEF Next, Loop

\* The token is looked at between any two threads, and set only for a reason.
LEMMA TokenKept ==
    ASSUME TypeOK, TokenIsNoticed, [Next]_vars
    PROVE  TokenIsNoticed'
<1> USE DEF TypeOK, TokenIsNoticed, BeforeStart, AwaitingTool
<1>1. ASSUME RoundsExhausted
      PROVE  TokenIsNoticed'
  BY <1>1 DEF RoundsExhausted, Return, Goto, progress, token, clock, threads
<1>2. ASSUME NoticeCancel
      PROVE  TokenIsNoticed'
  BY <1>2 DEF NoticeCancel, Noticing, Return, Goto, progress, token, clock, threads
<1>3. ASSUME NoticeTimeout
      PROVE  TokenIsNoticed'
  BY <1>3 DEF NoticeTimeout, Noticing, Return, Goto, progress, clock, threads
<1>4. ASSUME NoticeNothing
      PROVE  TokenIsNoticed'
  BY <1>4 DEF NoticeNothing, Noticing, Goto, progress, token, clock, threads
<1>5. ASSUME AskModel
      PROVE  TokenIsNoticed'
  BY <1>5 DEF AskModel, Started, Goto, progress, token, clock
<1>6. ASSUME PollAgain
      PROVE  TokenIsNoticed'
  BY <1>6 DEF PollAgain, Goto, progress, token, clock, threads
<1>7. ASSUME TakeAnswer
      PROVE  TokenIsNoticed'
  BY <1>7 DEF TakeAnswer, Return, Goto, token, clock, threads
<1>8. ASSUME NextRound
      PROVE  TokenIsNoticed'
  BY <1>8 DEF NextRound, Goto, token, clock, threads
<1>9. ASSUME NEW next \in Call, NextCall(next)
      PROVE  TokenIsNoticed'
  BY <1>9 DEF NextCall, Return, Goto, token, clock, threads
<1>10. ASSUME TakeResult
       PROVE  TokenIsNoticed'
  BY <1>10 DEF TakeResult, Return, Goto, token, clock, threads
<1>11. ASSUME Settle
       PROVE  TokenIsNoticed'
  BY <1>11 DEF Settle, Yield, Goto, progress, token, clock, threads
<1>12. ASSUME Admit
       PROVE  TokenIsNoticed'
  BY <1>12 DEF Admit, Goto, progress, token, clock, threads
<1>13. ASSUME StartHandler
       PROVE  TokenIsNoticed'
  BY <1>13 DEF StartHandler, Started, Goto, progress, token
<1>14. ASSUME ToolCancelled
       PROVE  TokenIsNoticed'
  BY <1>14 DEF ToolCancelled, Yield, Goto, progress, token, clock, threads
<1>15. ASSUME ToolTimeout
       PROVE  TokenIsNoticed'
  BY <1>15 DEF ToolTimeout, Yield, Goto, progress, clock, threads
<1>16. ASSUME ToolWaits
       PROVE  TokenIsNoticed'
  BY <1>16 DEF ToolWaits, Goto, progress, token, clock, threads
<1>17. ASSUME ToolPollAgain
       PROVE  TokenIsNoticed'
  BY <1>17 DEF ToolPollAgain, Goto, progress, token, clock, threads
<1>18. ASSUME ToolAnswers
       PROVE  TokenIsNoticed'
  BY <1>18 DEF ToolAnswers, Yield, Goto, progress, token, clock, threads
<1>19. ASSUME Cancel
       PROVE  TokenIsNoticed'
  BY <1>19 DEF Cancel, control, progress, clock, threads
<1>20. ASSUME TimePasses
       PROVE  TokenIsNoticed'
  BY <1>20 DEF TimePasses, control, progress, token, threads
<1>21. ASSUME DeadlinePasses
       PROVE  TokenIsNoticed'
  BY <1>21 DEF DeadlinePasses, control, progress, threads
<1>22. ASSUME NEW given \in Answers \ {Empty}, ModelAnswers(given)
       PROVE  TokenIsNoticed'
  BY <1>22 DEF ModelAnswers, control, progress, token, clock
<1>23. ASSUME NEW i \in Running, NEW state \in {"error", "returned"}, NEW size \in Nat,
              HandlerEnds(i, state, size)
       PROVE  TokenIsNoticed'
  BY <1>23 DEF HandlerEnds, control, progress, token, clock
<1>24. CASE UNCHANGED vars
  BY <1>24 DEF vars, control, progress, token, clock, threads
<1>25. QED
  BY <1>1, <1>2, <1>3, <1>4, <1>5, <1>6, <1>7, <1>8, <1>9, <1>10, <1>11, <1>12,
     <1>13, <1>14, <1>15, <1>16, <1>17, <1>18, <1>19, <1>20, <1>21, <1>22, <1>23, <1>24,
     LimitsArePositive DEF Next, Loop

LEMMA InitInvariant == Init => IInv
<1> SUFFICES ASSUME Init PROVE IInv
  OBVIOUS
<1> USE LimitsArePositive DEF Init
<1>1. TypeOK
  <2>1. result \in Result
    BY DEF NoResult, Result, Statuses
  <2>2. answer \in Answers
    BY DEF Empty, Answers
  <2>3. handlers \in Seq(Handler)
    OBVIOUS
  <2>4. QED
    BY <2>1, <2>2, <2>3 DEF TypeOK
<1>2. \A r : StartedIn(r) = {}
  BY DEF StartedIn
<1>3a. \A r : Cardinality(StartedIn(r)) = 0
  BY <1>2, FS_EmptySet
<1>3. RoundIsCounted
  BY <1>3a DEF RoundIsCounted, BeforeStart, AwaitingTool
<1>4. RoomIsKept /\ CallsAreCounted /\ ThreadIsAwaited /\ TokenIsNoticed
  BY DEF RoomIsKept, CallsAreCounted, ThreadIsAwaited, TokenIsNoticed, Running,
         BeforeStart, AwaitingTool
<1>5. QED
  BY <1>1, <1>3, <1>4 DEF IInv

LEMMA StepInvariant == IInv /\ [Next]_vars => IInv'
BY TypeKept, RoomKept, CallsKept, RoundKept, ThreadKept, TokenKept DEF IInv

LEMMA Invariance == Spec => []IInv
BY InitInvariant, StepInvariant, PTL DEF Spec

(***************************************************************************)
(* The properties                                                          *)
(***************************************************************************)

\* Every variable of a run keeps its type.
THEOREM TypeCorrect == Spec => []TypeOK
<1>1. IInv => TypeOK
  BY DEF IInv
<1>2. QED
  BY <1>1, Invariance, PTL

\* However the model spreads its calls, no limit on tools is exceeded
\* (LoopLimits, seen_call_ids).
THEOREM LimitsHold == Spec => []ToolsStartedWithinLimits
<1>1. IInv => ToolsStartedWithinLimits
  BY LimitsArePositive DEF IInv, CallsAreCounted, RoundIsCounted, ToolsStartedWithinLimits
<1>2. QED
  BY <1>1, Invariance, PTL

\* Results of any size stay within the byte budget (_bound_result).
THEOREM BudgetHolds == Spec => []ResultsWithinBudget
<1>1. IInv => ResultsWithinBudget
  BY DEF IInv, RoomIsKept, ResultsWithinBudget
<1>2. QED
  BY <1>1, Invariance, PTL

\* Nothing starts beside an abandoned thread (ToolExecutor.execute).
THEOREM OneThreadAtWork == Spec => []OneThingAtATime
<1>1. ASSUME IInv PROVE OneThingAtATime
  <2>1. /\ thinking \subseteq {round} /\ Running \subseteq {Len(handlers)}
        /\ thinking = {} \/ Running = {}
    BY <1>1 DEF IInv, ThreadIsAwaited
  <2>2. /\ Cardinality({}) = 0
        /\ Cardinality({round}) = 1 /\ Cardinality({Len(handlers)}) = 1
    BY FS_EmptySet, FS_Singleton
  <2>3. \/ thinking = {} /\ Running = {}
        \/ thinking = {} /\ Running = {Len(handlers)}
        \/ thinking = {round} /\ Running = {}
    BY <2>1
  <2>4. /\ Cardinality(thinking) \in {0, 1} /\ Cardinality(Running) \in {0, 1}
        /\ Cardinality(thinking) = 0 \/ Cardinality(Running) = 0
    BY <2>2, <2>3
  <2>5. QED
    BY <2>4 DEF OneThingAtATime
<1>2. QED
  BY <1>1, Invariance, PTL

\* After a stop at most one more thread starts (ToolOrchestrator.run).
THEOREM OneLateStart == Spec => []AtMostOneStartsLate
<1>1. IInv => AtMostOneStartsLate
  BY DEF IInv, TokenIsNoticed, AtMostOneStartsLate
<1>2. QED
  BY <1>1, Invariance, PTL

\* A run reports a stop only if there was one, and a timeout only if time was
\* up (CancellationToken).
THEOREM ReasonIsTrue == Spec => []StopReasonIsTrue
<1>1. IInv => StopReasonIsTrue
  BY DEF IInv, TokenIsNoticed, StopReasonIsTrue
<1>2. QED
  BY <1>1, Invariance, PTL

\* A run keeps its types, starts nothing beside an abandoned thread, and reports
\* a stop or a timeout only if there was one.
THEOREM RunStaysSound == Spec => []RunIsSound
BY TypeCorrect, OneThreadAtWork, ReasonIsTrue, PTL DEF RunIsSound

(***************************************************************************)
(* The head's state.  The panel shows what is so, a switch that is off     *)
(* stays respected, and what is spoken will end: every event of the        *)
(* reducer keeps the shape of the state (types of every field) and the     *)
(* facts its panel rests on.                                               *)
(***************************************************************************)

AudioStates == {"idle", "listening", "speaking", "capture_blocked", "standby_no_listen"}
VoiceStates == {"idle", "queued", "synthesizing", "speaking", "complete",
                "muted", "cancelled", "failed"}
CognitionStates == {"idle", "drafting", "awaiting_approval"}
AuthorityStates == {"local_governed", "source_grounded", "awaiting_approval", "blocked"}
AudioInputStates == {"disabled", "idle", "capturing", "transcribing", "blocked"}

Pending(s) ==
    Cardinality(PendingIn(s.approval_queue)) + Cardinality(PendingIn(s.tool_plan_queue))

(* The counters are those of the queues, and a state that awaits approval  *)
(* has something to be approved.                                           *)
Counted(s) ==
    /\ s.pending_approval_count = Pending(s)
    /\ s.tool_queue_count + s.memory_proposal_count = Pending(s)
    /\ "awaiting_approval" \in {s.authority_state, s.cognition_state} => Pending(s) > 0

Respects(s) ==
    /\ s.audio_state = "speaking" => ~s.output_muted /\ Awake(s)
    /\ s.audio_state = "listening" => s.mic_hardware_enabled

Good(s) == s \in HeadStates /\ Counted(s) /\ Respects(s)

(* What an event leaves of a good state: nothing begins to speak.          *)
Keeps(s, t) == Good(t) /\ (t.audio_state = "speaking" => s.audio_state = "speaking")

(* What the counters and the states of approval are computed from.         *)
SameQueues(s, t) ==
    /\ t.approval_queue = s.approval_queue
    /\ t.tool_plan_queue = s.tool_plan_queue
    /\ t.pending_approval_count = s.pending_approval_count
    /\ t.tool_queue_count = s.tool_queue_count
    /\ t.memory_proposal_count = s.memory_proposal_count
    /\ t.authority_state \in {s.authority_state, "blocked", "local_governed", "source_grounded"}
    /\ t.cognition_state \in {s.cognition_state, "idle", "drafting"}

(* What speech and listening are computed from.                            *)
SameAudio(s, t) ==
    /\ t.audio_state = s.audio_state /\ t.output_muted = s.output_muted
    /\ t.power_state = s.power_state /\ t.mic_hardware_enabled = s.mic_hardware_enabled

(* A field may be set to any of its values.                                *)
LEMMA Settable ==
    ASSUME NEW s \in HeadStates
    PROVE  /\ \A v \in {"awake", "standby"} : [s EXCEPT !.power_state = v] \in HeadStates
           /\ \A v \in AudioStates : [s EXCEPT !.audio_state = v] \in HeadStates
           /\ \A v \in VoiceStates : [s EXCEPT !.voice_output_state = v] \in HeadStates
           /\ \A v \in CognitionStates : [s EXCEPT !.cognition_state = v] \in HeadStates
           /\ \A v \in AuthorityStates : [s EXCEPT !.authority_state = v] \in HeadStates
           /\ \A v \in {"human", "agent"} : [s EXCEPT !.interaction_mode = v] \in HeadStates
           /\ \A v \in BOOLEAN : [s EXCEPT !.output_muted = v] \in HeadStates
           /\ \A v \in BOOLEAN : [s EXCEPT !.mic_hardware_enabled = v] \in HeadStates
           /\ \A v \in BOOLEAN : [s EXCEPT !.camera_hardware_enabled = v] \in HeadStates
           /\ \A v \in {"disabled", "idle", "capture_blocked"} :
                 [s EXCEPT !.vision_state = v] \in HeadStates
           /\ \A v \in BOOLEAN : [s EXCEPT !.source_grounding_enabled = v] \in HeadStates
           /\ \A v \in SourceStates : [s EXCEPT !.source_state = v] \in HeadStates
           /\ \A v \in Failures \cup {"none"} : [s EXCEPT !.active_failure = v] \in HeadStates
           /\ \A v \in [Proposals -> Reviews \cup {"absent"}] :
                 [s EXCEPT !.approval_queue = v] \in HeadStates
           /\ \A v \in [Plans -> Reviews \cup {"absent"}] :
                 [s EXCEPT !.tool_plan_queue = v] \in HeadStates
           /\ \A v \in 0 .. Cardinality(Proposals) + Cardinality(Plans) :
                 [s EXCEPT !.pending_approval_count = v] \in HeadStates
           /\ \A v \in 0 .. Cardinality(Proposals) : [s EXCEPT !.memory_proposal_count = v] \in HeadStates
           /\ \A v \in 0 .. Cardinality(Proposals) + Cardinality(Plans) :
                 [s EXCEPT !.tool_queue_count = v] \in HeadStates
           /\ \A v \in AudioInputStates : [s EXCEPT !.audio_input_state = v] \in HeadStates
           /\ \A v \in BOOLEAN : [s EXCEPT !.audio_input_enabled = v] \in HeadStates
           /\ \A v \in ListenModes : [s EXCEPT !.listen_mode = v] \in HeadStates
           /\ \A v \in BOOLEAN : [s EXCEPT !.listen_session_active = v] \in HeadStates
<1>1. \A v \in {"awake", "standby"} : [s EXCEPT !.power_state = v] \in HeadStates
  BY DEF HeadStates
<1>2. \A v \in AudioStates : [s EXCEPT !.audio_state = v] \in HeadStates
  BY DEF HeadStates, AudioStates
<1>3. \A v \in VoiceStates : [s EXCEPT !.voice_output_state = v] \in HeadStates
  BY DEF HeadStates, VoiceStates
<1>4. \A v \in CognitionStates : [s EXCEPT !.cognition_state = v] \in HeadStates
  BY DEF HeadStates, CognitionStates
<1>5. \A v \in AuthorityStates : [s EXCEPT !.authority_state = v] \in HeadStates
  BY DEF HeadStates, AuthorityStates
<1>6. \A v \in {"human", "agent"} : [s EXCEPT !.interaction_mode = v] \in HeadStates
  BY DEF HeadStates
<1>7. \A v \in BOOLEAN : [s EXCEPT !.output_muted = v] \in HeadStates
  BY DEF HeadStates
<1>8. \A v \in BOOLEAN : [s EXCEPT !.mic_hardware_enabled = v] \in HeadStates
  BY DEF HeadStates
<1>9. \A v \in BOOLEAN : [s EXCEPT !.camera_hardware_enabled = v] \in HeadStates
  BY DEF HeadStates
<1>10. \A v \in {"disabled", "idle", "capture_blocked"} : [s EXCEPT !.vision_state = v] \in HeadStates
  BY DEF HeadStates
<1>11. \A v \in BOOLEAN : [s EXCEPT !.source_grounding_enabled = v] \in HeadStates
  BY DEF HeadStates
<1>12. \A v \in SourceStates : [s EXCEPT !.source_state = v] \in HeadStates
  BY DEF HeadStates
<1>13. \A v \in Failures \cup {"none"} : [s EXCEPT !.active_failure = v] \in HeadStates
  BY DEF HeadStates
<1>14. \A v \in [Proposals -> Reviews \cup {"absent"}] : [s EXCEPT !.approval_queue = v] \in HeadStates
  BY DEF HeadStates
<1>15. \A v \in [Plans -> Reviews \cup {"absent"}] : [s EXCEPT !.tool_plan_queue = v] \in HeadStates
  BY DEF HeadStates
<1>16. \A v \in 0 .. Cardinality(Proposals) + Cardinality(Plans) : [s EXCEPT !.pending_approval_count = v] \in HeadStates
  BY DEF HeadStates
<1>17. \A v \in 0 .. Cardinality(Proposals) : [s EXCEPT !.memory_proposal_count = v] \in HeadStates
  BY DEF HeadStates
<1>18. \A v \in 0 .. Cardinality(Proposals) + Cardinality(Plans) : [s EXCEPT !.tool_queue_count = v] \in HeadStates
  BY DEF HeadStates
<1>19. \A v \in AudioInputStates : [s EXCEPT !.audio_input_state = v] \in HeadStates
  BY DEF HeadStates, AudioInputStates
<1>20. \A v \in BOOLEAN : [s EXCEPT !.audio_input_enabled = v] \in HeadStates
  BY DEF HeadStates
<1>21. \A v \in ListenModes : [s EXCEPT !.listen_mode = v] \in HeadStates
  BY DEF HeadStates
<1>22. \A v \in BOOLEAN : [s EXCEPT !.listen_session_active = v] \in HeadStates
  BY DEF HeadStates
<1> QED  BY <1>1, <1>2, <1>3, <1>4, <1>5, <1>6, <1>7, <1>8, <1>9, <1>10, <1>11, <1>12, <1>13, <1>14, <1>15, <1>16, <1>17, <1>18, <1>19, <1>20, <1>21, <1>22

LEMMA SameQueuesKeep ==
    ASSUME NEW s, NEW t, Good(s), SameQueues(s, t)
    PROVE  Counted(t)
BY DEF Good, Counted, SameQueues, Pending

LEMMA SameAudioKeeps ==
    ASSUME NEW s, NEW t, Good(s), SameAudio(s, t)
    PROVE  Respects(t) /\ (t.audio_state = "speaking" => s.audio_state = "speaking")
BY DEF Good, Respects, SameAudio, Awake

LEMMA AsideKeeps ==
    ASSUME NEW s, Good(s), NEW t \in HeadStates, SameQueues(s, t), SameAudio(s, t)
    PROVE  Keeps(s, t)
BY SameQueuesKeep, SameAudioKeeps DEF Keeps, Good

LEMMA PowerKeeps ==
    ASSUME NEW s, Good(s), NEW power \in {"awake", "standby"}
    PROVE  Keeps(s, ReducePower(s, power))
<1> DEFINE t == ReducePower(s, power)
           a == IF power = "standby" THEN "standby_no_listen"
                ELSE IF s.mic_hardware_enabled THEN "idle" ELSE s.audio_state
<1>1. t = [[s EXCEPT !.power_state = power] EXCEPT !.audio_state = a]
  BY DEF ReducePower
<1>2. a \in AudioStates /\ s \in HeadStates
  BY DEF Good, HeadStates, AudioStates
<1>3. t \in HeadStates
  <2> HIDE DEF a, t
  <2> QED  BY <1>1, <1>2, Settable
<1>4. SameQueues(s, t)
  BY <1>2 DEF ReducePower, SameQueues, HeadStates
<1>5. Respects(t) /\ (t.audio_state = "speaking" => s.audio_state = "speaking")
  BY DEF Good, Respects, ReducePower, HeadStates, Awake
<1> QED  BY <1>3, <1>4, <1>5, SameQueuesKeep DEF Keeps, Good

LEMMA LoudKeeps ==
    ASSUME NEW s, Good(s), NEW muted \in BOOLEAN
    PROVE  Keeps(s, ReduceLoud(s, muted))
<1> DEFINE t == ReduceLoud(s, muted)
           a == IF muted THEN Quiet(s.audio_state) ELSE s.audio_state
<1>1. t = [[s EXCEPT !.output_muted = muted] EXCEPT !.audio_state = a]
  BY DEF ReduceLoud
<1>2. a \in AudioStates /\ s \in HeadStates
  BY DEF Good, HeadStates, AudioStates, Quiet
<1>3. t \in HeadStates
  <2> HIDE DEF a, t
  <2> QED  BY <1>1, <1>2, Settable
<1>4. SameQueues(s, t)
  BY <1>2 DEF ReduceLoud, SameQueues, HeadStates
<1>5. Respects(t) /\ (t.audio_state = "speaking" => s.audio_state = "speaking")
  BY DEF Good, Respects, ReduceLoud, HeadStates, Awake, Quiet
<1> QED  BY <1>3, <1>4, <1>5, SameQueuesKeep DEF Keeps, Good

LEMMA AmFmKeeps ==
    ASSUME NEW s, Good(s), NEW mode \in {"human", "agent"}
    PROVE  Keeps(s, ReduceAmFm(s, mode))
<1> DEFINE t == ReduceAmFm(s, mode)
<1>1. s \in HeadStates
  BY DEF Good
<1>2. t \in HeadStates
  BY <1>1, Settable DEF ReduceAmFm
<1>3. SameQueues(s, t) /\ SameAudio(s, t)
  BY <1>1 DEF ReduceAmFm, SameQueues, SameAudio, HeadStates
<1> QED  BY <1>2, <1>3, AsideKeeps

LEMMA AfcKeeps ==
    ASSUME NEW s, Good(s), NEW on \in BOOLEAN
    PROVE  Keeps(s, ReduceAfc(s, on))
<1> DEFINE t == ReduceAfc(s, on)
<1>1. s \in HeadStates
  BY DEF Good
<1>2. t \in HeadStates
  <2> DEFINE a == IF on THEN "source_grounded" ELSE "local_governed"
  <2>1. t = [[s EXCEPT !.source_grounding_enabled = on] EXCEPT !.authority_state = a]
    BY DEF ReduceAfc
  <2>2. a \in AuthorityStates
    BY DEF AuthorityStates
  <2> HIDE DEF a, t
  <2> QED  BY <1>1, <2>1, <2>2, Settable
<1>3. SameQueues(s, t) /\ SameAudio(s, t)
  BY <1>1 DEF ReduceAfc, SameQueues, SameAudio, HeadStates
<1> QED  BY <1>2, <1>3, AsideKeeps

LEMMA AudioInputKeeps ==
    ASSUME NEW s, Good(s), NEW on \in BOOLEAN
    PROVE  Keeps(s, ReduceAudioInput(s, on))
<1> DEFINE t == ReduceAudioInput(s, on)
<1>1. s \in HeadStates
  BY DEF Good
<1>2. t \in HeadStates
  <2> DEFINE a == IF ~on THEN "disabled"
                  ELSE IF s.mic_hardware_enabled THEN "idle" ELSE s.audio_input_state
  <2>1. t = [[s EXCEPT !.audio_input_enabled = on] EXCEPT !.audio_input_state = a]
    BY DEF ReduceAudioInput
  <2>2. a \in AudioInputStates
    BY <1>1 DEF AudioInputStates, HeadStates
  <2> HIDE DEF a, t
  <2> QED  BY <1>1, <2>1, <2>2, Settable
<1>3. SameQueues(s, t) /\ SameAudio(s, t)
  BY <1>1 DEF ReduceAudioInput, SameQueues, SameAudio, HeadStates
<1> QED  BY <1>2, <1>3, AsideKeeps

LEMMA ListenModeKeeps ==
    ASSUME NEW s, Good(s), NEW mode \in ListenModes
    PROVE  Keeps(s, ReduceListenMode(s, mode))
<1> DEFINE t == ReduceListenMode(s, mode)
<1>1. s \in HeadStates
  BY DEF Good
<1>2. t \in HeadStates
  BY <1>1, Settable DEF ReduceListenMode
<1>3. SameQueues(s, t) /\ SameAudio(s, t)
  BY <1>1 DEF ReduceListenMode, SameQueues, SameAudio, HeadStates
<1> QED  BY <1>2, <1>3, AsideKeeps

LEMMA CameraKeeps ==
    ASSUME NEW s, Good(s), NEW on \in BOOLEAN
    PROVE  Keeps(s, ReduceCamera(s, on))
<1> DEFINE t == ReduceCamera(s, on)
<1>1. s \in HeadStates
  BY DEF Good
<1>2. t \in HeadStates
  <2> DEFINE v == IF on THEN "idle" ELSE "capture_blocked"
  <2>1. t = [[s EXCEPT !.camera_hardware_enabled = on] EXCEPT !.vision_state = v]
    BY DEF ReduceCamera
  <2>2. v \in {"disabled", "idle", "capture_blocked"}
    OBVIOUS
  <2> HIDE DEF v, t
  <2> QED  BY <1>1, <2>1, <2>2, Settable
<1>3. SameQueues(s, t) /\ SameAudio(s, t)
  BY <1>1 DEF ReduceCamera, SameQueues, SameAudio, HeadStates
<1> QED  BY <1>2, <1>3, AsideKeeps

LEMMA HeartbeatKeeps ==
    ASSUME NEW s, Good(s)
    PROVE  Keeps(s, ReduceHeartbeat(s))
<1> DEFINE t == ReduceHeartbeat(s)
<1>1. s \in HeadStates
  BY DEF Good
<1>2. t \in HeadStates
  <2> DEFINE f == IF s.active_failure = "bridge_disconnected" THEN "none" ELSE s.active_failure
  <2>1. t = [s EXCEPT !.active_failure = f]
    BY DEF ReduceHeartbeat
  <2>2. f \in Failures \cup {"none"}
    BY <1>1 DEF HeadStates
  <2> HIDE DEF f, t
  <2> QED  BY <1>1, <2>1, <2>2, Settable
<1>3. SameQueues(s, t) /\ SameAudio(s, t)
  BY <1>1 DEF ReduceHeartbeat, SameQueues, SameAudio, HeadStates
<1> QED  BY <1>2, <1>3, AsideKeeps

LEMMA ClearFailuresKeeps ==
    ASSUME NEW s, Good(s)
    PROVE  Keeps(s, clear_failures(s))
<1> DEFINE t == clear_failures(s)
<1>1. s \in HeadStates
  BY DEF Good
<1>2. t \in HeadStates
  <2> DEFINE a == IF s.authority_state = "blocked" THEN "local_governed" ELSE s.authority_state
  <2>1. t = [[s EXCEPT !.active_failure = "none"] EXCEPT !.authority_state = a]
    BY DEF clear_failures
  <2>2. a \in AuthorityStates
    BY <1>1 DEF HeadStates, AuthorityStates
  <2> HIDE DEF a, t
  <2> QED  BY <1>1, <2>1, <2>2, Settable
<1>3. SameQueues(s, t) /\ SameAudio(s, t)
  BY <1>1 DEF clear_failures, SameQueues, SameAudio, HeadStates
<1> QED  BY <1>2, <1>3, AsideKeeps

LEMMA ExecutionRequestKeeps ==
    ASSUME NEW s, Good(s), NEW p, NEW runs
    PROVE  Keeps(s, ReduceExecutionRequest(s, p, runs))
<1> DEFINE t == ReduceExecutionRequest(s, p, runs)
<1>1. s \in HeadStates
  BY DEF Good
<1>2. t \in HeadStates
  <2>1. "blocked" \in AuthorityStates
    BY DEF AuthorityStates
  <2> QED  BY <1>1, <2>1, Settable DEF ReduceExecutionRequest
<1>3. SameQueues(s, t) /\ SameAudio(s, t)
  BY <1>1 DEF ReduceExecutionRequest, SameQueues, SameAudio, HeadStates
<1> QED  BY <1>2, <1>3, AsideKeeps

LEMMA AudioKeeps ==
    ASSUME NEW s, Good(s), NEW status
    PROVE  Keeps(s, ReduceAudio(s, status))
<1> DEFINE t == ReduceAudio(s, status)
<1>1. s \in HeadStates
  BY DEF Good
<1>2. t \in HeadStates
  <2>1. CASE status \in {"capturing", "transcribing", "blocked"}
    <3>1. t = [s EXCEPT !.audio_input_state = status] /\ status \in AudioInputStates
      BY <2>1 DEF ReduceAudio, AudioInputStates
    <3> HIDE DEF t
    <3> QED  BY <1>1, <3>1, Settable
  <2>2. CASE status = "complete"
    <3>1. t = [s EXCEPT !.audio_input_state = "idle"] /\ "idle" \in AudioInputStates
      BY <2>2 DEF ReduceAudio, AudioInputStates
    <3> HIDE DEF t
    <3> QED  BY <1>1, <3>1, Settable
  <2>3. CASE status = "ptt_pressed"
    <3>1. t = [[s EXCEPT !.listen_session_active = TRUE] EXCEPT !.audio_input_state = "capturing"]
          /\ "capturing" \in AudioInputStates
      BY <2>3 DEF ReduceAudio, AudioInputStates
    <3> HIDE DEF t
    <3> QED  BY <1>1, <3>1, Settable
  <2>4. CASE status = "ptt_released"
    <3>1. t = [s EXCEPT !.listen_session_active = FALSE]
      BY <2>4 DEF ReduceAudio
    <3> HIDE DEF t
    <3> QED  BY <1>1, <3>1, Settable
  <2>5. CASE status \notin {"capturing", "transcribing", "blocked", "complete",
                          "ptt_pressed", "ptt_released"}
    BY <1>1, <2>5 DEF ReduceAudio
  <2> QED  BY <2>1, <2>2, <2>3, <2>4, <2>5
<1>3. SameQueues(s, t) /\ SameAudio(s, t)
  BY <1>1 DEF ReduceAudio, SameQueues, SameAudio, HeadStates
<1> QED  BY <1>2, <1>3, AsideKeeps

LEMMA MicKeeps ==
    ASSUME NEW s, Good(s), NEW on \in BOOLEAN
    PROVE  Keeps(s, ReduceMic(s, on))
<1> DEFINE t == ReduceMic(s, on)
           a == IF ~on THEN "capture_blocked" ELSE IF Awake(s) THEN "idle" ELSE s.audio_state
<1>1. t = [[s EXCEPT !.mic_hardware_enabled = on] EXCEPT !.audio_state = a]
  BY DEF ReduceMic
<1>2. a \in AudioStates /\ s \in HeadStates
  BY DEF Good, HeadStates, AudioStates
<1>3. t \in HeadStates
  <2> HIDE DEF a, t
  <2> QED  BY <1>1, <1>2, Settable
<1>4. SameQueues(s, t)
  BY <1>2 DEF ReduceMic, SameQueues, HeadStates
<1>5. Respects(t) /\ (t.audio_state = "speaking" => s.audio_state = "speaking")
  BY DEF Good, Respects, ReduceMic, HeadStates, Awake
<1> QED  BY <1>3, <1>4, <1>5, SameQueuesKeep DEF Keeps, Good

LEMMA SetFailureKeeps ==
    ASSUME NEW s, Good(s), NEW failure \in Failures
    PROVE  /\ Keeps(s, SetFailure(s, failure))
           /\ failure = "tts_failure" => SetFailure(s, failure).audio_state # "speaking"
<1> DEFINE t == SetFailure(s, failure)
           v == IF failure = "tts_failure" THEN "failed" ELSE s.voice_output_state
           a == IF failure = "tts_failure" THEN Quiet(s.audio_state) ELSE s.audio_state
           b == IF failure = "governance_block" THEN "blocked" ELSE s.authority_state
<1>1. t = [[[[s EXCEPT !.active_failure = failure] EXCEPT !.voice_output_state = v]
               EXCEPT !.audio_state = a] EXCEPT !.authority_state = b]
  BY DEF SetFailure
<1>2. a \in AudioStates /\ b \in AuthorityStates /\ v \in VoiceStates /\ s \in HeadStates
  BY DEF Good, HeadStates, AudioStates, AuthorityStates, VoiceStates, Quiet
<1>3. t \in HeadStates
  <2> HIDE DEF a, b, v, t
  <2> QED  BY <1>1, <1>2, Settable
<1>4. SameQueues(s, t)
  BY <1>2 DEF SetFailure, SameQueues, HeadStates
<1>5. /\ t.audio_state = a /\ t.output_muted = s.output_muted
      /\ t.power_state = s.power_state /\ t.mic_hardware_enabled = s.mic_hardware_enabled
  BY <1>2 DEF SetFailure, HeadStates
<1>6. Respects(t) /\ (t.audio_state = "speaking" => s.audio_state = "speaking")
  BY <1>5 DEF Good, Respects, Awake, Quiet
<1>7. failure = "tts_failure" => t.audio_state # "speaking"
  BY <1>5 DEF Quiet
<1> QED  BY <1>3, <1>4, <1>6, <1>7, SameQueuesKeep DEF Keeps, Good

(* An event that sets what the audio does and nothing else that is shown.  *)
LEMMA SetAudioKeeps ==
    ASSUME NEW s, Good(s), NEW a \in AudioStates,
           a = "speaking" => s.audio_state = "speaking",
           a = "listening" => s.mic_hardware_enabled
    PROVE  Keeps(s, [s EXCEPT !.audio_state = a])
<1> DEFINE t == [s EXCEPT !.audio_state = a]
<1>1. s \in HeadStates
  BY DEF Good
<1>2. t \in HeadStates
  BY <1>1, Settable
<1>3. SameQueues(s, t)
  BY <1>1 DEF SameQueues, HeadStates
<1>4. Respects(t) /\ (t.audio_state = "speaking" => s.audio_state = "speaking")
  BY <1>1 DEF Good, Respects, HeadStates, Awake
<1> QED  BY <1>2, <1>3, <1>4, SameQueuesKeep DEF Keeps, Good

LEMMA SetVoiceKeeps ==
    ASSUME NEW s, Good(s), NEW v \in VoiceStates
    PROVE  Keeps(s, [s EXCEPT !.voice_output_state = v])
<1> DEFINE t == [s EXCEPT !.voice_output_state = v]
<1>1. s \in HeadStates
  BY DEF Good
<1>2. t \in HeadStates
  BY <1>1, Settable
<1>3. SameQueues(s, t) /\ SameAudio(s, t)
  BY <1>1 DEF SameQueues, SameAudio, HeadStates
<1> QED  BY <1>2, <1>3, AsideKeeps

LEMMA NothingKeeps ==
    ASSUME NEW s, Good(s)
    PROVE  Keeps(s, s)
BY DEF Keeps

LEMMA CaptureKeeps ==
    ASSUME NEW s, Good(s), NEW device \in {"mic", "camera"}
    PROVE  Keeps(s, ReduceCapture(s, device))
<1> DEFINE t == ReduceCapture(s, device)
<1>1. CASE device = "mic" /\ ~s.mic_hardware_enabled
  <2>1. t = [s EXCEPT !.audio_state = "capture_blocked"] /\ "capture_blocked" \in AudioStates
    BY <1>1 DEF ReduceCapture, AudioStates
  <2> QED  BY <2>1, SetAudioKeeps
<1>2. CASE ~(device = "mic" /\ ~s.mic_hardware_enabled)
  <2>1. CASE device = "camera" /\ ~s.camera_hardware_enabled
    <3>1. s \in HeadStates
      BY DEF Good
    <3>2. t = [s EXCEPT !.vision_state = "capture_blocked"]
      BY <1>2, <2>1 DEF ReduceCapture
    <3>3. t \in HeadStates
      <4> HIDE DEF t
      <4> QED  BY <3>1, <3>2, Settable
    <3>4. SameQueues(s, t) /\ SameAudio(s, t)
      BY <3>1, <3>2 DEF SameQueues, SameAudio, HeadStates
    <3> QED  BY <3>3, <3>4, AsideKeeps
  <2>2. CASE ~(device = "camera" /\ ~s.camera_hardware_enabled)
    BY <1>2, <2>2, NothingKeeps DEF ReduceCapture
  <2> QED  BY <2>1, <2>2
<1> QED  BY <1>1, <1>2

LEMMA SttKeeps ==
    ASSUME NEW s, Good(s), NEW status
    PROVE  Keeps(s, ReduceStt(s, status))
<1> DEFINE t == ReduceStt(s, status)
<1>0. s.audio_state \in AudioStates
  BY DEF Good, HeadStates, AudioStates
<1>1. CASE status = "transcript"
  <2> DEFINE a == IF s.mic_hardware_enabled THEN "listening" ELSE s.audio_state
  <2>1. t = [s EXCEPT !.audio_state = a]
    BY <1>1 DEF ReduceStt
  <2>2. /\ a \in AudioStates
        /\ a = "speaking" => s.audio_state = "speaking"
        /\ a = "listening" => s.mic_hardware_enabled
    BY <1>0 DEF AudioStates, Good, Respects
  <2> HIDE DEF a
  <2> QED  BY <2>1, <2>2, SetAudioKeeps
<1>2. CASE status = "complete"
  <2> DEFINE a == IF s.audio_state = "listening" THEN "idle" ELSE s.audio_state
  <2>1. t = [s EXCEPT !.audio_state = a]
    BY <1>2 DEF ReduceStt
  <2>2. /\ a \in AudioStates
        /\ a = "speaking" => s.audio_state = "speaking"
        /\ a = "listening" => s.mic_hardware_enabled
    BY <1>0 DEF AudioStates
  <2> HIDE DEF a
  <2> QED  BY <2>1, <2>2, SetAudioKeeps
<1>3. CASE status = "blocked"
  <2>1. t = [s EXCEPT !.audio_state = "capture_blocked"] /\ "capture_blocked" \in AudioStates
    BY <1>3 DEF ReduceStt, AudioStates
  <2> QED  BY <2>1, SetAudioKeeps
<1>4. CASE status \notin {"transcript", "complete", "blocked"}
  BY <1>4, NothingKeeps DEF ReduceStt
<1> QED  BY <1>1, <1>2, <1>3, <1>4

SpeechStatuses == {"queued", "synthesizing", "speaking", "complete", "muted", "cancelled", "failure"}

(* Speech begins only in a head that is awake and not muted, and nothing   *)
(* but the end of speech or its failure ends it.                           *)
LEMMA TtsKeeps ==
    ASSUME NEW s, Good(s), NEW status \in SpeechStatuses
    PROVE  /\ Good(ReduceTts(s, status))
           /\ status # "speaking" => Keeps(s, ReduceTts(s, status))
           /\ status \in {"complete", "muted", "cancelled", "failure"} =>
                 ReduceTts(s, status).audio_state # "speaking"
<1> DEFINE t == ReduceTts(s, status)
<1>0. s \in HeadStates /\ s.audio_state \in AudioStates
  BY DEF Good, HeadStates, AudioStates
<1>1. CASE status \in {"queued", "synthesizing"}
  <2>1. t = [s EXCEPT !.voice_output_state = status] /\ status \in VoiceStates
    BY <1>1 DEF ReduceTts, VoiceStates
  <2>2. Keeps(s, t)
    BY <2>1, SetVoiceKeeps
  <2> QED  BY <1>1, <2>2 DEF Keeps
<1>2. CASE status = "speaking"
  <2>1. CASE s.output_muted
    <3> DEFINE u == [s EXCEPT !.voice_output_state = "muted"]
               a == Quiet(s.audio_state)
    <3>1. t = [u EXCEPT !.audio_state = a]
      BY <1>2, <2>1 DEF ReduceTts
    <3>2. /\ a \in AudioStates
          /\ a = "speaking" => u.audio_state = "speaking"
          /\ a = "listening" => u.mic_hardware_enabled
      BY <1>0 DEF Quiet, AudioStates, Good, Respects, HeadStates
    <3>3. Good(u)
      BY SetVoiceKeeps DEF Keeps, VoiceStates
    <3> HIDE DEF u, a
    <3>4. Good(t)
      BY <3>1, <3>2, <3>3, SetAudioKeeps DEF Keeps
    <3> QED  BY <1>2, <3>4
  <2>2. CASE ~s.output_muted /\ ~Awake(s)
    <3>1. t = [s EXCEPT !.voice_output_state = "muted"] /\ "muted" \in VoiceStates
      BY <1>2, <2>2 DEF ReduceTts, VoiceStates
    <3>2. Good(t)
      BY <3>1, SetVoiceKeeps DEF Keeps
    <3> QED  BY <1>2, <3>2
  <2>3. CASE ~s.output_muted /\ Awake(s)
    <3> DEFINE u == [s EXCEPT !.voice_output_state = "speaking"]
    <3>1. t = [u EXCEPT !.audio_state = "speaking"]
      BY <1>2, <2>3 DEF ReduceTts
    <3>2. u \in HeadStates /\ "speaking" \in AudioStates
      BY <1>0, Settable DEF VoiceStates, AudioStates
    <3>3. t \in HeadStates
      <4> HIDE DEF t, u
      <4> QED  BY <3>1, <3>2, Settable
    <3>4. SameQueues(s, t)
      BY <1>0, <3>1 DEF SameQueues, HeadStates
    <3>5. Respects(t)
      BY <1>0, <2>3, <3>1 DEF Respects, HeadStates, Awake
    <3>6. Good(t)
      BY <3>3, <3>4, <3>5, SameQueuesKeep DEF Good
    <3> QED  BY <1>2, <3>6
  <2> QED  BY <2>1, <2>2, <2>3
<1>3. CASE status = "failure"
  <2>1. t = SetFailure(s, "tts_failure") /\ "tts_failure" \in Failures
    BY <1>3 DEF ReduceTts, Failures
  <2> QED  BY <1>3, <2>1, SetFailureKeeps DEF Keeps
<1>4. CASE status \in {"complete", "muted", "cancelled"}
  <2> DEFINE u == [s EXCEPT !.voice_output_state = status]
             a == Quiet(s.audio_state)
  <2>1. t = [u EXCEPT !.audio_state = a]
    BY <1>4 DEF ReduceTts
  <2>2. /\ a \in AudioStates /\ a # "speaking"
        /\ a = "listening" => u.mic_hardware_enabled
    BY <1>0 DEF Quiet, AudioStates, Good, Respects, HeadStates
  <2>3. Good(u) /\ status \in VoiceStates
    BY <1>4, SetVoiceKeeps DEF Keeps, VoiceStates
  <2>4. u \in HeadStates
    BY <2>3 DEF Good
  <2> HIDE DEF u, a
  <2>5. Keeps(u, t)
    BY <2>1, <2>2, <2>3, SetAudioKeeps
  <2>6. t.audio_state = a
    BY <2>1, <2>4 DEF HeadStates
  <2> QED  BY <1>4, <2>2, <2>5, <2>6 DEF Keeps
<1> QED  BY <1>1, <1>2, <1>3, <1>4 DEF SpeechStatuses

LEMMA SetSourceKeeps ==
    ASSUME NEW s, Good(s), NEW source \in SourceStates
    PROVE  Keeps(s, [s EXCEPT !.source_state = source])
<1> DEFINE t == [s EXCEPT !.source_state = source]
<1>1. s \in HeadStates
  BY DEF Good
<1>2. t \in HeadStates
  BY <1>1, Settable
<1>3. SameQueues(s, t) /\ SameAudio(s, t)
  BY <1>1 DEF SameQueues, SameAudio, HeadStates
<1> QED  BY <1>2, <1>3, AsideKeeps

LEMMA SetIdleKeeps ==
    ASSUME NEW s, Good(s), NEW v \in {"idle", "drafting"}
    PROVE  Keeps(s, [s EXCEPT !.cognition_state = v])
<1> DEFINE t == [s EXCEPT !.cognition_state = v]
<1>1. s \in HeadStates
  BY DEF Good
<1>2. t \in HeadStates
  BY <1>1, Settable DEF CognitionStates
<1>3. SameQueues(s, t) /\ SameAudio(s, t)
  BY <1>1 DEF SameQueues, SameAudio, HeadStates
<1> QED  BY <1>2, <1>3, AsideKeeps

LEMMA KeepsTwice ==
    ASSUME NEW s, NEW u, NEW t, Keeps(s, u), Keeps(u, t)
    PROVE  Keeps(s, t)
BY DEF Keeps

LEMMA MemoryProviderKeeps ==
    ASSUME NEW s, Good(s), NEW status
    PROVE  Keeps(s, ReduceMemoryProvider(s, status))
<1> DEFINE t == ReduceMemoryProvider(s, status)
<1>1. CASE status = "retrieved"
  <2> DEFINE u == [s EXCEPT !.cognition_state = "idle"]
  <2>1. t = [u EXCEPT !.source_state = "sourced"] /\ "sourced" \in SourceStates
    BY <1>1 DEF ReduceMemoryProvider, SourceStates
  <2>2. Keeps(s, u)
    BY SetIdleKeeps
  <2> HIDE DEF u
  <2>3. Keeps(u, t)
    BY <2>1, <2>2, SetSourceKeeps DEF Keeps
  <2> QED  BY <2>2, <2>3, KeepsTwice
<1>2. CASE status # "retrieved"
  <2> DEFINE u == SetFailure(s, "vault_unavailable")
  <2>1. t = [u EXCEPT !.source_state = "unsourced"] /\ "unsourced" \in SourceStates
    BY <1>2 DEF ReduceMemoryProvider, SourceStates
  <2>2. Keeps(s, u)
    BY SetFailureKeeps DEF Failures
  <2> HIDE DEF u
  <2>3. Keeps(u, t)
    BY <2>1, <2>2, SetSourceKeeps DEF Keeps
  <2> QED  BY <2>2, <2>3, KeepsTwice
<1> QED  BY <1>1, <1>2

LEMMA ChatKeeps ==
    ASSUME NEW s, Good(s), NEW status, NEW source \in SourceStates
    PROVE  Keeps(s, ReduceChat(s, status, source))
<1> DEFINE t == ReduceChat(s, status, source)
<1>1. CASE status = "failure"
  BY <1>1, SetFailureKeeps DEF ReduceChat, Failures
<1>2. CASE status # "failure"
  <2> DEFINE u == [s EXCEPT !.cognition_state = "idle"]
             v == IF s.source_grounding_enabled THEN source ELSE s.source_state
  <2>1. t = [u EXCEPT !.source_state = v]
    BY <1>2 DEF ReduceChat
  <2>2. Keeps(s, u) /\ v \in SourceStates
    BY SetIdleKeeps DEF Good, HeadStates
  <2> HIDE DEF u, v
  <2>3. Keeps(u, t)
    BY <2>1, <2>2, SetSourceKeeps DEF Keeps
  <2> QED  BY <2>2, <2>3, KeepsTwice
<1> QED  BY <1>1, <1>2

-----------------------------------------------------------------------------
(* The queues and their counters.                                          *)

(* Recounting counts what is pending, and changes nothing else.            *)
LEMMA RecountedCounts ==
    ASSUME NEW s \in HeadStates
    PROVE  /\ Recounted(s) \in HeadStates
           /\ Recounted(s).approval_queue = s.approval_queue
           /\ Recounted(s).tool_plan_queue = s.tool_plan_queue
           /\ Recounted(s).pending_approval_count = Pending(s)
           /\ Recounted(s).tool_queue_count + Recounted(s).memory_proposal_count = Pending(s)
           /\ Recounted(s).authority_state = s.authority_state
           /\ Recounted(s).cognition_state = s.cognition_state
           /\ SameAudio(s, Recounted(s))
<1> DEFINE P == PendingIn(s.approval_queue)
           Q == PendingIn(s.tool_plan_queue)
           a == Cardinality(P) + Cardinality(Q)
           m == Cardinality(P \cap MemoryProposals)
           n == Cardinality(P \ MemoryProposals) + Cardinality(Q)
<1>1. P \subseteq Proposals /\ Q \subseteq Plans
  BY DEF PendingIn, HeadStates
<1>2. IsFiniteSet(Proposals) /\ IsFiniteSet(Plans)
  BY QueuesAssumption
<1>3. /\ IsFiniteSet(P) /\ IsFiniteSet(Q)
      /\ Cardinality(P) \in 0 .. Cardinality(Proposals)
      /\ Cardinality(Q) \in 0 .. Cardinality(Plans)
      /\ Cardinality(Proposals) \in Nat /\ Cardinality(Plans) \in Nat
  <2> HIDE DEF P, Q
  <2>1. IsFiniteSet(P) /\ IsFiniteSet(Q)
        /\ Cardinality(P) <= Cardinality(Proposals) /\ Cardinality(Q) <= Cardinality(Plans)
    BY <1>1, <1>2, FS_Subset
  <2>2. /\ Cardinality(P) \in Nat /\ Cardinality(Q) \in Nat
        /\ Cardinality(Proposals) \in Nat /\ Cardinality(Plans) \in Nat
    BY <1>2, <2>1, FS_CardinalityType
  <2> QED  BY <2>1, <2>2
<1>4. /\ m \in 0 .. Cardinality(Proposals)
      /\ n \in 0 .. Cardinality(Proposals) + Cardinality(Plans)
      /\ n + m = a /\ a \in 0 .. Cardinality(Proposals) + Cardinality(Plans)
  <2> DEFINE M == P \cap MemoryProposals
             T == P \ MemoryProposals
  <2>1. IsFiniteSet(M) /\ IsFiniteSet(T) /\ Cardinality(M) \in Nat /\ Cardinality(T) \in Nat
    BY <1>3, FS_Intersection, FS_Difference, FS_CardinalityType
  <2>2. Cardinality(T) = Cardinality(P) - Cardinality(M)
    BY <1>3, FS_Difference
  <2> HIDE DEF P, Q, M, T
  <2>3. m = Cardinality(M) /\ n = Cardinality(T) + Cardinality(Q)
    BY DEF M, T
  <2> QED  BY <1>3, <2>1, <2>2, <2>3
<1>5. Recounted(s) = [[[s EXCEPT !.pending_approval_count = a] EXCEPT !.memory_proposal_count = m]
                        EXCEPT !.tool_queue_count = n]
  BY DEF Recounted
<1>6. Pending(s) = a
  BY DEF Pending
<1> HIDE DEF a, m, n
<1>7. Recounted(s) \in HeadStates
  <2>1. [s EXCEPT !.pending_approval_count = a] \in HeadStates
    BY <1>4, Settable
  <2> DEFINE u == [s EXCEPT !.pending_approval_count = a]
  <2>2. [u EXCEPT !.memory_proposal_count = m] \in HeadStates
    <3> HIDE DEF u
    <3> QED  BY <1>4, <2>1, Settable DEF u
  <2> DEFINE w == [u EXCEPT !.memory_proposal_count = m]
  <2>3. [w EXCEPT !.tool_queue_count = n] \in HeadStates
    <3> HIDE DEF w
    <3> QED  BY <1>4, <2>2, Settable DEF w
  <2> QED  BY <1>5, <2>3
<1>8. /\ Recounted(s).approval_queue = s.approval_queue
      /\ Recounted(s).tool_plan_queue = s.tool_plan_queue
      /\ Recounted(s).authority_state = s.authority_state
      /\ Recounted(s).cognition_state = s.cognition_state
      /\ SameAudio(s, Recounted(s))
  BY <1>5 DEF HeadStates, SameAudio
<1>9. /\ Recounted(s).pending_approval_count = a /\ Recounted(s).memory_proposal_count = m
      /\ Recounted(s).tool_queue_count = n
  BY <1>5 DEF HeadStates
<1> QED  BY <1>4, <1>6, <1>7, <1>8, <1>9

(* One proposal or plan that is pending is something to be approved.       *)
LEMMA PendingSome ==
    ASSUME NEW s \in HeadStates,
           PendingIn(s.approval_queue) # {} \/ PendingIn(s.tool_plan_queue) # {}
    PROVE  Pending(s) > 0
<1> DEFINE P == PendingIn(s.approval_queue)
           Q == PendingIn(s.tool_plan_queue)
<1>1. P \subseteq Proposals /\ Q \subseteq Plans
  BY DEF PendingIn, HeadStates
<1>2. Pending(s) = Cardinality(P) + Cardinality(Q) /\ (P # {} \/ Q # {})
  BY DEF Pending
<1> HIDE DEF P, Q
<1>3. IsFiniteSet(P) /\ IsFiniteSet(Q)
  BY <1>1, QueuesAssumption, FS_Subset
<1>4. /\ Cardinality(P) \in Nat /\ Cardinality(Q) \in Nat
      /\ P # {} => Cardinality(P) # 0
      /\ Q # {} => Cardinality(Q) # 0
  BY <1>3, FS_CardinalityType, FS_EmptySet
<1> QED  BY <1>2, <1>4

(* A recounted state whose authority follows what is pending is good.      *)
LEMMA RecountKeeps ==
    ASSUME NEW s, Good(s), NEW u \in HeadStates, SameAudio(s, u), NEW t \in HeadStates,
           t.approval_queue = u.approval_queue, t.tool_plan_queue = u.tool_plan_queue,
           t.pending_approval_count = Recounted(u).pending_approval_count,
           t.tool_queue_count = Recounted(u).tool_queue_count,
           t.memory_proposal_count = Recounted(u).memory_proposal_count,
           SameAudio(u, t),
           "awaiting_approval" \in {t.authority_state, t.cognition_state} => Pending(u) > 0
    PROVE  Keeps(s, t)
<1>1. Counted(t)
  BY RecountedCounts DEF Counted, Pending
<1>2. SameAudio(s, t)
  BY DEF SameAudio
<1> QED  BY <1>1, <1>2, SameAudioKeeps DEF Keeps, Good

(* The queue of proposals with one of them in a given place.               *)
LEMMA QueueWith ==
    ASSUME NEW s, Good(s), NEW p \in Proposals, NEW x \in Reviews
    PROVE  LET u == [s EXCEPT !.approval_queue[p] = x] IN
           /\ u \in HeadStates /\ SameAudio(s, u)
           /\ u.authority_state = s.authority_state /\ u.cognition_state = s.cognition_state
           /\ x = "pending" => Pending(u) > 0
<1> DEFINE q == [s.approval_queue EXCEPT ![p] = x]
           u == [s EXCEPT !.approval_queue = q]
<1>0. s \in HeadStates
  BY DEF Good
<1>1. q \in [Proposals -> Reviews \cup {"absent"}] /\ q[p] = x
  BY <1>0 DEF HeadStates
<1>2. [s EXCEPT !.approval_queue[p] = x] = u
  OBVIOUS
<1>3. u \in HeadStates
  <2> HIDE DEF q
  <2> QED  BY <1>0, <1>1, Settable
<1>4. /\ SameAudio(s, u) /\ u.authority_state = s.authority_state
      /\ u.cognition_state = s.cognition_state /\ u.approval_queue = q
  BY <1>0 DEF SameAudio, HeadStates
<1>5. ASSUME x = "pending"
      PROVE  Pending(u) > 0
  <2>1. p \in PendingIn(u.approval_queue)
    BY <1>1, <1>4, <1>5 DEF PendingIn
  <2> HIDE DEF u
  <2> QED  BY <1>3, <2>1, PendingSome
<1> QED  BY <1>2, <1>3, <1>4, <1>5

(* The queue of plans with one of them in a given place.                   *)
LEMMA PlansWith ==
    ASSUME NEW s, Good(s), NEW p \in Plans, NEW x \in Reviews
    PROVE  LET u == [s EXCEPT !.tool_plan_queue[p] = x] IN
           /\ u \in HeadStates /\ SameAudio(s, u)
           /\ x = "pending" => Pending(u) > 0
<1> DEFINE q == [s.tool_plan_queue EXCEPT ![p] = x]
           u == [s EXCEPT !.tool_plan_queue = q]
<1>0. s \in HeadStates
  BY DEF Good
<1>1. q \in [Plans -> Reviews \cup {"absent"}] /\ q[p] = x
  BY <1>0 DEF HeadStates
<1>2. [s EXCEPT !.tool_plan_queue[p] = x] = u
  OBVIOUS
<1>3. u \in HeadStates
  <2> HIDE DEF q
  <2> QED  BY <1>0, <1>1, Settable
<1>4. SameAudio(s, u) /\ u.tool_plan_queue = q
  BY <1>0 DEF SameAudio, HeadStates
<1>5. ASSUME x = "pending"
      PROVE  Pending(u) > 0
  <2>1. p \in PendingIn(u.tool_plan_queue)
    BY <1>1, <1>4, <1>5 DEF PendingIn
  <2> HIDE DEF u
  <2> QED  BY <1>3, <2>1, PendingSome
<1> QED  BY <1>2, <1>3, <1>4, <1>5

(* Recounted, with the two states of approval set, in either order.        *)
Settled(u, a, c) == [[Recounted(u) EXCEPT !.cognition_state = c] EXCEPT !.authority_state = a]

LEMMA SettledEither ==
    ASSUME NEW u \in HeadStates, NEW a, NEW c
    PROVE  /\ [Recounted(u) EXCEPT !.cognition_state = c, !.authority_state = a] = Settled(u, a, c)
           /\ [Recounted(u) EXCEPT !.authority_state = a, !.cognition_state = c] = Settled(u, a, c)
<1> DEFINE r == Recounted(u)
<1>1. r \in HeadStates
  BY RecountedCounts
<1> HIDE DEF r
<1>2. /\ [r EXCEPT !.cognition_state = c, !.authority_state = a] = 
            [[r EXCEPT !.cognition_state = c] EXCEPT !.authority_state = a]
      /\ [r EXCEPT !.authority_state = a, !.cognition_state = c] = 
            [[r EXCEPT !.cognition_state = c] EXCEPT !.authority_state = a]
  BY <1>1 DEF HeadStates
<1> QED  BY <1>2 DEF Settled, r

LEMMA SettledKeeps ==
    ASSUME NEW s, Good(s), NEW u \in HeadStates, SameAudio(s, u),
           NEW a \in AuthorityStates, NEW c \in CognitionStates,
           "awaiting_approval" \in {a, c} => Pending(u) > 0
    PROVE  Keeps(s, Settled(u, a, c))
<1> DEFINE r == Recounted(u)
           v == [r EXCEPT !.cognition_state = c]
           t == [v EXCEPT !.authority_state = a]
<1>1. /\ r \in HeadStates /\ SameAudio(u, r)
      /\ r.approval_queue = u.approval_queue /\ r.tool_plan_queue = u.tool_plan_queue
  BY RecountedCounts
<1>2. v \in HeadStates
  <2> HIDE DEF r
  <2> QED  BY <1>1, Settable
<1>3. t \in HeadStates
  <2> HIDE DEF v
  <2> QED  BY <1>2, Settable
<1>4. /\ t.authority_state = a /\ t.cognition_state = c /\ SameAudio(r, t)
      /\ t.approval_queue = r.approval_queue /\ t.tool_plan_queue = r.tool_plan_queue
      /\ t.pending_approval_count = r.pending_approval_count
      /\ t.tool_queue_count = r.tool_queue_count
      /\ t.memory_proposal_count = r.memory_proposal_count
  <2> HIDE DEF r
  <2> QED  BY <1>1 DEF HeadStates, SameAudio
<1>5. SameAudio(u, t)
  BY <1>1, <1>4 DEF SameAudio
<1>6. Keeps(s, t)
  <2> HIDE DEF t
  <2> QED  BY <1>1, <1>3, <1>4, <1>5, RecountKeeps DEF r
<1> QED  BY <1>6 DEF Settled

LEMMA IntentKeeps ==
    ASSUME NEW s, Good(s), NEW class, NEW tool, NEW p \in Proposals
    PROVE  Keeps(s, ReduceIntent(s, class, tool, p))
<1>1. CASE Queues(s, class, tool)
  <2> DEFINE u == [s EXCEPT !.approval_queue[p] = "pending"]
  <2>1. u \in HeadStates /\ SameAudio(s, u) /\ Pending(u) > 0
    BY QueueWith DEF Reviews
  <2>2. ReduceIntent(s, class, tool, p) =
            [Recounted(u) EXCEPT !.cognition_state = "awaiting_approval",
                                 !.authority_state = "awaiting_approval"]
    BY <1>1 DEF ReduceIntent
  <2>3. Keeps(s, Settled(u, "awaiting_approval", "awaiting_approval"))
    <3>1. "awaiting_approval" \in AuthorityStates /\ "awaiting_approval" \in CognitionStates
      BY DEF AuthorityStates, CognitionStates
    <3> HIDE DEF u
    <3> QED  BY <2>1, <3>1, SettledKeeps
  <2> HIDE DEF u
  <2> QED  BY <2>1, <2>2, <2>3, SettledEither
<1>2. CASE ~Queues(s, class, tool)
  <2>1. CASE class = "sensitive_action"
    BY <1>2, <2>1, SetFailureKeeps DEF ReduceIntent, Failures
  <2>2. CASE class # "sensitive_action"
    BY <1>2, <2>2, SetIdleKeeps DEF ReduceIntent
  <2> QED  BY <2>1, <2>2
<1> QED  BY <1>1, <1>2

LEMMA MemoryProposalKeeps ==
    ASSUME NEW s, Good(s), NEW p \in Proposals
    PROVE  Keeps(s, ReduceMemoryProposal(s, p))
<1> DEFINE u == [s EXCEPT !.approval_queue[p] = "pending"]
           r == Recounted(u)
           t == [r EXCEPT !.authority_state = "awaiting_approval"]
<1>1. u \in HeadStates /\ SameAudio(s, u) /\ Pending(u) > 0
  BY QueueWith DEF Reviews
<1> HIDE DEF u
<1>2. /\ r \in HeadStates /\ SameAudio(u, r)
      /\ r.approval_queue = u.approval_queue /\ r.tool_plan_queue = u.tool_plan_queue
  BY <1>1, RecountedCounts
<1> HIDE DEF r
<1>3. t \in HeadStates
  BY <1>2, Settable DEF AuthorityStates
<1>4. /\ SameAudio(r, t)
      /\ t.approval_queue = r.approval_queue /\ t.tool_plan_queue = r.tool_plan_queue
      /\ t.pending_approval_count = r.pending_approval_count
      /\ t.tool_queue_count = r.tool_queue_count
      /\ t.memory_proposal_count = r.memory_proposal_count
  BY <1>2 DEF HeadStates, SameAudio
<1>5. SameAudio(u, t)
  BY <1>2, <1>4 DEF SameAudio
<1>6. ReduceMemoryProposal(s, p) = t
  BY DEF ReduceMemoryProposal, r, u
<1>7. Keeps(s, t)
  <2> HIDE DEF t
  <2> QED  BY <1>1, <1>2, <1>3, <1>4, <1>5, RecountKeeps DEF r
<1> QED  BY <1>6, <1>7

LEMMA ProposalReviewKeeps ==
    ASSUME NEW s, Good(s), NEW p \in Proposals, NEW d \in {"approved", "denied"}
    PROVE  Keeps(s, ReduceProposalReview(s, p, d))
<1>1. CASE s.approval_queue[p] = "pending"
  <2> DEFINE u == [s EXCEPT !.approval_queue[p] = d]
             r == Recounted(u)
             c == IF r.cognition_state = "awaiting_approval" THEN "idle" ELSE r.cognition_state
             a == IF r.authority_state = "awaiting_approval" THEN "local_governed"
                  ELSE r.authority_state
  <2>1. u \in HeadStates /\ SameAudio(s, u)
    BY QueueWith DEF Reviews
  <2> HIDE DEF u
  <2>2. /\ r \in HeadStates /\ SameAudio(u, r)
        /\ r.approval_queue = u.approval_queue /\ r.tool_plan_queue = u.tool_plan_queue
        /\ r.pending_approval_count = Pending(u)
    BY <2>1, RecountedCounts
  <2>3. ReduceProposalReview(s, p, d) = Relieved(r)
    BY <1>1 DEF ReduceProposalReview, u
  <2>4. CASE r.pending_approval_count > 0
    <3>1. Relieved(r) = r
      BY <2>4 DEF Relieved
    <3>2. Keeps(s, r)
      BY <2>1, <2>2, <2>4, RecountKeeps
    <3> QED  BY <2>3, <3>1, <3>2
  <2>5. CASE ~(r.pending_approval_count > 0)
    <3>1. Relieved(r) = [r EXCEPT !.cognition_state = c, !.authority_state = a]
      BY <2>5 DEF Relieved
    <3>2. /\ c \in CognitionStates /\ a \in AuthorityStates
          /\ a # "awaiting_approval" /\ c # "awaiting_approval"
      BY <2>2 DEF HeadStates, CognitionStates, AuthorityStates
    <3> HIDE DEF a, c
    <3>3. Keeps(s, Settled(u, a, c))
      BY <2>1, <3>2, SettledKeeps
    <3> QED  BY <2>1, <2>3, <3>1, <3>3, SettledEither
  <2> QED  BY <2>4, <2>5
<1>2. CASE s.approval_queue[p] # "pending"
  BY <1>2, NothingKeeps DEF ReduceProposalReview
<1> QED  BY <1>1, <1>2

LEMMA ToolPlanKeeps ==
    ASSUME NEW s, Good(s), NEW p \in Plans
    PROVE  Keeps(s, ReduceToolPlan(s, p))
<1> DEFINE u == [s EXCEPT !.tool_plan_queue[p] = "pending"]
<1>1. u \in HeadStates /\ SameAudio(s, u) /\ Pending(u) > 0
  BY PlansWith DEF Reviews
<1>2. ReduceToolPlan(s, p) =
          [Recounted(u) EXCEPT !.cognition_state = "awaiting_approval",
                               !.authority_state = "awaiting_approval"]
  BY DEF ReduceToolPlan
<1>3. Keeps(s, Settled(u, "awaiting_approval", "awaiting_approval"))
  <2>1. "awaiting_approval" \in AuthorityStates /\ "awaiting_approval" \in CognitionStates
    BY DEF AuthorityStates, CognitionStates
  <2> HIDE DEF u
  <2> QED  BY <1>1, <2>1, SettledKeeps
<1> HIDE DEF u
<1> QED  BY <1>1, <1>2, <1>3, SettledEither

(* States that follow the count say that something waits when it does.     *)
LEMMA FollowsKeeps ==
    ASSUME NEW s, Good(s), NEW u \in HeadStates, SameAudio(s, u)
    PROVE  Keeps(s, FollowsCount(Recounted(u)))
<1> DEFINE r == Recounted(u)
           waiting == r.pending_approval_count > 0
           a == IF waiting THEN "awaiting_approval" ELSE "local_governed"
           c == IF waiting THEN "awaiting_approval" ELSE "idle"
<1>1. r.pending_approval_count = Pending(u)
  BY RecountedCounts
<1>2. /\ a \in AuthorityStates /\ c \in CognitionStates
      /\ "awaiting_approval" \in {a, c} => Pending(u) > 0
  BY <1>1 DEF AuthorityStates, CognitionStates
<1>3. FollowsCount(r) = [r EXCEPT !.authority_state = a, !.cognition_state = c]
  BY DEF FollowsCount
<1> HIDE DEF a, c
<1>4. Keeps(s, Settled(u, a, c))
  BY <1>2, SettledKeeps
<1> QED  BY <1>3, <1>4, SettledEither

LEMMA ToolPlanReviewKeeps ==
    ASSUME NEW s, Good(s), NEW p \in Plans, NEW d \in {"approved", "denied"}
    PROVE  Keeps(s, ReduceToolPlanReview(s, p, d))
<1> DEFINE u == [s EXCEPT !.tool_plan_queue[p] = d]
<1>1. u \in HeadStates /\ SameAudio(s, u)
  BY PlansWith DEF Reviews
<1>2. Keeps(s, FollowsCount(Recounted(u)))
  <2> HIDE DEF u
  <2> QED  BY <1>1, FollowsKeeps
<1> QED  BY <1>2, NothingKeeps DEF ReduceToolPlanReview

LEMMA ToolPlanStepQueueKeeps ==
    ASSUME NEW s, Good(s), NEW p
    PROVE  Keeps(s, ReduceToolPlanStepQueue(s, p))
<1>1. s \in HeadStates /\ SameAudio(s, s)
  BY DEF Good, SameAudio
<1>2. Keeps(s, FollowsCount(Recounted(s)))
  BY <1>1, FollowsKeeps
<1> QED  BY <1>2, NothingKeeps DEF ReduceToolPlanStepQueue

-----------------------------------------------------------------------------
(* The requests.                                                           *)

Says == {<<>>, <<"muted">>, <<"failure">>, <<"complete">>, <<"speaking", "complete">>,
         <<"synthesizing", "speaking", "complete">>, Spoken}

Works == [at: Places, trigger: Triggers, route: {"none", "command", "confirm"}, say: Says]

Turns == [stage: {"none", "transcribing", "thinking"}, owner: Writers]

(* A request has events of speech to apply exactly while it is speaking.   *)
Marked == \A r \in Requests : (req[r].say # <<>> <=> req[r].at = "speaking")

(* What is still to be stored was made of good states, one by each writer. *)
LateIsGood ==
    /\ DOMAIN late = Writers
    /\ \A w \in Writers : \A s \in late[w] : Good(s) /\ \A t \in late[w] : t = s
    /\ relit \in BOOLEAN

(* The inductive invariant: the state is of its type, its counters count,  *)
(* its switches are respected, those still to be stored are like it, and   *)
(* a head that speaks has what will end it.                                *)
HeadInv ==
    /\ Good(head)
    /\ LateIsGood
    /\ req \in [Requests -> Works] /\ Marked
    /\ turn \in Turns
    /\ SpeakingWillEnd

(* A step that leaves the requests that speak to themselves.               *)
CalmRequests ==
    /\ req' \in [Requests -> Works] /\ Marked'
    /\ \A r \in Requests : req[r].at = "speaking" => req'[r] = req[r]

(* A state in which the lamp is off is still to be stored.                 *)
OffIsLate == \E w \in Writers : \E s \in late[w] : s.audio_state # "speaking"

(* A step after which the lamp is on only if it was, and for a reason that *)
(* still holds.                                                            *)
CalmStore ==
    /\ Good(head') /\ LateIsGood'
    /\ head'.audio_state = "speaking" =>
          /\ head.audio_state = "speaking"
          /\ OffIsLate => OffIsLate'
          /\ relit => relit'

(* A step in which no speech begins, and none that is under way is lost.   *)
LEMMA CalmStep ==
    ASSUME HeadInv, CalmStore, CalmRequests, turn' \in Turns
    PROVE  HeadInv'
<1>1. SpeakingWillEnd'
  <2> SUFFICES ASSUME head'.audio_state = "speaking",
                      ~ OffIsLate', ~ relit'
               PROVE  \E r \in Requests : req'[r].say = <<"complete">>
    BY DEF SpeakingWillEnd, OffIsLate
  <2>1. head.audio_state = "speaking" /\ ~ OffIsLate /\ ~ relit
    BY DEF CalmStore
  <2>2. PICK r \in Requests : req[r].say = <<"complete">>
    BY <2>1 DEF HeadInv, SpeakingWillEnd, OffIsLate
  <2>3. <<"complete">> # <<>>
    OBVIOUS
  <2>4. req[r].at = "speaking"
    BY <2>2, <2>3 DEF HeadInv, Marked
  <2> QED  BY <2>2, <2>4 DEF CalmRequests
<1> QED  BY <1>1 DEF HeadInv, CalmStore, CalmRequests

(* What is set aside, to be stored late.                                   *)
LEMMA SetAside ==
    ASSUME LateIsGood, NEW w \in Writers, NEW s, Good(s), late[w] = {},
           late' = [late EXCEPT ![w] = {s}], UNCHANGED relit
    PROVE  LateIsGood' /\ (OffIsLate => OffIsLate') /\ (s.audio_state # "speaking" => OffIsLate')
<1>1. /\ DOMAIN late' = Writers
      /\ \A v \in Writers : late'[v] = IF v = w THEN {s} ELSE late[v]
  BY DEF LateIsGood
<1>2. LateIsGood'
  BY <1>1 DEF LateIsGood
<1>3. OffIsLate => OffIsLate'
  <2> SUFFICES ASSUME NEW v \in Writers, NEW t \in late[v], t.audio_state # "speaking"
               PROVE  OffIsLate'
    BY DEF OffIsLate
  <2>1. v # w /\ t \in late'[v]
    BY <1>1
  <2> QED  BY <2>1 DEF OffIsLate
<1>4. s.audio_state # "speaking" => OffIsLate'
  BY <1>1 DEF OffIsLate
<1> QED  BY <1>2, <1>3, <1>4

LEMMA StoreIsCalm ==
    ASSUME HeadInv, NEW w \in Writers, NEW s, Keeps(head, s), Stores(w, s)
    PROVE  CalmStore
<1>0. LateIsGood /\ Good(head) /\ Good(s) /\ (s.audio_state = "speaking" => head.audio_state = "speaking")
  BY DEF HeadInv, Keeps
<1>1. CASE head' = s /\ relit' = (relit /\ s.audio_state = "speaking") /\ UNCHANGED late
  <2>1. LateIsGood' /\ (OffIsLate => OffIsLate')
    BY <1>0, <1>1 DEF LateIsGood, OffIsLate
  <2> QED  BY <1>0, <1>1, <2>1 DEF CalmStore
<1>2. CASE late[w] = {} /\ late' = [late EXCEPT ![w] = {s}] /\ UNCHANGED <<head, relit>>
  <2>1. LateIsGood' /\ (OffIsLate => OffIsLate')
    BY <1>0, <1>2, SetAside
  <2> QED  BY <1>0, <1>2, <2>1 DEF CalmStore
<1> QED  BY <1>1, <1>2 DEF Stores

LEMMA NoStoreIsCalm ==
    ASSUME HeadInv, NoStore
    PROVE  CalmStore
BY DEF HeadInv, NoStore, CalmStore, LateIsGood, OffIsLate

(* One request that does not speak changes, and is marked as it should be. *)
LEMMA OneChanges ==
    ASSUME HeadInv, NEW r \in Requests, req[r].at # "speaking",
           NEW w \in Works, w.say # <<>> <=> w.at = "speaking",
           req' = [req EXCEPT ![r] = w]
    PROVE  CalmRequests
<1>1. req \in [Requests -> Works] /\ Marked
  BY DEF HeadInv
<1>2. req' \in [Requests -> Works]
  <2> HIDE DEF Works
  <2> QED  BY <1>1
<1>3. \A q \in Requests : req'[q] = IF q = r THEN w ELSE req[q]
  <2> HIDE DEF Works
  <2> QED  BY <1>1
<1>4. Marked'
  BY <1>1, <1>3 DEF Marked
<1> QED  BY <1>2, <1>3, <1>4 DEF CalmRequests

LEMMA NoneChanges ==
    ASSUME HeadInv, UNCHANGED req
    PROVE  CalmRequests
BY DEF HeadInv, CalmRequests, Marked

LEMMA GoesIsCalm ==
    ASSUME HeadInv, NEW r \in Requests, req[r].at # "speaking",
           NEW place \in Places \ {"speaking"}, Goes(r, place)
    PROVE  CalmRequests
<1> DEFINE w == [req[r] EXCEPT !.at = place]
<1>1. req[r] \in Works /\ req[r].say = <<>>
  BY DEF HeadInv, Marked
<1>2. w \in Works /\ w.say = <<>> /\ w.at = place
  BY <1>1 DEF Works
<1>3. req' = [req EXCEPT ![r] = w]
  BY DEF Goes
<1> HIDE DEF w
<1> QED  BY <1>2, <1>3, OneChanges

LEMMA EndsIsCalm ==
    ASSUME HeadInv, NEW r \in Requests, req[r].at # "speaking", Ends(r)
    PROVE  CalmRequests
<1>1. NoWork \in Works /\ NoWork.say = <<>> /\ NoWork.at # "speaking"
  BY DEF NoWork, Works, Places, Triggers, Says
<1>2. req' = [req EXCEPT ![r] = NoWork]
  BY DEF Ends
<1> QED  BY <1>1, <1>2, OneChanges

LEMMA BeginsIsCalm ==
    ASSUME HeadInv, NEW r \in Requests, NEW trigger \in Triggers,
           NEW place \in Places \ {"speaking"}, Begins(r, trigger, place)
    PROVE  CalmRequests
<1> DEFINE w == [NoWork EXCEPT !.at = place, !.trigger = trigger]
<1>1. w \in Works /\ w.say = <<>> /\ w.at = place
  BY DEF NoWork, Works, Places, Says
<1>2. req' = [req EXCEPT ![r] = w] /\ req[r].at # "speaking"
  BY DEF Begins
<1> HIDE DEF w
<1> QED  BY <1>1, <1>2, OneChanges

LEMMA SpeechIsSaid ==
    ASSUME NEW s
    PROVE  SpeechEvents(s) \subseteq Says \ {<<>>}
BY DEF SpeechEvents, Says, Spoken

LEMMA SpeaksIsCalm ==
    ASSUME HeadInv, NEW r \in Requests, req[r].at # "speaking", Speaks(r)
    PROVE  CalmRequests
<1>1. PICK say \in SpeechEvents(head) \cup {<<>>} :
          req' = [req EXCEPT ![r].say = say,
                             ![r].at = IF say = <<>> THEN "closing" ELSE "speaking"]
  BY DEF Speaks
<1> DEFINE at == IF say = <<>> THEN "closing" ELSE "speaking"
           w == [req[r] EXCEPT !.say = say, !.at = at]
<1>2. say \in Says /\ req[r] \in Works
  BY SpeechIsSaid DEF HeadInv, Says
<1>3. at \in Places /\ (say # <<>> <=> at = "speaking")
  BY DEF Places
<1>4. req' = [req EXCEPT ![r] = w]
  BY <1>1, <1>2 DEF HeadInv, Works
<1> HIDE DEF at
<1>5. w \in Works /\ w.say = say /\ w.at = at
  BY <1>2, <1>3 DEF Works
<1> HIDE DEF w
<1> QED  BY <1>3, <1>4, <1>5, OneChanges

LEMMA RoutesIsCalm ==
    ASSUME HeadInv, NEW r \in Requests, req[r].at # "speaking",
           NEW route \in {"command", "confirm"}, NEW place \in Places \ {"speaking"},
           Routes(r, route, place)
    PROVE  CalmRequests
<1> DEFINE w == [req[r] EXCEPT !.at = place, !.route = route]
<1>1. req[r] \in Works /\ req[r].say = <<>>
  BY DEF HeadInv, Marked
<1>2. w \in Works /\ w.say = <<>> /\ w.at = place
  BY <1>1 DEF Works
<1>3. req' = [req EXCEPT ![r] = w]
  BY <1>1 DEF Routes, HeadInv, Works
<1> HIDE DEF w
<1> QED  BY <1>2, <1>3, OneChanges

LEMMA LeavesIsCalm ==
    ASSUME HeadInv, NEW r \in Requests, req[r].at # "speaking", Leaves(r)
    PROVE  CalmRequests
<1>1. "releasing" \in Places \ {"speaking"}
  BY DEF Places
<1> QED  BY <1>1, GoesIsCalm, EndsIsCalm DEF Leaves

LEMMA TurnMayEnd ==
    ASSUME HeadInv, NEW r \in Requests, TurnEnds(r) \/ UNCHANGED turn
    PROVE  turn' \in Turns
BY DEF HeadInv, TurnEnds, Turns, NoTurn, Writers

(* What each handler makes of the state is as good as what it read.        *)
LEMMA AudioIsKept ==
    ASSUME HeadInv, NEW w \in Writers, NEW status, Stores(w, ReduceAudio(head, status))
    PROVE  CalmStore
<1>1. Keeps(head, ReduceAudio(head, status))
  BY AudioKeeps DEF HeadInv
<1> PICK s : s = ReduceAudio(head, status)
  OBVIOUS
<1> QED  BY <1>1, StoreIsCalm

LEMMA SttIsKept ==
    ASSUME HeadInv, NEW w \in Writers, NEW status, Stores(w, ReduceStt(head, status))
    PROVE  CalmStore
<1>1. Keeps(head, ReduceStt(head, status))
  BY SttKeeps DEF HeadInv
<1> PICK s : s = ReduceStt(head, status)
  OBVIOUS
<1> QED  BY <1>1, StoreIsCalm

LEMMA SameIsKept ==
    ASSUME HeadInv, NEW w \in Writers, Stores(w, head)
    PROVE  CalmStore
BY NothingKeeps, StoreIsCalm DEF HeadInv

-----------------------------------------------------------------------------
(* The steps.                                                              *)

(* An event of the operator, which leaves the requests alone.              *)
LEMMA OperatorStores ==
    ASSUME HeadInv, NEW s, Keeps(head, s), Stores(NoRequest, s), UNCHANGED req, turn' \in Turns
    PROVE  HeadInv'
<1>1. NoRequest \in Writers
  BY DEF Writers
<1> QED  BY <1>1, StoreIsCalm, NoneChanges, CalmStep

LEMMA OperatorKeeps ==
    ASSUME HeadInv, Operator
    PROVE  HeadInv'
<1>0. Good(head) /\ turn \in Turns
  BY DEF HeadInv
<1>a. ASSUME NEW s, Keeps(head, s), Stores(NoRequest, s), OnlyHead
      PROVE  HeadInv'
  BY <1>0, <1>a, OperatorStores DEF OnlyHead
<1>1. CASE PressPower
  BY <1>0, <1>1, <1>a, PowerKeeps DEF PressPower
<1>2. CASE PressLoud
  BY <1>0, <1>2, <1>a, LoudKeeps DEF PressLoud
<1>3. CASE PressAudioInput
  BY <1>0, <1>3, <1>a, AudioInputKeeps DEF PressAudioInput
<1>4. CASE PressListenMode
  BY <1>0, <1>4, <1>a, ListenModeKeeps DEF PressListenMode
<1>5. CASE PressAfc
  BY <1>0, <1>5, <1>a, AfcKeeps DEF PressAfc
<1>6. CASE PressAmFm
  BY <1>0, <1>6, <1>a, AmFmKeeps DEF PressAmFm
<1>7. CASE SwitchMic
  BY <1>0, <1>7, <1>a, MicKeeps DEF SwitchMic
<1>8. CASE SwitchCamera
  BY <1>0, <1>8, <1>a, CameraKeeps DEF SwitchCamera
<1>9. CASE AskForCapture
  BY <1>0, <1>9, <1>a, CaptureKeeps DEF AskForCapture
<1>10. CASE TriggerFailure
  <2>1. CASE \E failure \in TriggeredFailures : Stores(NoRequest, SetFailure(head, failure))
    BY <1>0, <1>10, <1>a, <2>1, TriggersAssumption, SetFailureKeeps DEF TriggerFailure
  <2>2. CASE \E status \in {"retrieved", "unavailable"} :
                Stores(NoRequest, ReduceMemoryProvider(head, status))
    BY <1>0, <1>10, <1>a, <2>2, MemoryProviderKeeps DEF TriggerFailure
  <2> QED  BY <1>10, <2>1, <2>2 DEF TriggerFailure
<1>11. CASE Heartbeat
  BY <1>0, <1>11, <1>a, HeartbeatKeeps DEF Heartbeat
<1>12. CASE ClearFailures
  BY <1>0, <1>12, <1>a, ClearFailuresKeeps DEF ClearFailures
<1>13. CASE Chat
  BY <1>0, <1>13, <1>a, ChatKeeps DEF Chat
<1>14. CASE Intend
  <2>1. CASE \E p \in Proposals, tool \in BOOLEAN,
               class \in {"external_action", "sensitive_action", "draft"} :
               Fresh(p) /\ Stores(NoRequest, ReduceIntent(head, class, tool, p))
    BY <1>0, <1>14, <1>a, <2>1, IntentKeeps DEF Intend
  <2>2. CASE \E p \in MemoryProposals :
               Fresh(p) /\ Stores(NoRequest, ReduceMemoryProposal(head, p))
    BY <1>0, <1>14, <1>a, <2>2, QueuesAssumption, MemoryProposalKeeps DEF Intend
  <2> QED  BY <1>14, <2>1, <2>2 DEF Intend
<1>15. CASE Review
  <2>1. CASE \E p \in PendingIn(head.approval_queue), decision \in {"approved", "denied"} :
               Stores(NoRequest, ReduceProposalReview(head, p, decision))
    <3>1. PendingIn(head.approval_queue) \subseteq Proposals
      BY <1>0 DEF PendingIn, Good, HeadStates
    <3> QED  BY <1>0, <1>15, <1>a, <2>1, <3>1, ProposalReviewKeeps DEF Review
  <2>2. CASE \E p \in Proposals, runs \in BOOLEAN :
               Stores(NoRequest, ReduceExecutionRequest(head, p, runs))
    BY <1>0, <1>15, <1>a, <2>2, ExecutionRequestKeeps DEF Review
  <2> QED  BY <1>15, <2>1, <2>2 DEF Review
<1>16. CASE Plan
  <2>1. CASE \E p \in Plans :
               head.tool_plan_queue[p] = "absent" /\ Stores(NoRequest, ReduceToolPlan(head, p))
    BY <1>0, <1>16, <1>a, <2>1, ToolPlanKeeps DEF Plan
  <2>2. CASE \E p \in PendingIn(head.tool_plan_queue), decision \in {"approved", "denied"} :
               Stores(NoRequest, ReduceToolPlanReview(head, p, decision))
    <3>1. PendingIn(head.tool_plan_queue) \subseteq Plans
      BY <1>0 DEF PendingIn, Good, HeadStates
    <3> QED  BY <1>0, <1>16, <1>a, <2>2, <3>1, ToolPlanReviewKeeps DEF Plan
  <2>3. CASE \E p \in Plans : Stores(NoRequest, ReduceToolPlanStepQueue(head, p))
    BY <1>0, <1>16, <1>a, <2>3, ToolPlanStepQueueKeeps DEF Plan
  <2> QED  BY <1>16, <2>1, <2>2, <2>3 DEF Plan
<1>17. CASE VoiceStop
  <2>1. turn' \in Turns
    BY <1>0, <1>17 DEF VoiceStop, NoTurn, Turns, Writers
  <2>2. Keeps(head, ReduceTts(head, "cancelled"))
    BY <1>0, TtsKeeps DEF SpeechStatuses
  <2> PICK s : s = ReduceTts(head, "cancelled")
    OBVIOUS
  <2> QED  BY <1>17, <2>1, <2>2, OperatorStores DEF VoiceStop
<1>18. CASE SessionStop
  <2>1. turn' \in Turns
    BY <1>18 DEF SessionStop, NoTurn, Turns, Writers
  <2> QED  BY <1>18, <2>1, NoStoreIsCalm, NoneChanges, CalmStep DEF SessionStop
<1>19. CASE OtherEvent
  BY <1>0, <1>19, <1>a, NothingKeeps DEF OtherEvent
<1> QED  BY <1>1, <1>2, <1>3, <1>4, <1>5, <1>6, <1>7, <1>8, <1>9, <1>10, <1>11, <1>12,
            <1>13, <1>14, <1>15, <1>16, <1>17, <1>18, <1>19 DEF Operator

(* A handler that is turned away, or that touches the held button.         *)
LEMMA AudioEventKeeps ==
    ASSUME HeadInv, NEW r \in Requests, NEW status,
           Stores(r, ReduceAudio(head, status)), OnlyHead
    PROVE  HeadInv'
<1>1. r \in Writers /\ turn \in Turns
  BY DEF Writers, HeadInv
<1> QED  BY <1>1, AudioIsKept, NoneChanges, CalmStep DEF OnlyHead

LEMMA TurnedAwayKeeps ==
    ASSUME HeadInv, NEW r \in Requests, TurnedAway(r)
    PROVE  HeadInv'
BY AudioEventKeeps DEF TurnedAway

(* A request begins to listen.                                             *)
LEMMA BeginsKeeps ==
    ASSUME HeadInv, NEW r \in Requests, NEW trigger \in Triggers,
           NEW place \in Places \ {"speaking"}, Begins(r, trigger, place),
           CalmStore, turn' \in Turns
    PROVE  HeadInv'
BY BeginsIsCalm, CalmStep

(* A request goes on, or ends, with its event stored.                      *)
LEMMA GoesKeeps ==
    ASSUME HeadInv, NEW r \in Requests, req[r].at # "speaking",
           \/ Ends(r) \/ Leaves(r)
           \/ \E place \in Places \ {"speaking"} :
                 Goes(r, place) \/ \E route \in {"command", "confirm"} : Routes(r, route, place),
           CalmStore, TurnEnds(r) \/ UNCHANGED turn
    PROVE  HeadInv'
<1>1. CalmRequests
  BY EndsIsCalm, LeavesIsCalm, GoesIsCalm, RoutesIsCalm
<1>2. turn' \in Turns
  BY TurnMayEnd
<1> QED  BY <1>1, <1>2, CalmStep

LEMMA ListeningKeeps ==
    ASSUME HeadInv, Listening
    PROVE  HeadInv'
<1>0. Good(head) /\ turn \in Turns
  BY DEF HeadInv
<1>b. NoStore => CalmStore
  BY NoStoreIsCalm
<1>c. \A place \in {"waking", "capturing", "uploading", "transcribing", "routing", "refusing", "completing"} :
         place \in Places \ {"speaking"}
  BY DEF Places
<1>d. \A trigger \in {"capture", "transcribe", "listen", "ptt", "wake", "browser"} : trigger \in Triggers
  BY DEF Triggers
<1> PICK r \in GoesOn :
        \/ AudioCapture(r) \/ AudioTranscribe(r) \/ AudioListen(r) \/ AudioWake(r)
        \/ PttPress(r) \/ PttCancel(r) \/ PttRelease(r) \/ SecondEvent(r)
        \/ BrowserPtt(r) \/ Uploaded(r)
        \/ Captured(r) \/ TranscribeFails(r) \/ Transcribed(r)
  BY DEF Listening
<1>r. r \in Requests /\ r \in Writers
  BY DEF GoesOn, Writers
<1>a. ASSUME NEW status, Stores(r, ReduceAudio(head, status))
      PROVE  CalmStore
  BY <1>a, <1>r, AudioIsKept
<1>1. CASE AudioCapture(r)
  <2>1. CASE TurnedAway(r)
    BY <1>r, <2>1, TurnedAwayKeeps
  <2>2. CASE Begins(r, "capture", "capturing") /\ NoStore /\ UNCHANGED turn
    BY <1>0, <1>b, <1>c, <1>d, <1>r, <2>2, BeginsKeeps
  <2> QED  BY <1>1, <2>1, <2>2 DEF AudioCapture
<1>2. CASE AudioTranscribe(r)
  <2>1. CASE TurnedAway(r)
    BY <1>r, <2>1, TurnedAwayKeeps
  <2>2. CASE Begins(r, "transcribe", "capturing") /\ NoStore /\ UNCHANGED turn
    BY <1>0, <1>b, <1>c, <1>d, <1>r, <2>2, BeginsKeeps
  <2> QED  BY <1>2, <2>1, <2>2 DEF AudioTranscribe
<1>3. CASE AudioListen(r)
  <2>1. CASE TurnedAway(r)
    BY <1>r, <2>1, TurnedAwayKeeps
  <2>2. CASE BeginsWith(r, "listen", ReduceAudio(head, "capturing"), "capturing")
    BY <1>0, <1>a, <1>c, <1>d, <1>r, <2>2, BeginsKeeps DEF BeginsWith
  <2> QED  BY <1>3, <2>1, <2>2 DEF AudioListen
<1>4. CASE AudioWake(r)
  <2>1. CASE TurnedAway(r)
    BY <1>r, <2>1, TurnedAwayKeeps
  <2>2. CASE BeginsWith(r, "wake", head, "waking")
    <3>1. CalmStore
      BY <1>r, <2>2, SameIsKept DEF BeginsWith
    <3> QED  BY <1>0, <1>c, <1>d, <1>r, <2>2, <3>1, BeginsKeeps DEF BeginsWith
  <2> QED  BY <1>4, <2>1, <2>2 DEF AudioWake
<1>5. CASE PttPress(r)
  <2>1. CASE TurnedAway(r)
    BY <1>r, <2>1, TurnedAwayKeeps
  <2>2. CASE Stores(r, ReduceAudio(head, "ptt_pressed")) /\ OnlyHead
    BY <1>r, <2>2, AudioEventKeeps
  <2> QED  BY <1>5, <2>1, <2>2 DEF PttPress
<1>6. CASE PttCancel(r)
  BY <1>6, <1>r, AudioEventKeeps DEF PttCancel
<1>7. CASE PttRelease(r)
  <2>1. CASE BeginsWith(r, "ptt", ReduceAudio(head, "ptt_released"), "refusing")
    BY <1>0, <1>a, <1>c, <1>d, <1>r, <2>1, BeginsKeeps DEF BeginsWith
  <2>2. CASE Stores(r, ReduceAudio(head, "ptt_released")) /\ OnlyHead
    BY <1>r, <2>2, AudioEventKeeps
  <2>3. CASE BeginsWith(r, "ptt", ReduceAudio(head, "capturing"), "capturing")
    BY <1>0, <1>a, <1>c, <1>d, <1>r, <2>3, BeginsKeeps DEF BeginsWith
  <2> QED  BY <1>7, <2>1, <2>2, <2>3 DEF PttRelease
<1>8. CASE SecondEvent(r)
  <2>1. CASE req[r].at = "refusing" /\ Stores(r, ReduceAudio(head, "blocked")) /\ Ends(r)
    BY <1>8, <1>a, <1>r, <2>1, GoesKeeps DEF SecondEvent
  <2>2. CASE req[r].at = "waking" /\ Stores(r, ReduceAudio(head, "capturing")) /\ Goes(r, "capturing")
    BY <1>8, <1>a, <1>c, <1>r, <2>2, GoesKeeps DEF SecondEvent
  <2> QED  BY <1>8, <2>1, <2>2 DEF SecondEvent
<1>9. CASE BrowserPtt(r)
  <2>1. CASE TurnedAway(r)
    BY <1>r, <2>1, TurnedAwayKeeps
  <2>2. CASE /\ Begins(r, "browser", "uploading")
             /\ turn' = [stage |-> "transcribing", owner |-> r]
             /\ NoStore
    <3>1. turn' \in Turns
      BY <1>r, <2>2 DEF Turns
    <3> QED  BY <1>b, <1>c, <1>d, <1>r, <2>2, <3>1, BeginsKeeps
  <2> QED  BY <1>9, <2>1, <2>2 DEF BrowserPtt
<1>10. CASE Uploaded(r)
  <2>0. req[r].at # "speaking"
    BY <1>10 DEF Uploaded
  <2>1. CASE Ends(r) /\ TurnEnds(r) /\ NoStore
    BY <1>b, <1>r, <2>0, <2>1, GoesKeeps
  <2>2. CASE Stores(r, ReduceAudio(head, "capturing")) /\ Goes(r, "capturing") /\ UNCHANGED turn
    BY <1>a, <1>c, <1>r, <2>0, <2>2, GoesKeeps
  <2> QED  BY <1>10, <2>1, <2>2 DEF Uploaded
<1>11. CASE Captured(r)
  <2>0. req[r].at # "speaking" /\ UNCHANGED turn
    BY <1>11 DEF Captured
  <2>1. CASE Stores(r, ReduceAudio(head, "blocked")) /\ Leaves(r)
    BY <1>a, <1>r, <2>0, <2>1, GoesKeeps
  <2>2. CASE Stores(r, ReduceAudio(head, "complete")) /\ Ends(r)
    BY <1>a, <1>r, <2>0, <2>2, GoesKeeps
  <2>3. CASE NoStore /\ Leaves(r)
    BY <1>b, <1>r, <2>0, <2>3, GoesKeeps
  <2>4. CASE /\ Stores(r, ReduceAudio(head, "transcribing"))
             /\ Goes(r, IF req[r].trigger = "transcribe" THEN "completing" ELSE "transcribing")
    BY <1>a, <1>c, <1>r, <2>0, <2>4, GoesKeeps
  <2> QED  BY <1>11, <2>1, <2>2, <2>3, <2>4 DEF Captured
<1>12. CASE TranscribeFails(r)
  BY <1>12, <1>b, <1>r, GoesKeeps DEF TranscribeFails
<1>13. CASE Transcribed(r)
  <2>0. req[r].at # "speaking"
    BY <1>13 DEF Transcribed
  <2>1. CASE NoStore /\ Leaves(r) /\ UNCHANGED turn
    BY <1>b, <1>r, <2>0, <2>1, GoesKeeps
  <2>2. CASE Stores(r, ReduceAudio(head, "complete")) /\ Leaves(r) /\ TurnEnds(r)
    BY <1>a, <1>r, <2>0, <2>2, GoesKeeps
  <2>3. CASE /\ Goes(r, "routing")
             /\ turn' = IF Accepts(r) THEN [turn EXCEPT !.stage = "thinking"] ELSE turn
             /\ NoStore
    <3>1. turn' \in Turns
      BY <1>0, <2>3 DEF Turns
    <3>2. CalmRequests
      BY <1>c, <1>r, <2>0, <2>3, GoesIsCalm
    <3> QED  BY <1>b, <2>3, <3>1, <3>2, CalmStep
  <2> QED  BY <1>13, <2>1, <2>2, <2>3 DEF Transcribed
<1> QED  BY <1>1, <1>2, <1>3, <1>4, <1>5, <1>6, <1>7, <1>8, <1>9, <1>10, <1>11, <1>12, <1>13

LEMMA ClosingKeeps ==
    ASSUME HeadInv, NEW r \in Requests, Closing(r)
    PROVE  HeadInv'
<1>r. r \in Writers
  BY DEF Writers
<1>1. CASE Responds(r)
  <2>0. req[r].at # "speaking" /\ CalmStore /\ (TurnEnds(r) \/ UNCHANGED turn)
    BY <1>1, NoStoreIsCalm DEF Responds
  <2>1. CASE Ends(r)
    BY <2>0, <2>1, GoesKeeps
  <2>2. CASE Speaks(r)
    BY <2>0, <2>2, SpeaksIsCalm, TurnMayEnd, CalmStep
  <2> QED  BY <1>1, <2>1, <2>2 DEF Responds
<1>2. CASE Closed(r)
  <2>1. req[r].at # "speaking" /\ (TurnEnds(r) \/ UNCHANGED turn)
    BY <1>2 DEF Closed
  <2>2. CalmStore
    <3>1. CASE Stores(r, ReduceStt(head, "complete"))
      BY <1>r, <3>1, SttIsKept
    <3>2. CASE NoStore
      BY <3>2, NoStoreIsCalm
    <3> QED  BY <1>2, <3>1, <3>2 DEF Closed
  <2>3. Goes(r, "completing") \/ Ends(r)
    BY <1>2 DEF Closed
  <2>4. "completing" \in Places \ {"speaking"}
    BY DEF Places
  <2> QED  BY <2>1, <2>2, <2>3, <2>4, GoesKeeps
<1>3. CASE Completed(r)
  <2>1. CalmStore
    BY <1>3, <1>r, AudioIsKept DEF Completed
  <2> QED  BY <1>3, <2>1, GoesKeeps DEF Completed
<1>4. CASE LetsGo(r)
  <2>1. CASE Stores(r, ReduceAudio(head, "ptt_released"))
    BY <1>4, <1>r, <2>1, AudioIsKept, GoesKeeps DEF LetsGo
  <2>2. CASE NoStore
    BY <1>4, <2>2, NoStoreIsCalm, GoesKeeps DEF LetsGo
  <2> QED  BY <1>4, <2>1, <2>2 DEF LetsGo
<1> QED  BY <1>1, <1>2, <1>3, <1>4 DEF Closing

LEMMA CommandingKeeps ==
    ASSUME HeadInv, NEW r \in Requests, RouteCommand(r) \/ Answered(r)
    PROVE  HeadInv'
<1>0. Good(head) /\ r \in Writers
  BY DEF HeadInv, Writers
<1>c. \A place \in {"closing", "answering", "responding"} : place \in Places \ {"speaking"}
  BY DEF Places
<1>1. CASE RouteCommand(r)
  <2>0. req[r].at # "speaking" /\ UNCHANGED turn
    BY <1>1 DEF RouteCommand
  <2>1. CASE Stores(r, ReduceStt(head, "blocked")) /\ Goes(r, "closing")
    BY <1>0, <1>c, <2>0, <2>1, SttIsKept, GoesKeeps
  <2>2. CASE Stores(r, ReduceStt(head, "transcript")) /\ Routes(r, "command", "answering")
    BY <1>0, <1>c, <2>0, <2>2, SttIsKept, GoesKeeps
  <2> QED  BY <1>1, <2>1, <2>2 DEF RouteCommand, Command
<1>2. CASE Answered(r)
  <2>0. req[r].at # "speaking"
    BY <1>2 DEF Answered
  <2>a. ASSUME NEW status \in {"complete", "failure"}, NEW source \in SourceStates,
               Stores(r, ReduceChat(head, status, source))
        PROVE  CalmStore
    <3>1. Keeps(head, ReduceChat(head, status, source))
      BY <1>0, ChatKeeps
    <3> PICK s : s = ReduceChat(head, status, source)
      OBVIOUS
    <3> QED  BY <1>0, <2>a, <3>1, StoreIsCalm
  <2>1. CASE /\ \E source \in SourceStates : Stores(r, ReduceChat(head, "complete", source))
             /\ Goes(r, "responding")
             /\ UNCHANGED turn
    BY <1>c, <2>0, <2>1, <2>a, GoesKeeps
  <2>2. CASE Stores(r, ReduceChat(head, "failure", "unsourced")) /\ Ends(r) /\ TurnEnds(r)
    <3>1. "unsourced" \in SourceStates
      BY DEF SourceStates
    <3> QED  BY <2>0, <2>2, <2>a, <3>1, GoesKeeps
  <2>3. CASE Ends(r) /\ NoStore /\ UNCHANGED turn
    BY <2>0, <2>3, NoStoreIsCalm, GoesKeeps
  <2> QED  BY <1>2, <2>1, <2>2, <2>3 DEF Answered
<1> QED  BY <1>1, <1>2

LEMMA ConfirmingKeeps ==
    ASSUME HeadInv, NEW r \in Requests, VoiceConfirm(r) \/ RouteConfirm(r) \/ Confirms(r)
    PROVE  HeadInv'
<1>0. Good(head) /\ turn \in Turns /\ r \in Writers
  BY DEF HeadInv, Writers
<1>c. \A place \in {"routing", "closing", "confirming", "confirmed", "responding"} :
         place \in Places \ {"speaking"}
  BY DEF Places
<1>1. CASE VoiceConfirm(r)
  <2>1. "confirm" \in Triggers
    BY DEF Triggers
  <2> QED  BY <1>0, <1>1, <1>c, <2>1, NoStoreIsCalm, BeginsKeeps DEF VoiceConfirm
<1>2. CASE RouteConfirm(r)
  <2>0. req[r].at # "speaking" /\ UNCHANGED turn
    BY <1>2 DEF RouteConfirm
  <2>1. CASE Stores(r, ReduceStt(head, "blocked")) /\ Routes(r, "confirm", "closing")
    BY <1>0, <1>c, <2>0, <2>1, SttIsKept, GoesKeeps
  <2>2. CASE Stores(r, head) /\ Routes(r, "confirm", "confirming")
    BY <1>0, <1>c, <2>0, <2>2, SameIsKept, GoesKeeps
  <2> QED  BY <1>2, <2>1, <2>2 DEF RouteConfirm, Confirm
<1>3. CASE Confirms(r)
  <2>0. req[r].at # "speaking" /\ UNCHANGED turn
    BY <1>3 DEF Confirms
  <2>1. CASE /\ \E p \in PendingIn(head.approval_queue), d \in {"approved", "denied"} :
                   Stores(r, ReduceProposalReview(head, p, d))
             /\ Goes(r, "confirmed")
    <3>1. PICK p \in PendingIn(head.approval_queue), d \in {"approved", "denied"} :
             Stores(r, ReduceProposalReview(head, p, d))
      BY <2>1
    <3>2. PendingIn(head.approval_queue) \subseteq Proposals
      BY <1>0 DEF PendingIn, Good, HeadStates
    <3>3. Keeps(head, ReduceProposalReview(head, p, d))
      BY <1>0, <3>2, ProposalReviewKeeps
    <3>4. CalmStore
      BY <1>0, <3>1, <3>3, StoreIsCalm
    <3> QED  BY <1>c, <2>0, <2>1, <3>4, GoesKeeps
  <2>2. CASE Stores(r, head) /\ Goes(r, "responding")
    BY <1>0, <1>c, <2>0, <2>2, SameIsKept, GoesKeeps
  <2> QED  BY <1>3, <2>1, <2>2 DEF Confirms
<1> QED  BY <1>1, <1>2, <1>3

(* What is left to say after one event of speech.                          *)
LEMMA SaidTail ==
    ASSUME NEW say \in Says, say # <<>>
    PROVE  /\ Head(say) \in SpeechStatuses /\ Tail(say) \in Says
           /\ Head(say) = "speaking" => Tail(say) = <<"complete">>
           /\ Head(say) \in {"queued", "synthesizing"} => say # <<"complete">>
           /\ Len(say) = 1 <=> Tail(say) = <<>>
<1>1. CASE say = <<"muted">>
  BY <1>1 DEF Says, SpeechStatuses
<1>2. CASE say = <<"failure">>
  BY <1>2 DEF Says, SpeechStatuses
<1>3. CASE say = <<"complete">>
  BY <1>3 DEF Says, SpeechStatuses
<1>4. CASE say = <<"speaking", "complete">>
  BY <1>4 DEF Says, SpeechStatuses
<1>5. CASE say = <<"synthesizing", "speaking", "complete">>
  BY <1>5 DEF Says, SpeechStatuses
<1>6. CASE say = Spoken
  BY <1>6 DEF Says, SpeechStatuses, Spoken
<1> QED  BY <1>1, <1>2, <1>3, <1>4, <1>5, <1>6 DEF Says

(* Speech that begins has its end before it; speech that ends leaves the   *)
(* lamp off, or will, whoever else was speaking.                           *)
LEMMA ApplyVoiceKeeps ==
    ASSUME HeadInv, NEW r \in Requests, ApplyVoice(r)
    PROVE  HeadInv'
<1> DEFINE say == req[r].say
           status == Head(say)
           at == IF Len(say) = 1 THEN "closing" ELSE req[r].at
           w == [req[r] EXCEPT !.say = Tail(say), !.at = at]
<1>1. /\ req[r].at = "speaking" /\ Stores(r, ReduceTts(head, status)) /\ UNCHANGED turn
      /\ req' = [req EXCEPT ![r].say = Tail(@), ![r].at = IF Len(req[r].say) = 1 THEN "closing" ELSE @]
  BY DEF ApplyVoice
<1>2. req \in [Requests -> Works] /\ req[r] \in Works /\ say # <<>> /\ say \in Says
      /\ Marked /\ Good(head) /\ turn \in Turns
  BY <1>1 DEF HeadInv, Marked, Works
<1>3. /\ status \in SpeechStatuses /\ Tail(say) \in Says
      /\ status = "speaking" => Tail(say) = <<"complete">>
      /\ status \in {"queued", "synthesizing"} => say # <<"complete">>
      /\ Len(say) = 1 <=> Tail(say) = <<>>
  <2> HIDE DEF say
  <2> QED  BY <1>2, SaidTail DEF status
<1>4. /\ w \in Works /\ w.say = Tail(say) /\ (w.say # <<>> <=> w.at = "speaking")
  BY <1>1, <1>2, <1>3 DEF Works, Places
<1>5. req' = [req EXCEPT ![r] = w]
  BY <1>1, <1>2 DEF Works
<1>6. \A q \in Requests : req'[q] = IF q = r THEN w ELSE req[q]
  <2> HIDE DEF Works, w
  <2> QED  BY <1>2, <1>5
<1>7. req' \in [Requests -> Works] /\ Marked'
  <2>1. req' \in [Requests -> Works]
    <3> HIDE DEF Works, w
    <3> QED  BY <1>2, <1>4, <1>5
  <2>2. Marked'
    <3> HIDE DEF w
    <3> QED  BY <1>2, <1>4, <1>6 DEF Marked
  <2> QED  BY <2>1, <2>2
<1>a. PICK s : s = ReduceTts(head, status)
  OBVIOUS
<1>8. /\ Good(s)
      /\ status # "speaking" => Keeps(head, s)
      /\ status \in {"complete", "muted", "cancelled", "failure"} => s.audio_state # "speaking"
  <2> HIDE DEF status
  <2> QED  BY <1>a, <1>2, <1>3, TtsKeeps
<1>b. Stores(r, s) /\ r \in Writers /\ LateIsGood
  BY <1>1, <1>a DEF Writers, HeadInv
<1>c. \/ head' = s /\ relit' = (relit /\ s.audio_state = "speaking") /\ UNCHANGED late
      \/ late[r] = {} /\ late' = [late EXCEPT ![r] = {s}] /\ UNCHANGED <<head, relit>>
  BY <1>b DEF Stores
<1>d. Good(head') /\ LateIsGood'
  <2>1. CASE head' = s /\ relit' = (relit /\ s.audio_state = "speaking") /\ UNCHANGED late
    BY <1>8, <1>b, <2>1 DEF LateIsGood
  <2>2. CASE late[r] = {} /\ late' = [late EXCEPT ![r] = {s}] /\ UNCHANGED <<head, relit>>
    BY <1>2, <1>8, <1>b, <2>2, SetAside
  <2> QED  BY <1>c, <2>1, <2>2
<1>9. SpeakingWillEnd'
  <2>1. CASE status = "speaking"
    <3>1. req'[r].say = <<"complete">>
      <4> HIDE DEF w, status
      <4> QED  BY <1>3, <1>4, <1>6, <2>1
    <3> QED  BY <3>1 DEF SpeakingWillEnd
  <2>2. CASE status \in {"queued", "synthesizing"}
    <3>0. Keeps(head, s)
      <4> HIDE DEF status
      <4> QED  BY <1>8, <2>2
    <3>a. CalmStore
      BY <1>b, <3>0, StoreIsCalm
    <3> SUFFICES ASSUME head'.audio_state = "speaking", ~ OffIsLate', ~ relit'
                 PROVE  \E q \in Requests : req'[q].say = <<"complete">>
      BY DEF SpeakingWillEnd, OffIsLate
    <3>1. PICK q \in Requests : req[q].say = <<"complete">>
      BY <3>a DEF HeadInv, SpeakingWillEnd, OffIsLate, CalmStore
    <3>2. q # r
      <4> HIDE DEF status
      <4> QED  BY <1>3, <2>2, <3>1
    <3> QED  BY <1>6, <3>1, <3>2
  <2>3. CASE status \in {"complete", "muted", "cancelled", "failure"}
    <3>1. s.audio_state # "speaking"
      <4> HIDE DEF status
      <4> QED  BY <1>8, <2>3
    <3>2. CASE head' = s
      BY <3>1, <3>2 DEF SpeakingWillEnd
    <3>3. CASE late[r] = {} /\ late' = [late EXCEPT ![r] = {s}] /\ UNCHANGED <<head, relit>>
      <4>1. OffIsLate'
        BY <1>8, <1>b, <3>1, <3>3, SetAside
      <4> QED  BY <4>1 DEF SpeakingWillEnd, OffIsLate
    <3> QED  BY <1>c, <3>2, <3>3
  <2> HIDE DEF status
  <2> QED  BY <1>3, <2>1, <2>2, <2>3 DEF SpeechStatuses
<1> QED  BY <1>1, <1>2, <1>7, <1>9, <1>d DEF HeadInv

LEMMA SpeakingKeeps ==
    ASSUME HeadInv, Speaking
    PROVE  HeadInv'
<1>0. Good(head) /\ turn \in Turns /\ req \in [Requests -> Works]
  BY DEF HeadInv
<1> PICK r \in Requests : VoiceSpeak(r) \/ VoiceCommand(r) \/ ApplyVoice(r)
  BY DEF Speaking, GoesOn
<1>1. CASE VoiceSpeak(r)
  <2>1. PICK say \in SpeechEvents(head) :
           req' = [req EXCEPT ![r] = [NoWork EXCEPT !.at = "speaking", !.trigger = "speak", !.say = say]]
    BY <1>1 DEF VoiceSpeak
  <2> DEFINE w == [NoWork EXCEPT !.at = "speaking", !.trigger = "speak", !.say = say]
  <2>2. say \in Says /\ say # <<>>
    BY SpeechIsSaid
  <2>3. w \in Works /\ w.say # <<>> /\ w.at = "speaking"
    BY <2>2 DEF NoWork, Works, Places, Triggers
  <2>4. req' = [req EXCEPT ![r] = w] /\ req[r].at # "speaking" /\ NoStore /\ UNCHANGED turn
    BY <1>1, <2>1 DEF VoiceSpeak
  <2> HIDE DEF w
  <2>5. CalmRequests
    BY <2>3, <2>4, OneChanges
  <2> QED  BY <1>0, <2>4, <2>5, NoStoreIsCalm, CalmStep
<1>2. CASE VoiceCommand(r)
  <2>1. "command" \in Triggers /\ "routing" \in Places \ {"speaking"}
    BY DEF Triggers, Places
  <2> QED  BY <1>0, <1>2, <2>1, NoStoreIsCalm, BeginsKeeps DEF VoiceCommand
<1>3. CASE ApplyVoice(r)
  BY <1>3, ApplyVoiceKeeps
<1> QED  BY <1>1, <1>2, <1>3

(* A store that comes late turns the lamp on only as one that did, and     *)
(* what will turn it off is still there.                                   *)
LEMMA LateStoreKeeps ==
    ASSUME HeadInv, LateStore
    PROVE  HeadInv'
<1>0. LateIsGood
  BY DEF HeadInv
<1>w. PICK w \in Writers : StoresLate(w)
  BY DEF LateStore
<1>1. PICK s \in late[w] :
         /\ head' = s
         /\ relit' = (s.audio_state = "speaking" /\ (relit \/ head.audio_state # "speaking"))
         /\ late' = [late EXCEPT ![w] = {}]
         /\ UNCHANGED <<req, turn>>
  BY <1>w DEF StoresLate, OnlyHead
<1>2. Good(head')
  BY <1>0, <1>1 DEF LateIsGood
<1>3. DOMAIN late' = Writers /\ \A v \in Writers : late'[v] = IF v = w THEN {} ELSE late[v]
  BY <1>0, <1>1 DEF LateIsGood
<1>4. LateIsGood'
  BY <1>0, <1>1, <1>3 DEF LateIsGood
<1>5. SpeakingWillEnd'
  <2> SUFFICES ASSUME s.audio_state = "speaking", ~ relit, head.audio_state = "speaking"
               PROVE  (\E r \in Requests : req'[r].say = <<"complete">>) \/ OffIsLate'
    BY <1>1 DEF SpeakingWillEnd, OffIsLate
  <2>1. CASE \E r \in Requests : req[r].say = <<"complete">>
    BY <1>1, <2>1
  <2>2. CASE OffIsLate
    <3>v. PICK v \in Writers : \E t \in late[v] : t.audio_state # "speaking"
      BY <2>2 DEF OffIsLate
    <3>1. PICK t \in late[v] : t.audio_state # "speaking"
      BY <3>v
    <3>2. v # w
      BY <1>0, <3>1 DEF LateIsGood
    <3> QED  BY <1>3, <3>1, <3>2 DEF OffIsLate
  <2> QED  BY <2>1, <2>2 DEF HeadInv, SpeakingWillEnd, OffIsLate
<1>6. CalmRequests
  BY <1>1, NoneChanges
<1> QED  BY <1>1, <1>2, <1>4, <1>5, <1>6 DEF HeadInv, CalmRequests

LEMMA HeadInitHolds ==
    ASSUME HeadInit
    PROVE  HeadInv
<1>1. head = baseline_state
  BY DEF HeadInit
<1>2. IsFiniteSet(Proposals) /\ IsFiniteSet(Plans)
  BY QueuesAssumption
<1>3. Cardinality(Proposals) \in Nat /\ Cardinality(Plans) \in Nat
  BY <1>2, FS_CardinalityType
<1>4. head \in HeadStates
  BY <1>1, <1>3 DEF baseline_state, HeadStates, SourceStates, ListenModes
<1>5. /\ PendingIn(head.approval_queue) = {} /\ PendingIn(head.tool_plan_queue) = {}
      /\ Cardinality({}) = 0
  BY <1>1, FS_EmptySet DEF baseline_state, PendingIn
<1>6. Counted(head)
  BY <1>1, <1>5 DEF Counted, Pending, baseline_state
<1>7. Respects(head) /\ head.audio_state # "speaking"
  BY <1>1 DEF Respects, baseline_state
<1>8. NoWork \in Works /\ NoWork.say = <<>> /\ NoWork.at # "speaking"
  BY DEF NoWork, Works, Places, Triggers, Says
<1>9. req \in [Requests -> Works] /\ Marked
  BY <1>8 DEF HeadInit, Marked
<1>10. turn \in Turns
  BY DEF HeadInit, NoTurn, Turns, Writers
<1>11. LateIsGood
  BY DEF HeadInit, LateIsGood
<1> QED  BY <1>4, <1>6, <1>7, <1>9, <1>10, <1>11 DEF HeadInv, Good, SpeakingWillEnd

LEMMA HeadStepKeeps ==
    ASSUME HeadInv, [HeadNext]_headVars
    PROVE  HeadInv'
<1>1. CASE Operator
  BY <1>1, OperatorKeeps
<1>2. CASE Listening
  BY <1>2, ListeningKeeps
<1>3. CASE Commanding
  BY <1>3, CommandingKeeps, ClosingKeeps DEF Commanding, GoesOn
<1>4. CASE Confirming
  BY <1>4, ConfirmingKeeps, ClosingKeeps DEF Confirming, GoesOn
<1>5. CASE Speaking
  BY <1>5, SpeakingKeeps
<1>6. CASE LateStore
  BY <1>6, LateStoreKeeps
<1>7. CASE UNCHANGED headVars
  BY <1>7 DEF headVars, HeadInv, Marked, LateIsGood, SpeakingWillEnd
<1> QED  BY <1>1, <1>2, <1>3, <1>4, <1>5, <1>6, <1>7 DEF HeadNext

LEMMA HeadInvHolds == HeadSpec => []HeadInv
<1>1. HeadInit => HeadInv
  BY HeadInitHolds
<1>2. HeadInv /\ [HeadNext]_headVars => HeadInv'
  BY HeadStepKeeps
<1> QED  BY <1>1, <1>2, PTL DEF HeadSpec

-----------------------------------------------------------------------------
(* What follows from the invariant.                                        *)

LEMMA PendingIsShownFollows ==
    ASSUME HeadInv
    PROVE  PendingIsShown
<1> DEFINE waiting == Cardinality(PendingIn(head.approval_queue))
                      + Cardinality(PendingIn(head.tool_plan_queue))
<1>1. /\ head.pending_approval_count = waiting
      /\ head.tool_queue_count + head.memory_proposal_count = waiting
      /\ "awaiting_approval" \in {head.authority_state, head.cognition_state} => waiting > 0
  BY DEF HeadInv, Good, Counted, Pending
<1> HIDE DEF waiting
<1>2. /\ ApprovalIndicator(head) = waiting
      /\ ToolIndicator(head).count + MemoryIndicator(head) = waiting
  BY <1>1 DEF ApprovalIndicator, ToolIndicator, MemoryIndicator
<1>3. waiting > 0 => ActivityLed(head) \in {"awaiting_approval", "standby", "failure", "blocked"}
  BY <1>1 DEF ActivityLed, Awaiting
<1> QED  BY <1>1, <1>2, <1>3 DEF PendingIsShown, waiting

(* The two cascades agree in every state there is, reachable or not.       *)
LEMMA CascadesAgree == head \in HeadStates => PanelAgreesWithLamps
<1> DEFINE label == Precedence(head)
           lamp == ActivityLed(head)
<1> SUFFICES ASSUME head \in HeadStates, label \notin {"mic_hardware_cutoff", "camera_hardware_cutoff"}
             PROVE  /\ label = "governance_block" <=> lamp = "blocked"
                    /\ label = "provider_failure" <=> lamp = "failure"
                    /\ label \in {"standby", "awaiting_approval"}
                       \/ lamp \in {"standby", "awaiting_approval"} => label = lamp
  BY DEF PanelAgreesWithLamps
<1>1. CASE Blocked(head)
  BY <1>1 DEF Precedence, ActivityLed
<1>2. CASE ~Blocked(head) /\ Failing(head)
  BY <1>2 DEF Precedence, ActivityLed
<1>3. CASE ~Blocked(head) /\ ~Failing(head) /\ ~Awake(head)
  BY <1>3 DEF Precedence, ActivityLed
<1>4. CASE ~Blocked(head) /\ ~Failing(head) /\ Awake(head) /\ Awaiting(head)
  BY <1>4 DEF Precedence, ActivityLed
<1>5. CASE ~Blocked(head) /\ ~Failing(head) /\ Awake(head) /\ ~Awaiting(head)
  BY <1>5 DEF Precedence, ActivityLed
<1> QED  BY <1>1, <1>2, <1>3, <1>4, <1>5

(* The counters, the lamps and the panel say what the queues hold, and     *)
(* agree with each other, after every event in any order: reducer.py,      *)
(* leds.py and panel.py over what the handlers of brain.py apply.          *)
THEOREM PanelIsTrueHolds == HeadSpec => []PanelIsTrue
<1>1. HeadInv => HeadTypeOK
  BY DEF HeadInv, Good, LateIsGood, HeadTypeOK, Works, Turns, Says
<1>2. HeadInv => head \in HeadStates
  BY DEF HeadInv, Good
<1>3. HeadInv => PanelIsTrue
  BY <1>1, <1>2, PendingIsShownFollows, CascadesAgree DEF PanelIsTrue
<1> QED  BY <1>3, HeadInvHolds, PTL

(* However switches, answers and recordings interleave, a head that is     *)
(* muted or in standby is not shown speaking, and one whose microphone is  *)
(* cut off is not shown listening: reducer.py's guards at the last event,  *)
(* in every copy of the state that is stored, however late.                *)
THEOREM SwitchesAreRespected == HeadSpec => []AudioRespectsSwitches
<1>1. HeadInv => AudioRespectsSwitches
  BY DEF HeadInv, Good, Respects, AudioRespectsSwitches
<1> QED  BY <1>1, HeadInvHolds, PTL

(* With any number of answers spoken at once, and states stored at once    *)
(* or late, a speaking lamp has a request that will apply the end of its   *)
(* speech, or a state with the lamp off that is still to be stored, or was *)
(* turned on by a store that came late and has not gone out since.         *)
THEOREM SpeechWillEnd == HeadSpec => []SpeakingWillEnd
<1>1. HeadInv => SpeakingWillEnd
  BY DEF HeadInv
<1> QED  BY <1>1, HeadInvHolds, PTL

=============================================================================
