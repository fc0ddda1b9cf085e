------------------------- MODULE SessionStoreProofs --------------------------
(***************************************************************************)
(* The session store keeps its invariants for every number of sessions,    *)
(* turns and messages, however its callers interleave; it implements       *)
(* TurnFence, and the outcome of a turn is final.                          *)
(***************************************************************************)
EXTENDS SessionStoreFence, SequenceTheorems, TLAPS

(***************************************************************************)
(* The store keeps its invariants.                                         *)
(***************************************************************************)

(* What append on a bounded deque returns: the new item last, before it    *)
(* the old items with at most the oldest one gone.                         *)
LEMMA PushFacts ==
    ASSUME NEW T, NEW deque \in Seq(T), NEW item \in T, NEW limit \in Nat \ {0}
    PROVE  /\ Push(deque, item, limit) \in Seq(T)
           /\ Push(deque, item, limit)[Len(Push(deque, item, limit))] = item
           /\ \E d \in {0, 1} :
                 /\ Len(Push(deque, item, limit)) = Len(deque) + 1 - d
                 /\ d <= Len(deque)
                 /\ \A i \in 1 .. Len(deque) - d :
                       Push(deque, item, limit)[i] = deque[i + d]
<1>1. CASE Len(deque) < limit
  <2>1. Push(deque, item, limit) = Append(deque, item)
    BY <1>1 DEF Push
  <2>2. QED
    BY <2>1
<1>2. CASE ~(Len(deque) < limit)
  <2>1. Push(deque, item, limit) = Append(Tail(deque), item)
    BY <1>2 DEF Push
  <2>2. /\ deque # <<>>
        /\ Tail(deque) \in Seq(T)
        /\ Len(Tail(deque)) = Len(deque) - 1
        /\ \A i \in 1 .. Len(deque) - 1 : Tail(deque)[i] = deque[i + 1]
    BY <1>2
  <2>3. /\ Append(Tail(deque), item) \in Seq(T)
        /\ Len(Append(Tail(deque), item)) = Len(deque)
        /\ Append(Tail(deque), item)[Len(deque)] = item
        /\ \A i \in 1 .. Len(deque) - 1 : Append(Tail(deque), item)[i] = deque[i + 1]
    BY <2>2
  <2>4. 1 \in {0, 1} /\ 1 <= Len(deque) /\ Len(deque) = Len(deque) + 1 - 1
    BY <2>2
  <2>5. QED
    BY <2>1, <2>3, <2>4
<1>3. QED
  BY <1>1, <1>2
-----------------------------------------------------------------------------
(* Cancelling keeps the turns, only live ones change their stage. *)
LEMMA CancelledTurnsType ==
    ASSUME TypeOK, NEW s \in SessionIds, NEW hit
    PROVE  /\ CancelledTurns(s, hit) \in Seq(TurnSnapshot)
           /\ Len(CancelledTurns(s, hit)) = Len(turns[s])
           /\ \A i \in DOMAIN turns[s] :
                 /\ CancelledTurns(s, hit)[i].id = turns[s][i].id
                 /\ CancelledTurns(s, hit)[i].generation = turns[s][i].generation
                 /\ i \notin LiveTurns(s) => CancelledTurns(s, hit)[i].stage = turns[s][i].stage
                 /\ i \in hit /\ i \in LiveTurns(s) => CancelledTurns(s, hit)[i].stage = "cancelled"
<1>1. turns[s] \in Seq(TurnSnapshot)
  BY DEF TypeOK
<1>2. ASSUME NEW i \in DOMAIN turns[s]
      PROVE  CancelledTurns(s, hit)[i] =
                IF i \in hit \cap LiveTurns(s) THEN [turns[s][i] EXCEPT !.stage = "cancelled"]
                                               ELSE turns[s][i]
  BY DEF CancelledTurns
<1>3. ASSUME NEW i \in DOMAIN turns[s]
      PROVE  /\ turns[s][i] \in TurnSnapshot
             /\ CancelledTurns(s, hit)[i] \in TurnSnapshot
  <2>1. turns[s][i] \in TurnSnapshot
    BY <1>1
  <2>2. [turns[s][i] EXCEPT !.stage = "cancelled"] \in TurnSnapshot
    BY <2>1 DEF TurnSnapshot, TurnStage, TerminalStages
  <2>3. QED
    BY <1>2, <2>1, <2>2
<1>4. /\ CancelledTurns(s, hit) \in Seq(TurnSnapshot)
      /\ Len(CancelledTurns(s, hit)) = Len(turns[s])
  <2>1. Len(turns[s]) \in Nat /\ DOMAIN turns[s] = 1 .. Len(turns[s])
    BY <1>1
  <2>2. CancelledTurns(s, hit) \in [1 .. Len(turns[s]) -> TurnSnapshot]
    BY <1>3, <2>1 DEF CancelledTurns
  <2>3. QED
    BY <2>1, <2>2
<1>5. QED
  BY <1>2, <1>3, <1>4 DEF TurnSnapshot

(* Every step keeps the types. *)
LEMMA TypeStep == TypeOK /\ [Next]_vars => TypeOK'
<1> SUFFICES ASSUME TypeOK, [Next]_vars
             PROVE  TypeOK'
  OBVIOUS
<1> USE BoundsArePositive
<1>1. ASSUME NEW s \in SessionIds, CreateSession(s)
      PROVE  TypeOK'
  BY <1>1 DEF TypeOK, CreateSession, Touched, Stored
<1>2. ASSUME NEW s \in SessionIds, NEW oldest \in SessionIds,
             CreateSessionEvicting(s, oldest) \/ CreateSessionRefused(oldest)
      PROVE  TypeOK'
  <2>1. older' \subseteq SessionIds \X SessionIds
    BY <1>2 DEF TypeOK, CreateSessionEvicting, CreateSessionRefused, Touched, Stored
  <2>2. turns' = [turns EXCEPT ![oldest] = <<>>] /\ <<>> \in Seq(TurnSnapshot)
    BY <1>2 DEF CreateSessionEvicting, CreateSessionRefused
  <2>3. history' = [history EXCEPT ![oldest] = <<>>] /\ <<>> \in Seq(ConversationMessage)
    BY <1>2 DEF CreateSessionEvicting, CreateSessionRefused
  <2>4. /\ status' \in [SessionIds -> {"unused", "active", "closed", "evicted"}]
        /\ pending' \in [SessionIds -> BOOLEAN]
        /\ UNCHANGED <<generation, tokens, turn_ids>>
    BY <1>2 DEF TypeOK, CreateSessionEvicting, CreateSessionRefused
  <2>5. QED
    BY <2>1, <2>2, <2>3, <2>4 DEF TypeOK
<1>3. ASSUME NEW s \in SessionIds, NEW stage \in LiveStages, NEW with_text \in BOOLEAN,
             BeginTurn(s, stage, with_text)
      PROVE  TypeOK'
  <2> DEFINE turn == [id |-> turn_ids + 1, generation |-> generation[s], stage |-> stage]
             message == [role |-> "user", turn |-> turn_ids + 1]
  <2>1. turn \in TurnSnapshot /\ message \in ConversationMessage
        /\ TokenOf(s, turn) \in TurnToken
    BY DEF TypeOK, TurnSnapshot, TurnStage, ConversationMessage, Roles, TokenOf, TurnToken
  <2>2. Push(turns[s], turn, MaxTurns) \in Seq(TurnSnapshot)
    BY <2>1, PushFacts DEF TypeOK
  <2>3. Push(history[s], message, MaxHistory) \in Seq(ConversationMessage)
    BY <2>1, PushFacts DEF TypeOK
  <2> HIDE DEF turn, message
  <2>4. /\ turns' = [turns EXCEPT ![s] = Push(turns[s], turn, MaxTurns)]
        /\ tokens' = tokens \cup {TokenOf(s, turn)}
        /\ history' = history
           \/ history' = [history EXCEPT ![s] = Push(history[s], message, MaxHistory)]
        /\ turn_ids' = turn_ids + 1
        /\ older' = Touched(s)
        /\ UNCHANGED <<status, generation, pending>>
    BY <1>3 DEF BeginTurn, turn, message
  <2>5. older' \subseteq SessionIds \X SessionIds
    BY <2>4 DEF Touched, Stored, TypeOK
  <2>6. turns' \in [SessionIds -> Seq(TurnSnapshot)]
    BY <2>2, <2>4 DEF TypeOK
  <2>7. history' \in [SessionIds -> Seq(ConversationMessage)]
    BY <2>3, <2>4 DEF TypeOK
  <2>8. QED
    BY <2>1, <2>4, <2>5, <2>6, <2>7 DEF TypeOK
<1>4. ASSUME NEW s \in SessionIds, NEW clear_history \in BOOLEAN,
             UpdateContext(s, clear_history)
      PROVE  TypeOK'
  BY <1>4 DEF TypeOK, UpdateContext, Touched, Stored
<1>5. ASSUME NEW s \in SessionIds, NEW waiting \in BOOLEAN,
             SetPendingAccountRequest(s, waiting)
      PROVE  TypeOK'
  BY <1>5 DEF TypeOK, SetPendingAccountRequest, Touched, Stored
<1>6. ASSUME NEW s \in SessionIds, Cancel(s)
      PROVE  TypeOK'
  <2>1. CancelledTurns(s, DOMAIN turns[s]) \in Seq(TurnSnapshot)
    BY CancelledTurnsType
  <2>2. QED
    BY <1>6, <2>1 DEF TypeOK, Cancel, Touched, Stored
<1>7. ASSUME NEW s \in SessionIds, NEW id, CancelTurn(s, id)
      PROVE  TypeOK'
  <2>1. PICK i \in LiveTurns(s) : turns' = [turns EXCEPT ![s] = CancelledTurns(s, {i})]
    BY <1>7 DEF CancelTurn
  <2>2. CancelledTurns(s, {i}) \in Seq(TurnSnapshot)
    BY CancelledTurnsType
  <2>3. older' \subseteq SessionIds \X SessionIds
    BY <1>7 DEF TypeOK, CancelTurn, Touched, Stored
  <2>4. QED
    BY <1>7, <2>1, <2>2, <2>3 DEF TypeOK, CancelTurn
<1>8. ASSUME NEW s \in SessionIds, CloseSession(s)
      PROVE  TypeOK'
  <2>1. CancelledTurns(s, DOMAIN turns[s]) \in Seq(TurnSnapshot)
    BY CancelledTurnsType
  <2>2. older' \subseteq SessionIds \X SessionIds
    BY <1>8 DEF TypeOK, CloseSession, Touched, Stored
  <2>3. turns' \in [SessionIds -> Seq(TurnSnapshot)]
    BY <1>8, <2>1 DEF TypeOK, CloseSession
  <2>4. history' \in [SessionIds -> Seq(ConversationMessage)]
    BY <1>8 DEF TypeOK, CloseSession
  <2>5. QED
    BY <1>8, <2>2, <2>3, <2>4 DEF TypeOK, CloseSession
<1>9. ASSUME NEW tok \in tokens, NEW stage \in TurnStage, Transition(tok, stage)
      PROVE  TypeOK'
  <2>1. tok.session \in SessionIds
    BY DEF TypeOK, TurnToken
  <2>2. PICK i \in LiveTurns(tok.session) :
           turns' = [turns EXCEPT ![tok.session][i].stage = stage]
    BY <1>9 DEF Transition
  <2>3. /\ turns[tok.session] \in Seq(TurnSnapshot)
        /\ i \in DOMAIN turns[tok.session]
    BY <2>1 DEF TypeOK, LiveTurns
  <2>4. [turns[tok.session][i] EXCEPT !.stage = stage] \in TurnSnapshot
    <3>1. turns[tok.session][i] \in TurnSnapshot
      BY <2>3
    <3>2. QED
      BY <3>1 DEF TurnSnapshot
  <2>5. [turns[tok.session] EXCEPT ![i].stage = stage] \in Seq(TurnSnapshot)
    BY <2>3, <2>4
  <2>6. turns' \in [SessionIds -> Seq(TurnSnapshot)]
    BY <2>1, <2>2, <2>5 DEF TypeOK
  <2>7. QED
    BY <1>9, <2>1, <2>6 DEF TypeOK, Transition, Touched, Stored
<1>10. ASSUME NEW tok \in tokens, NEW role \in Roles, AppendMessage(tok, role)
       PROVE  TypeOK'
  <2> DEFINE message == [role |-> role, turn |-> tok.turn]
  <2>1. tok.session \in SessionIds /\ message \in ConversationMessage
    BY DEF TypeOK, TurnToken, ConversationMessage
  <2>2. Push(history[tok.session], message, MaxHistory) \in Seq(ConversationMessage)
    BY <2>1, PushFacts DEF TypeOK
  <2>3. QED
    BY <1>10, <2>1, <2>2 DEF TypeOK, AppendMessage, Touched, Stored
<1>11. ASSUME NEW tok \in tokens, NEW stage \in TerminalStages, Terminalize(tok, stage)
       PROVE  TypeOK'
  <2>1. tok.session \in SessionIds /\ stage \in TurnStage
    BY DEF TypeOK, TurnToken, TurnStage
  <2>2. QED
    BY <1>7, <1>9, <1>11, <2>1 DEF Terminalize
<1>12. CASE UNCHANGED vars
  BY <1>12 DEF TypeOK, vars
<1>13. QED
  BY <1>1, <1>2, <1>3, <1>4, <1>5, <1>6, <1>7, <1>8, <1>9, <1>10, <1>11, <1>12
     DEF Next, SessionCall, TokenCall, SetTranscript, CommitAssistantText, Roles

(* The session store keeps its types. *)
THEOREM TypeCorrect == Spec => []TypeOK
<1>1. Init => TypeOK
  BY DEF Init, TypeOK
<1>2. QED
  BY <1>1, TypeStep, PTL DEF Spec
-----------------------------------------------------------------------------

LEMMA InitInvariant == Init => IInv
  <1> SUFFICES ASSUME Init PROVE IInv
    OBVIOUS
  <1>1. TypeOK
    BY DEF Init, TypeOK
  <1>2. TokensAreDistinct /\ TurnsAreOrdered /\ UnfinishedTurnIsCurrent
    BY DEF Init, TokensAreDistinct, TurnsAreOrdered, UnfinishedTurnIsCurrent, LiveTurns
  <1>3. HistoryIsOfRememberedTurns /\ HistoryFollowsTurns /\ ClosedSessionIsEmpty
    BY DEF Init, HistoryIsOfRememberedTurns, HistoryFollowsTurns, ClosedSessionIsEmpty
  <1>4. QED
    BY <1>1, <1>2, <1>3 DEF IInv

(* A step that changes neither turns nor tokens nor generations, and only  *)
(* opens unused sessions, keeps what the invariant says of turns.          *)
LEMMA TurnsUntouched ==
    ASSUME IInv, TypeOK', UNCHANGED <<generation, turns, tokens, turn_ids>>,
           \A s \in SessionIds : status[s] = "active" => status'[s] = "active",
           \A s \in SessionIds : status[s] # "unused" => status'[s] # "unused"
    PROVE  TokensAreDistinct' /\ TurnsAreOrdered' /\ UnfinishedTurnIsCurrent'
<1>1. TokensAreDistinct'
  BY DEF IInv, TokensAreDistinct, TypeOK, TurnToken
<1>2. TurnsAreOrdered'
  BY DEF IInv, TurnsAreOrdered
<1>3. UnfinishedTurnIsCurrent'
  BY DEF IInv, UnfinishedTurnIsCurrent, LiveTurns
<1>4. QED
  BY <1>1, <1>2, <1>3

(* A step that only marks turns of one session as finished, after raising  *)
(* its generation, keeps what the invariant says of turns.                 *)
LEMMA TurnsCancelled ==
    ASSUME IInv, TypeOK', NEW s \in SessionIds, NEW hit,
           LiveTurns(s) \subseteq hit,
           s \in Stored,
           turns' = [turns EXCEPT ![s] = CancelledTurns(s, hit)],
           generation' = [generation EXCEPT ![s] = @ + 1],
           \A other \in SessionIds \ {s} : status'[other] = status[other],
           status'[s] # "unused",
           UNCHANGED <<tokens, turn_ids>>
    PROVE  /\ TokensAreDistinct' /\ TurnsAreOrdered' /\ UnfinishedTurnIsCurrent'
           /\ Len(turns'[s]) = Len(turns[s])
           /\ \A i \in DOMAIN turns[s] : turns'[s][i].id = turns[s][i].id
<1> USE DEF IInv
<1>1. turns'[s] = CancelledTurns(s, hit)
  BY DEF TypeOK
<1>2. /\ turns[s] \in Seq(TurnSnapshot) /\ turns'[s] \in Seq(TurnSnapshot)
      /\ Len(turns'[s]) = Len(turns[s])
      /\ DOMAIN turns'[s] = DOMAIN turns[s]
  <2>1. TypeOK
    OBVIOUS
  <2>2. CancelledTurns(s, hit) \in Seq(TurnSnapshot)
        /\ Len(CancelledTurns(s, hit)) = Len(turns[s])
    BY <2>1, CancelledTurnsType
  <2>3. turns[s] \in Seq(TurnSnapshot)
    BY <2>1 DEF TypeOK
  <2>4. QED
    BY <1>1, <2>2, <2>3
<1>3. \A i \in DOMAIN turns[s] :
         /\ turns'[s][i].id = turns[s][i].id
         /\ turns'[s][i].generation = turns[s][i].generation
         /\ turns'[s][i].stage \notin LiveStages
  <2> TAKE i \in DOMAIN turns[s]
  <2>1. i \notin LiveTurns(s) => turns'[s][i].stage \notin LiveStages
    BY <1>1, CancelledTurnsType DEF LiveTurns
  <2>2. i \in LiveTurns(s) => turns'[s][i].stage \notin LiveStages
    BY <1>1, CancelledTurnsType DEF LiveStages
  <2>3. QED
    BY <1>1, <2>1, <2>2, CancelledTurnsType
<1>4. TokensAreDistinct'
  BY DEF TokensAreDistinct, TypeOK, TurnToken
<1>5. TurnsAreOrdered'
  BY <1>2, <1>3 DEF TurnsAreOrdered, TokenOf, TypeOK
<1>6. UnfinishedTurnIsCurrent'
  <2>1. LiveTurns(s)' = {}
    BY <1>2, <1>3 DEF LiveTurns
  <2>2. ASSUME NEW other \in SessionIds \ {s}
        PROVE  /\ turns'[other] = turns[other] /\ generation'[other] = generation[other]
               /\ LiveTurns(other)' = LiveTurns(other)
    BY DEF TypeOK, LiveTurns
  <2>3. QED
    BY <2>1, <2>2 DEF UnfinishedTurnIsCurrent
<1>7. QED
  BY <1>2, <1>3, <1>4, <1>5, <1>6

(* Turns that keep their identifiers keep what the invariant says of the   *)
(* history.                                                                *)
LEMMA HistoryUntouched ==
    ASSUME IInv, UNCHANGED <<history, pending>>,
           \A s \in SessionIds :
              /\ Len(turns'[s]) = Len(turns[s])
              /\ turns[s] # <<>> => /\ turns'[s] # <<>>
                                    /\ turns'[s][Len(turns[s])].id = turns[s][Len(turns[s])].id,
           \A s \in SessionIds : status[s] = "active" => status'[s] = "active"
    PROVE  HistoryIsOfRememberedTurns' /\ HistoryFollowsTurns' /\ ClosedSessionIsEmpty'
<1>1. HistoryIsOfRememberedTurns'
  BY DEF IInv, HistoryIsOfRememberedTurns
<1>2. HistoryFollowsTurns'
  BY DEF IInv, HistoryFollowsTurns
<1>3. ClosedSessionIsEmpty'
  BY DEF IInv, ClosedSessionIsEmpty
<1>4. QED
  BY <1>1, <1>2, <1>3

(* A message of the newest turn, written behind messages that are not      *)
(* newer, keeps the history in turn order.                                 *)
LEMMA HistoryPushed ==
    ASSUME IInv, NEW s \in SessionIds, NEW role \in Roles, NEW t \in Nat,
           history' = [history EXCEPT ![s] =
                         Push(@, [role |-> role, turn |-> t], MaxHistory)],
           \A i \in DOMAIN history[s] : history[s][i].turn <= t,
           turns'[s] # <<>>, turns'[s][Len(turns'[s])].id = t,
           \A other \in SessionIds \ {s} : turns'[other] = turns[other],
           status[s] = "active", UNCHANGED <<status, pending>>
    PROVE  HistoryIsOfRememberedTurns' /\ HistoryFollowsTurns' /\ ClosedSessionIsEmpty'
<1> DEFINE message == [role |-> role, turn |-> t]
           pushed == Push(history[s], message, MaxHistory)
<1>1. history[s] \in Seq(ConversationMessage) /\ message \in ConversationMessage
  BY DEF IInv, TypeOK, ConversationMessage
<1>2. /\ pushed \in Seq(ConversationMessage)
      /\ pushed[Len(pushed)] = message
      /\ \E d \in {0, 1} :
            /\ Len(pushed) = Len(history[s]) + 1 - d
            /\ d <= Len(history[s])
            /\ \A i \in 1 .. Len(history[s]) - d : pushed[i] = history[s][i + d]
  <2> HIDE DEF message
  <2>1. QED
    BY <1>1, PushFacts, BoundsArePositive
<1>3. history'[s] = pushed /\ \A other \in SessionIds \ {s} : history'[other] = history[other]
  BY DEF IInv, TypeOK
<1> HIDE DEF pushed
<1>4. PICK d \in {0, 1} :
         /\ Len(pushed) = Len(history[s]) + 1 - d
         /\ d <= Len(history[s])
         /\ \A i \in 1 .. Len(history[s]) - d : pushed[i] = history[s][i + d]
  BY <1>2
<1>5. Len(history[s]) \in Nat /\ DOMAIN history[s] = 1 .. Len(history[s])
      /\ Len(pushed) \in Nat /\ DOMAIN pushed = 1 .. Len(pushed)
      /\ \A i \in DOMAIN history[s] : history[s][i].turn \in Nat
  <2>1. \A i \in DOMAIN history[s] : history[s][i] \in ConversationMessage
    BY <1>1
  <2>2. QED
    BY <1>1, <1>2, <2>1 DEF ConversationMessage
<1>6. pushed[Len(pushed)].turn = t /\ Len(pushed) = Len(history[s]) + 1 - d
  BY <1>2, <1>4
<1>7. \A i \in DOMAIN pushed : pushed[i].turn <= t
  <2> TAKE i \in DOMAIN pushed
  <2>1. CASE i = Len(pushed)
    BY <2>1, <1>6
  <2>2. CASE i # Len(pushed)
    <3>1. i \in 1 .. Len(history[s]) - d /\ i + d \in DOMAIN history[s]
      BY <2>2, <1>4, <1>5
    <3>2. pushed[i] = history[s][i + d]
      BY <3>1, <1>4
    <3>3. QED
      BY <3>1, <3>2
  <2>3. QED
    BY <2>1, <2>2
<1>8. HistoryIsOfRememberedTurns'
  BY <1>3, <1>7 DEF IInv, HistoryIsOfRememberedTurns
<1>9. HistoryFollowsTurns'
  <2>1. ASSUME NEW i \in DOMAIN pushed, NEW j \in DOMAIN pushed, i < j
        PROVE  pushed[i].turn <= pushed[j].turn
    <3>1. CASE j = Len(pushed)
      BY <3>1, <1>6, <1>7
    <3>2. CASE j # Len(pushed)
      <4>1. /\ i \in 1 .. Len(history[s]) - d /\ j \in 1 .. Len(history[s]) - d
            /\ i + d \in DOMAIN history[s] /\ j + d \in DOMAIN history[s] /\ i + d < j + d
        <5>1. i \in Nat /\ j \in Nat /\ d \in {0, 1} /\ 1 <= i /\ i < j /\ j < Len(pushed)
          BY <2>1, <3>2, <1>5
        <5>2. QED
          BY <5>1, <1>4, <1>5
      <4>2. pushed[i] = history[s][i + d] /\ pushed[j] = history[s][j + d]
        BY <4>1, <1>4
      <4>3. QED
        BY <4>1, <4>2 DEF IInv, HistoryFollowsTurns
    <3>3. QED
      BY <3>1, <3>2
  <2>2. QED
    BY <2>1, <1>3 DEF IInv, HistoryFollowsTurns
<1>10. ClosedSessionIsEmpty'
  BY <1>3 DEF IInv, ClosedSessionIsEmpty
<1>11. QED
  BY <1>8, <1>9, <1>10
-----------------------------------------------------------------------------
LEMMA CreateKeeps ==
    ASSUME IInv, TypeOK', NEW s \in SessionIds, CreateSession(s)
    PROVE  IInv'
<1> USE DEF CreateSession
<1>1. TokensAreDistinct' /\ TurnsAreOrdered' /\ UnfinishedTurnIsCurrent'
  BY TurnsUntouched DEF IInv, TypeOK
<1>2. HistoryIsOfRememberedTurns' /\ HistoryFollowsTurns' /\ ClosedSessionIsEmpty'
  BY HistoryUntouched DEF IInv, TypeOK
<1>3. QED
  BY <1>1, <1>2 DEF IInv

LEMMA EvictionKeeps ==
    ASSUME IInv, TypeOK', NEW s \in SessionIds, NEW oldest \in SessionIds,
           CreateSessionEvicting(s, oldest) \/ CreateSessionRefused(oldest)
    PROVE  IInv'
<1>1. /\ turns'[oldest] = <<>> /\ history'[oldest] = <<>> /\ pending'[oldest] = FALSE
      /\ \A other \in SessionIds \ {oldest} :
            /\ turns'[other] = turns[other] /\ history'[other] = history[other]
            /\ pending'[other] = pending[other]
            /\ status[other] = "active" => status'[other] = "active"
      /\ \A other \in SessionIds : status[other] # "unused" => status'[other] # "unused"
      /\ status'[oldest] # "active"
      /\ UNCHANGED <<generation, tokens, turn_ids>>
  BY DEF CreateSessionEvicting, CreateSessionRefused, IInv, TypeOK, Closed
<1>2. TokensAreDistinct'
  BY <1>1 DEF IInv, TokensAreDistinct, TypeOK, TurnToken
<1>3. TurnsAreOrdered'
  BY <1>1 DEF IInv, TurnsAreOrdered
<1>4. UnfinishedTurnIsCurrent'
  <2>1. LiveTurns(oldest)' = {}
    BY <1>1 DEF LiveTurns
  <2>2. \A other \in SessionIds \ {oldest} : LiveTurns(other)' = LiveTurns(other)
    BY <1>1 DEF LiveTurns
  <2>3. QED
    BY <1>1, <2>1, <2>2 DEF IInv, UnfinishedTurnIsCurrent
<1>5. HistoryIsOfRememberedTurns' /\ HistoryFollowsTurns'
  BY <1>1 DEF IInv, HistoryIsOfRememberedTurns, HistoryFollowsTurns
<1>6. ClosedSessionIsEmpty'
  BY <1>1 DEF IInv, ClosedSessionIsEmpty
<1>7. QED
  BY <1>2, <1>3, <1>4, <1>5, <1>6 DEF IInv

LEMMA UpdateContextKeeps ==
    ASSUME IInv, TypeOK', NEW s \in SessionIds, NEW clear_history \in BOOLEAN,
           UpdateContext(s, clear_history)
    PROVE  IInv'
<1> USE DEF UpdateContext
<1>1. TokensAreDistinct' /\ TurnsAreOrdered' /\ UnfinishedTurnIsCurrent'
  BY TurnsUntouched DEF IInv
<1>2. \A other \in SessionIds : history'[other] \in {history[other], <<>>}
  BY DEF IInv, TypeOK
<1>3. HistoryIsOfRememberedTurns' /\ HistoryFollowsTurns' /\ ClosedSessionIsEmpty'
  BY <1>2 DEF IInv, HistoryIsOfRememberedTurns, HistoryFollowsTurns, ClosedSessionIsEmpty
<1>4. QED
  BY <1>1, <1>3 DEF IInv

LEMMA PendingKeeps ==
    ASSUME IInv, TypeOK', NEW s \in SessionIds, NEW waiting \in BOOLEAN,
           SetPendingAccountRequest(s, waiting)
    PROVE  IInv'
<1> USE DEF SetPendingAccountRequest
<1>1. TokensAreDistinct' /\ TurnsAreOrdered' /\ UnfinishedTurnIsCurrent'
  BY TurnsUntouched DEF IInv
<1>2. HistoryIsOfRememberedTurns' /\ HistoryFollowsTurns'
  BY DEF IInv, HistoryIsOfRememberedTurns, HistoryFollowsTurns
<1>3. ClosedSessionIsEmpty'
  BY DEF IInv, ClosedSessionIsEmpty, TypeOK
<1>4. QED
  BY <1>1, <1>2, <1>3 DEF IInv

LEMMA CancelKeeps ==
    ASSUME IInv, TypeOK', NEW s \in SessionIds, Cancel(s)
    PROVE  IInv'
<1> USE DEF Cancel
<1>1. LiveTurns(s) \subseteq DOMAIN turns[s] /\ status'[s] # "unused"
  BY DEF LiveTurns, Stored
<1>2. /\ TokensAreDistinct' /\ TurnsAreOrdered' /\ UnfinishedTurnIsCurrent'
      /\ Len(turns'[s]) = Len(turns[s])
      /\ \A i \in DOMAIN turns[s] : turns'[s][i].id = turns[s][i].id
  BY <1>1, TurnsCancelled
<1>3. HistoryIsOfRememberedTurns' /\ HistoryFollowsTurns' /\ ClosedSessionIsEmpty'
  <2>1. turns[s] \in Seq(TurnSnapshot) /\ turns'[s] \in Seq(TurnSnapshot)
    BY DEF IInv, TypeOK
  <2>2. turns[s] # <<>> => /\ turns'[s] # <<>>
                          /\ turns'[s][Len(turns[s])].id = turns[s][Len(turns[s])].id
    <3>1. turns[s] # <<>> => Len(turns[s]) \in DOMAIN turns[s]
      BY <2>1
    <3>2. QED
      BY <1>2, <2>1, <3>1
  <2>3. \A other \in SessionIds \ {s} : turns'[other] = turns[other]
    BY DEF IInv, TypeOK
  <2>4. QED
    BY <1>2, <2>2, <2>3, HistoryUntouched
<1>4. QED
  BY <1>2, <1>3 DEF IInv

LEMMA CancelTurnKeeps ==
    ASSUME IInv, TypeOK', NEW s \in SessionIds, NEW id, CancelTurn(s, id)
    PROVE  IInv'
<1>1. PICK i \in LiveTurns(s) : turns' = [turns EXCEPT ![s] = CancelledTurns(s, {i})]
  BY DEF CancelTurn
<1>2. LiveTurns(s) \subseteq {i} /\ status'[s] # "unused"
  BY DEF IInv, UnfinishedTurnIsCurrent, Stored, CancelTurn
<1>3. /\ TokensAreDistinct' /\ TurnsAreOrdered' /\ UnfinishedTurnIsCurrent'
      /\ Len(turns'[s]) = Len(turns[s])
      /\ \A j \in DOMAIN turns[s] : turns'[s][j].id = turns[s][j].id
  BY <1>1, <1>2, TurnsCancelled DEF CancelTurn
<1>4. HistoryIsOfRememberedTurns' /\ HistoryFollowsTurns' /\ ClosedSessionIsEmpty'
  <2>1. turns[s] \in Seq(TurnSnapshot) /\ turns'[s] \in Seq(TurnSnapshot)
    BY DEF IInv, TypeOK
  <2>2. turns[s] # <<>> => /\ turns'[s] # <<>>
                          /\ turns'[s][Len(turns[s])].id = turns[s][Len(turns[s])].id
    <3>1. turns[s] # <<>> => Len(turns[s]) \in DOMAIN turns[s]
      BY <2>1
    <3>2. QED
      BY <1>3, <2>1, <3>1
  <2>3. \A other \in SessionIds \ {s} : turns'[other] = turns[other]
    BY <1>1 DEF IInv, TypeOK
  <2>4. QED
    BY <1>3, <2>2, <2>3, HistoryUntouched DEF CancelTurn
<1>5. QED
  BY <1>3, <1>4 DEF IInv

LEMMA CloseKeeps ==
    ASSUME IInv, TypeOK', NEW s \in SessionIds, CloseSession(s)
    PROVE  IInv'
<1> USE DEF CloseSession
<1>1. /\ LiveTurns(s) \subseteq DOMAIN turns[s]
      /\ status'[s] # "unused"
      /\ \A other \in SessionIds \ {s} : status'[other] = status[other]
  BY DEF LiveTurns, IInv, TypeOK
<1>2. TokensAreDistinct' /\ TurnsAreOrdered' /\ UnfinishedTurnIsCurrent'
  BY <1>1, TurnsCancelled
<1>3. /\ history'[s] = <<>> /\ pending'[s] = FALSE
      /\ \A other \in SessionIds \ {s} :
            /\ turns'[other] = turns[other] /\ history'[other] = history[other]
            /\ pending'[other] = pending[other] /\ status'[other] = status[other]
  BY DEF IInv, TypeOK
<1>4. HistoryIsOfRememberedTurns' /\ HistoryFollowsTurns'
  BY <1>3 DEF IInv, HistoryIsOfRememberedTurns, HistoryFollowsTurns
<1>5. ClosedSessionIsEmpty'
  BY <1>3 DEF IInv, ClosedSessionIsEmpty
<1>6. QED
  BY <1>2, <1>4, <1>5 DEF IInv

LEMMA BeginKeeps ==
    ASSUME IInv, TypeOK', NEW s \in SessionIds, NEW stage \in LiveStages,
           NEW with_text \in BOOLEAN, BeginTurn(s, stage, with_text)
    PROVE  IInv'
<1> DEFINE turn == [id |-> turn_ids + 1, generation |-> generation[s], stage |-> stage]
           pushed == Push(turns[s], turn, MaxTurns)
<1>1. /\ turns[s] \in Seq(TurnSnapshot) /\ turn \in TurnSnapshot
      /\ turn_ids \in Nat
      /\ turn.id = turn_ids + 1 /\ turn.generation = generation[s] /\ turn.stage = stage
  <2>1. turns[s] \in Seq(TurnSnapshot) /\ turn_ids \in Nat /\ generation[s] \in Nat
    BY DEF IInv, TypeOK
  <2>2. QED
    BY <2>1 DEF TurnSnapshot, TurnStage
<1>2. /\ turns'[s] = pushed
      /\ \A other \in SessionIds \ {s} : turns'[other] = turns[other]
      /\ tokens' = tokens \cup {TokenOf(s, turn)}
      /\ turn_ids' = turn_ids + 1
      /\ status[s] = "active" /\ LiveTurns(s) = {}
      /\ UNCHANGED <<status, generation, pending>>
  BY DEF BeginTurn, IInv, TypeOK
<1>3. history' = history
      \/ history' = [history EXCEPT ![s] =
                       Push(@, [role |-> "user", turn |-> turn_ids + 1], MaxHistory)]
  BY DEF BeginTurn
<1>4. /\ pushed \in Seq(TurnSnapshot)
      /\ pushed[Len(pushed)] = turn
      /\ \E d \in {0, 1} :
            /\ Len(pushed) = Len(turns[s]) + 1 - d
            /\ d <= Len(turns[s])
            /\ \A i \in 1 .. Len(turns[s]) - d : pushed[i] = turns[s][i + d]
  <2> HIDE DEF turn
  <2>1. QED
    BY <1>1, PushFacts, BoundsArePositive
<1> HIDE DEF turn, pushed
<1>5. PICK d \in {0, 1} :
         /\ Len(pushed) = Len(turns[s]) + 1 - d
         /\ d <= Len(turns[s])
         /\ \A i \in 1 .. Len(turns[s]) - d : pushed[i] = turns[s][i + d]
  BY <1>4
<1>6. /\ Len(turns[s]) \in Nat /\ DOMAIN turns[s] = 1 .. Len(turns[s])
      /\ Len(pushed) \in Nat /\ DOMAIN pushed = 1 .. Len(pushed)
  BY <1>1, <1>4
(* The turns before the new one are old turns, in their old order. *)
<1>7. \A i \in DOMAIN pushed :
         i # Len(pushed) => i + d \in DOMAIN turns[s] /\ pushed[i] = turns[s][i + d]
  BY <1>5, <1>6
<1>8. \A other \in SessionIds : \A i \in DOMAIN turns[other] :
         turns[other][i].id <= turn_ids /\ turns[other][i].id \in Nat
  <2> TAKE other \in SessionIds
  <2> TAKE i \in DOMAIN turns[other]
  <2>1. TokenOf(other, turns[other][i]) \in tokens
    BY DEF IInv, TurnsAreOrdered
  <2>2. QED
    BY <2>1 DEF IInv, TokensAreDistinct, TokenOf, TypeOK, TurnToken
<1>9. TokensAreDistinct'
  <2>1. TokenOf(s, turn).turn = turn_ids + 1 /\ TokenOf(s, turn).generation = generation[s]
        /\ TokenOf(s, turn).session = s /\ generation[s] \in Nat
    BY <1>1 DEF TokenOf, IInv, TypeOK
  <2>2. \A tok \in tokens : tok.turn \in Nat /\ tok.turn <= turn_ids
    BY DEF IInv, TokensAreDistinct, TypeOK, TurnToken
  <2>3. QED
    BY <1>1, <1>2, <2>1, <2>2 DEF IInv, TokensAreDistinct
<1>10. TurnsAreOrdered'
  <2>1. ASSUME NEW i \in DOMAIN pushed
        PROVE  TokenOf(s, pushed[i]) \in tokens'
    BY <1>2, <1>4, <1>7 DEF IInv, TurnsAreOrdered
  <2>2. ASSUME NEW i \in DOMAIN pushed, NEW j \in DOMAIN pushed, i < j
        PROVE  pushed[i].id < pushed[j].id
    <3>1. i # Len(pushed) /\ i \in Nat /\ j \in Nat /\ d \in Nat
      BY <2>2, <1>6
    <3>2. CASE j = Len(pushed)
      BY <3>1, <3>2, <1>1, <1>4, <1>7, <1>8
    <3>3. CASE j # Len(pushed)
      BY <3>1, <3>3, <2>2, <1>7 DEF IInv, TurnsAreOrdered
    <3>4. QED
      BY <3>2, <3>3
  <2>3. QED
    BY <1>2, <2>1, <2>2 DEF IInv, TurnsAreOrdered
<1>11. UnfinishedTurnIsCurrent'
  <2>1. ASSUME NEW i \in LiveTurns(s)'
        PROVE  i = Len(pushed)
    <3>1. i \in DOMAIN pushed /\ pushed[i].stage \in LiveStages
      BY <1>2 DEF LiveTurns
    <3>2. QED
      BY <3>1, <1>2, <1>7 DEF LiveTurns
  <2>2. \A other \in SessionIds \ {s} : LiveTurns(other)' = LiveTurns(other)
    BY <1>2 DEF LiveTurns
  <2>3. QED
    BY <1>1, <1>2, <1>4, <2>1, <2>2 DEF IInv, UnfinishedTurnIsCurrent
<1>12. HistoryIsOfRememberedTurns' /\ HistoryFollowsTurns' /\ ClosedSessionIsEmpty'
  <2>1. \A i \in DOMAIN history[s] : history[s][i].turn <= turn_ids /\ history[s][i].turn \in Nat
    <3> TAKE i \in DOMAIN history[s]
    <3>1. turns[s] # <<>> /\ history[s][i].turn <= turns[s][Len(turns[s])].id
      BY DEF IInv, HistoryIsOfRememberedTurns
    <3>2. Len(turns[s]) \in DOMAIN turns[s]
      BY <1>1, <3>1
    <3>3. history[s] \in Seq(ConversationMessage)
      BY DEF IInv, TypeOK
    <3>4. history[s][i] \in ConversationMessage
      BY <3>3
    <3>5. QED
      BY <1>1, <1>8, <3>1, <3>2, <3>4 DEF ConversationMessage
  <2>2. /\ turns'[s] # <<>> /\ turns'[s][Len(turns'[s])].id = turn_ids + 1
        /\ turn_ids + 1 \in Nat
    BY <1>1, <1>2, <1>4, <1>5, <1>6
  <2>3. CASE history' = history
    <3>1. HistoryIsOfRememberedTurns'
      BY <1>1, <1>2, <2>1, <2>2, <2>3 DEF IInv, HistoryIsOfRememberedTurns
    <3>2. HistoryFollowsTurns' /\ ClosedSessionIsEmpty'
      BY <1>2, <2>3 DEF IInv, HistoryFollowsTurns, ClosedSessionIsEmpty
    <3>3. QED
      BY <3>1, <3>2
  <2>4. CASE history' = [history EXCEPT ![s] =
                           Push(@, [role |-> "user", turn |-> turn_ids + 1], MaxHistory)]
    <3>1. \A i \in DOMAIN history[s] : history[s][i].turn <= turn_ids + 1
      BY <1>1, <2>1
    <3>2. QED
      BY <3>1, <2>2, <2>4, <1>2, HistoryPushed DEF Roles
  <2>5. QED
    BY <1>3, <2>3, <2>4
<1>13. QED
  BY <1>9, <1>10, <1>11, <1>12 DEF IInv

LEMMA TransitionKeeps ==
    ASSUME IInv, TypeOK', NEW tok \in tokens, NEW stage \in TurnStage, Transition(tok, stage)
    PROVE  IInv'
<1> DEFINE s == tok.session
<1>1. s \in SessionIds /\ turns[s] \in Seq(TurnSnapshot)
  BY DEF IInv, TypeOK, TurnToken
<1>2. PICK i \in LiveTurns(s) : turns' = [turns EXCEPT ![s][i].stage = stage]
  BY DEF Transition
<1>3. UNCHANGED <<status, generation, history, pending, tokens, turn_ids>>
  BY DEF Transition
<1> HIDE DEF s
<1>4. /\ turns'[s] = [turns[s] EXCEPT ![i] = [turns[s][i] EXCEPT !.stage = stage]]
      /\ \A other \in SessionIds \ {s} : turns'[other] = turns[other]
      /\ turns'[s] \in Seq(TurnSnapshot)
  BY <1>1, <1>2 DEF IInv, TypeOK
<1>5. /\ DOMAIN turns'[s] = DOMAIN turns[s] /\ Len(turns'[s]) = Len(turns[s])
      /\ i \in DOMAIN turns[s] /\ turns[s][i] \in TurnSnapshot
  BY <1>1, <1>4 DEF LiveTurns
<1>6. \A j \in DOMAIN turns[s] :
         /\ turns'[s][j].id = turns[s][j].id
         /\ turns'[s][j].generation = turns[s][j].generation
         /\ turns'[s][j].stage \in LiveStages => turns[s][j].stage \in LiveStages
  <2> TAKE j \in DOMAIN turns[s]
  <2>1. CASE j = i
    BY <2>1, <1>4, <1>5 DEF LiveTurns, TurnSnapshot
  <2>2. CASE j # i
    BY <2>2, <1>4, <1>5
  <2>3. QED
    BY <2>1, <2>2
<1>7. TokensAreDistinct'
  BY <1>3 DEF IInv, TokensAreDistinct
<1>8. TurnsAreOrdered'
  <2>1. \A j \in DOMAIN turns[s] : TokenOf(s, turns'[s][j]) = TokenOf(s, turns[s][j])
    BY <1>6 DEF TokenOf
  <2>2. ASSUME NEW j \in DOMAIN turns'[s]
        PROVE  /\ TokenOf(s, turns'[s][j]) \in tokens'
               /\ \A k \in DOMAIN turns'[s] : j < k => turns'[s][j].id < turns'[s][k].id
    BY <1>1, <1>3, <1>5, <1>6, <2>1 DEF IInv, TurnsAreOrdered
  <2>3. ASSUME NEW other \in SessionIds \ {s}, NEW j \in DOMAIN turns'[other]
        PROVE  /\ TokenOf(other, turns'[other][j]) \in tokens'
               /\ \A k \in DOMAIN turns'[other] :
                     j < k => turns'[other][j].id < turns'[other][k].id
    BY <1>3, <1>4 DEF IInv, TurnsAreOrdered
  <2>4. QED
    BY <2>2, <2>3 DEF TurnsAreOrdered, TokenOf
<1>9. UnfinishedTurnIsCurrent'
  <2>1. \A other \in SessionIds \ {s} : LiveTurns(other)' = LiveTurns(other)
    BY <1>4 DEF LiveTurns
  <2>2. LiveTurns(s)' \subseteq LiveTurns(s)
    BY <1>5, <1>6 DEF LiveTurns
  <2>3. \A j \in LiveTurns(s) : j \in DOMAIN turns[s]
    BY DEF LiveTurns
  <2>4. ASSUME NEW j \in LiveTurns(s)'
        PROVE  j = Len(turns'[s]) /\ status[s] = "active" /\ turns'[s][j].generation = generation[s]
    <3>1. j \in LiveTurns(s) /\ j \in DOMAIN turns[s]
      BY <2>2, <2>3
    <3>2. QED
      BY <1>1, <1>5, <1>6, <3>1 DEF IInv, UnfinishedTurnIsCurrent
  <2>5. ASSUME NEW other \in SessionIds \ {s}, NEW j \in LiveTurns(other)'
        PROVE  /\ j = Len(turns'[other]) /\ status[other] = "active"
               /\ turns'[other][j].generation = generation[other]
    BY <1>4, <2>1, <2>5 DEF IInv, UnfinishedTurnIsCurrent
  <2>6. QED
    BY <1>3, <2>4, <2>5 DEF UnfinishedTurnIsCurrent
<1>10. HistoryIsOfRememberedTurns' /\ HistoryFollowsTurns' /\ ClosedSessionIsEmpty'
  <2>1. turns[s] # <<>> => Len(turns[s]) \in DOMAIN turns[s]
    BY <1>1
  <2>2. /\ Len(turns'[s]) = Len(turns[s])
        /\ turns[s] # <<>> => /\ turns'[s] # <<>>
                              /\ turns'[s][Len(turns[s])].id = turns[s][Len(turns[s])].id
    BY <1>1, <1>4, <1>5, <1>6, <2>1
  <2>3. QED
    BY <1>3, <1>4, <2>2, HistoryUntouched
<1>11. QED
  BY <1>7, <1>8, <1>9, <1>10 DEF IInv

LEMMA AppendKeeps ==
    ASSUME IInv, TypeOK', NEW tok \in tokens, NEW role \in Roles, AppendMessage(tok, role)
    PROVE  IInv'
<1> DEFINE s == tok.session
<1>1. s \in SessionIds /\ turns[s] \in Seq(TurnSnapshot) /\ tok.turn \in Nat
  BY DEF IInv, TypeOK, TurnToken
<1>2. /\ history' = [history EXCEPT ![s] =
                       Push(@, [role |-> role, turn |-> tok.turn], MaxHistory)]
      /\ UNCHANGED <<status, generation, turns, pending, tokens, turn_ids>>
      /\ Accepts(tok)
  BY DEF AppendMessage
<1>3. /\ status[s] = "active" /\ turns[s] # <<>>
      /\ turns[s][Len(turns[s])].id = tok.turn
  <2>1. PICK i \in LiveTurns(s) : turns[s][i].id = tok.turn
    BY <1>2 DEF Accepts
  <2>2. i = Len(turns[s]) /\ i \in DOMAIN turns[s]
    BY <1>1, <2>1 DEF IInv, UnfinishedTurnIsCurrent, LiveTurns
  <2>3. QED
    BY <1>1, <1>2, <2>1, <2>2 DEF Accepts
<1> HIDE DEF s
<1>4. TokensAreDistinct' /\ TurnsAreOrdered' /\ UnfinishedTurnIsCurrent'
  BY <1>2, TurnsUntouched
<1>5. \A i \in DOMAIN history[s] : history[s][i].turn <= tok.turn
  BY <1>1, <1>3 DEF IInv, HistoryIsOfRememberedTurns
<1>6. HistoryIsOfRememberedTurns' /\ HistoryFollowsTurns' /\ ClosedSessionIsEmpty'
  BY <1>1, <1>2, <1>3, <1>5, HistoryPushed
<1>7. QED
  BY <1>4, <1>6 DEF IInv
-----------------------------------------------------------------------------
LEMMA StepKeepsInvariant == IInv /\ [Next]_vars => IInv'
  <1> SUFFICES ASSUME IInv, [Next]_vars
               PROVE  IInv'
    OBVIOUS
  <1> TypeOK'
    BY TypeStep DEF IInv
  <1>1. ASSUME NEW s \in SessionIds, CreateSession(s)
        PROVE  IInv'
    BY <1>1, CreateKeeps
  <1>2. ASSUME NEW s \in SessionIds, NEW oldest \in SessionIds,
               CreateSessionEvicting(s, oldest) \/ CreateSessionRefused(oldest)
        PROVE  IInv'
    BY <1>2, EvictionKeeps
  <1>3. ASSUME NEW s \in SessionIds, NEW stage \in LiveStages, NEW with_text \in BOOLEAN,
               BeginTurn(s, stage, with_text)
        PROVE  IInv'
    BY <1>3, BeginKeeps
  <1>4. ASSUME NEW s \in SessionIds, NEW clear_history \in BOOLEAN,
               UpdateContext(s, clear_history)
        PROVE  IInv'
    BY <1>4, UpdateContextKeeps
  <1>5. ASSUME NEW s \in SessionIds, NEW waiting \in BOOLEAN,
               SetPendingAccountRequest(s, waiting)
        PROVE  IInv'
    BY <1>5, PendingKeeps
  <1>6. ASSUME NEW s \in SessionIds, Cancel(s)
        PROVE  IInv'
    BY <1>6, CancelKeeps
  <1>7. ASSUME NEW s \in SessionIds, NEW id, CancelTurn(s, id)
        PROVE  IInv'
    BY <1>7, CancelTurnKeeps
  <1>8. ASSUME NEW s \in SessionIds, CloseSession(s)
        PROVE  IInv'
    BY <1>8, CloseKeeps
  <1>9. ASSUME NEW tok \in tokens, NEW stage \in TurnStage, Transition(tok, stage)
        PROVE  IInv'
    BY <1>9, TransitionKeeps
  <1>10. ASSUME NEW tok \in tokens, NEW role \in Roles, AppendMessage(tok, role)
         PROVE  IInv'
    BY <1>10, AppendKeeps
  <1>11. ASSUME NEW tok \in tokens, NEW stage \in TerminalStages, Terminalize(tok, stage)
         PROVE  IInv'
    <2>1. tok.session \in SessionIds /\ stage \in TurnStage
      BY DEF IInv, TypeOK, TurnToken, TurnStage
    <2>2. CancelTurn(tok.session, tok.turn) \/ Transition(tok, stage)
      BY <1>11 DEF Terminalize
    <2>3. QED
      BY <2>1, <2>2, <1>7, <1>9
  <1>12. CASE UNCHANGED vars
    <2>1. TokensAreDistinct' /\ TurnsAreOrdered' /\ UnfinishedTurnIsCurrent'
      BY <1>12, TurnsUntouched DEF vars
    <2>2. HistoryIsOfRememberedTurns' /\ HistoryFollowsTurns' /\ ClosedSessionIsEmpty'
      BY <1>12, HistoryUntouched DEF vars
    <2>3. QED
      BY <2>1, <2>2 DEF IInv
  <1>13. QED
    BY <1>1, <1>2, <1>3, <1>4, <1>5, <1>6, <1>7, <1>8, <1>9, <1>10, <1>11, <1>12
       DEF Next, SessionCall, TokenCall, SetTranscript, CommitAssistantText, Roles

LEMMA InductiveInvariant == Spec => []IInv
BY InitInvariant, StepKeepsInvariant, PTL DEF Spec

(* An unfinished turn can always be finished: it is the newest turn of its *)
(* session and the store still accepts the token it was begun with.        *)
THEOREM UnfinishedTurnCanFinish == Spec => []UnfinishedTurnHasItsToken
<1>1. IInv => UnfinishedTurnHasItsToken
  <2> SUFFICES ASSUME IInv, NEW s \in SessionIds, NEW i \in LiveTurns(s)
               PROVE  /\ i = Len(turns[s])
                      /\ TokenOf(s, turns[s][i]) \in tokens
                      /\ Accepts(TokenOf(s, turns[s][i]))
    BY DEF UnfinishedTurnHasItsToken
  <2>1. /\ i = Len(turns[s]) /\ status[s] = "active"
        /\ turns[s][i].generation = generation[s]
    BY DEF IInv, UnfinishedTurnIsCurrent
  <2>2. TokenOf(s, turns[s][i]) \in tokens
    BY DEF IInv, TurnsAreOrdered, LiveTurns
  <2>3. Accepts(TokenOf(s, turns[s][i]))
    BY <2>1 DEF Accepts, TokenOf
  <2>4. QED
    BY <2>1, <2>2, <2>3
<1>2. QED
  BY InductiveInvariant, <1>1, PTL

(* However late a worker answers, a closed or evicted session stays empty. *)
THEOREM ClosedSessionStaysEmpty == Spec => []ClosedSessionIsEmpty
<1>1. IInv => ClosedSessionIsEmpty
  BY DEF IInv
<1>2. QED
  BY InductiveInvariant, <1>1, PTL

(* Private messages are remembered in the order of their turns. *)
THEOREM HistoryInTurnOrder == Spec => []HistoryFollowsTurns
<1>1. IInv => HistoryFollowsTurns
  BY DEF IInv
<1>2. QED
  BY InductiveInvariant, <1>1, PTL
-----------------------------------------------------------------------------
(* Every item of a deque after append is the new one or an old one. *)
LEMMA PushedIsOldOrNew ==
    ASSUME NEW T, NEW deque \in Seq(T), NEW item \in T, NEW limit \in Nat \ {0},
           NEW i \in DOMAIN Push(deque, item, limit),
           Push(deque, item, limit)[i] # item
    PROVE  \E j \in DOMAIN deque : Push(deque, item, limit)[i] = deque[j]
<1> DEFINE pushed == Push(deque, item, limit)
<1>1. pushed \in Seq(T) /\ pushed[Len(pushed)] = item
  BY PushFacts
<1>2. PICK d \in {0, 1} : /\ Len(pushed) = Len(deque) + 1 - d
                          /\ d <= Len(deque)
                          /\ \A k \in 1 .. Len(deque) - d : pushed[k] = deque[k + d]
  BY PushFacts
<1>3. i \in DOMAIN pushed /\ pushed[i] # item
  OBVIOUS
<1> HIDE DEF pushed
<1>4. Len(deque) \in Nat /\ DOMAIN deque = 1 .. Len(deque)
  OBVIOUS
<1>5. i \in 1 .. Len(pushed) /\ i # Len(pushed)
  BY <1>1, <1>3
<1>6. i + d \in DOMAIN deque /\ pushed[i] = deque[i + d]
  BY <1>2, <1>4, <1>5
<1>7. QED
  BY <1>6 DEF pushed

(* Where neither the status nor the generation of its session changes and  *)
(* every live turn was live before, a token is not accepted anew.          *)
LEMMA NoRevival ==
    ASSUME NEW tok, Accepts(tok)',
           status'[tok.session] = "active" => status[tok.session] = "active",
           generation'[tok.session] = generation[tok.session],
           \A i \in LiveTurns(tok.session)' : \E j \in LiveTurns(tok.session) :
              /\ turns'[tok.session][i].id = turns[tok.session][j].id
              /\ turns'[tok.session][i].generation = turns[tok.session][j].generation
    PROVE  Accepts(tok)
  BY DEF Accepts

LEMMA RaisedGeneration ==
    ASSUME IInv, NEW tok \in tokens, NEW s \in SessionIds,
           generation' = [generation EXCEPT ![s] = @ + 1],
           tok.session = s
    PROVE  ~Accepts(tok)'
  BY DEF Accepts, IInv, TokensAreDistinct, TypeOK, TurnToken

(* Cancelling one session leaves the tokens of the others as they are. *)
LEMMA OtherSessions ==
    ASSUME NEW tok, Accepts(tok)',
           status'[tok.session] = status[tok.session],
           generation'[tok.session] = generation[tok.session],
           turns'[tok.session] = turns[tok.session]
    PROVE  Accepts(tok)
  BY DEF Accepts, LiveTurns

LEMMA StepRevivesNothing ==
    ASSUME IInv, Next, NEW tok \in tokens, Accepts(tok)'
    PROVE  Accepts(tok)
<1> DEFINE own == tok.session
<1>1. own \in SessionIds /\ status[own] # "unused" /\ tok.turn <= turn_ids
      /\ tok.turn \in Nat /\ turn_ids \in Nat
  BY DEF IInv, TypeOK, TurnToken, TokensAreDistinct
<1>2. ASSUME NEW s \in SessionIds, CreateSession(s)
      PROVE  Accepts(tok)
  BY <1>1, <1>2, OtherSessions DEF CreateSession, IInv, TypeOK
<1>3. ASSUME NEW s \in SessionIds, NEW oldest \in SessionIds,
             CreateSessionEvicting(s, oldest) \/ CreateSessionRefused(oldest)
      PROVE  Accepts(tok)
  <2>1. own # oldest
    BY <1>1, <1>3 DEF CreateSessionEvicting, CreateSessionRefused, Accepts, IInv, TypeOK, Closed
  <2>2. CASE CreateSessionEvicting(s, oldest)
    <3>1. own # s
      BY <1>1, <2>2 DEF CreateSessionEvicting
    <3>2. QED
      BY <1>1, <2>1, <2>2, <3>1, OtherSessions DEF CreateSessionEvicting, IInv, TypeOK
  <2>3. CASE CreateSessionRefused(oldest)
    BY <1>1, <2>1, <2>3, OtherSessions DEF CreateSessionRefused, IInv, TypeOK
  <2>4. QED
    BY <1>3, <2>2, <2>3
<1>4. ASSUME NEW s \in SessionIds, NEW stage \in LiveStages, NEW with_text \in BOOLEAN,
             BeginTurn(s, stage, with_text)
      PROVE  Accepts(tok)
  <2>1. CASE own # s
    BY <1>1, <1>4, <2>1, OtherSessions DEF BeginTurn, IInv, TypeOK
  <2>2. CASE own = s
    <3> DEFINE turn == [id |-> turn_ids + 1, generation |-> generation[s], stage |-> stage]
               pushed == Push(turns[s], turn, MaxTurns)
    <3>1. turns[s] \in Seq(TurnSnapshot) /\ turn \in TurnSnapshot /\ turn.id = turn_ids + 1
      <4>1. turns[s] \in Seq(TurnSnapshot) /\ generation[s] \in Nat
        BY DEF IInv, TypeOK
      <4>2. QED
        BY <1>1, <4>1 DEF TurnSnapshot, TurnStage
    <3>2. turns'[s] = pushed /\ LiveTurns(s) = {}
      BY <1>4 DEF BeginTurn, IInv, TypeOK
    <3> HIDE DEF turn
    <3>3. \A i \in DOMAIN pushed : pushed[i] # turn
             => \E j \in DOMAIN turns[s] : pushed[i] = turns[s][j]
      BY <3>1, PushedIsOldOrNew, BoundsArePositive
    <3> HIDE DEF pushed
    <3>4. PICK i \in DOMAIN pushed : pushed[i].id = tok.turn /\ pushed[i].stage \in LiveStages
      BY <2>2, <3>2 DEF Accepts, LiveTurns
    <3>5. pushed[i] # turn
      BY <1>1, <3>1, <3>4
    <3>6. \E j \in DOMAIN turns[s] : pushed[i] = turns[s][j]
      BY <3>3, <3>5
    <3>7. QED
      BY <3>2, <3>4, <3>6 DEF LiveTurns
  <2>3. QED
    BY <2>1, <2>2
<1>5. ASSUME NEW s \in SessionIds, NEW clear_history \in BOOLEAN, UpdateContext(s, clear_history)
      PROVE  Accepts(tok)
  BY <1>5, OtherSessions DEF UpdateContext
<1>6. ASSUME NEW s \in SessionIds, NEW waiting \in BOOLEAN, SetPendingAccountRequest(s, waiting)
      PROVE  Accepts(tok)
  BY <1>6, OtherSessions DEF SetPendingAccountRequest
<1>7. ASSUME NEW s \in SessionIds, Cancel(s)
      PROVE  Accepts(tok)
  BY <1>1, <1>7, OtherSessions, RaisedGeneration DEF Cancel, IInv, TypeOK
<1>8. ASSUME NEW s \in SessionIds, NEW id, CancelTurn(s, id)
      PROVE  Accepts(tok)
  BY <1>1, <1>8, OtherSessions, RaisedGeneration DEF CancelTurn, IInv, TypeOK
<1>9. ASSUME NEW s \in SessionIds, CloseSession(s)
      PROVE  Accepts(tok)
  BY <1>1, <1>9, OtherSessions, RaisedGeneration DEF CloseSession, IInv, TypeOK
<1>10. ASSUME NEW by \in tokens, NEW stage \in TurnStage, Transition(by, stage)
       PROVE  Accepts(tok)
  <2>1. by.session \in SessionIds
    BY DEF IInv, TypeOK, TurnToken
  <2>2. PICK i \in LiveTurns(by.session) : turns' = [turns EXCEPT ![by.session][i].stage = stage]
    BY <1>10 DEF Transition
  <2>3. UNCHANGED <<status, generation>>
    BY <1>10 DEF Transition
  <2>4. CASE own # by.session
    BY <1>1, <2>1, <2>2, <2>3, <2>4, OtherSessions DEF IInv, TypeOK
  <2>5. CASE own = by.session
    <3>1. /\ turns[own] \in Seq(TurnSnapshot) /\ i \in DOMAIN turns[own]
          /\ turns'[own] = [turns[own] EXCEPT ![i] = [turns[own][i] EXCEPT !.stage = stage]]
      BY <1>1, <2>2, <2>5 DEF IInv, TypeOK, LiveTurns
    <3>2. turns[own][i] \in TurnSnapshot
      BY <3>1
    <3>3. \A j \in LiveTurns(own)' :
             /\ j \in LiveTurns(own)
             /\ turns'[own][j].id = turns[own][j].id
             /\ turns'[own][j].generation = turns[own][j].generation
      <4> TAKE j \in LiveTurns(own)'
      <4>1. j \in DOMAIN turns[own] /\ turns'[own][j].stage \in LiveStages
        BY <3>1 DEF LiveTurns
      <4>2. CASE j = i
        <5>1. turns'[own][j] = [turns[own][j] EXCEPT !.stage = stage]
          BY <3>1, <4>2
        <5>2. j \in LiveTurns(own)
          BY <2>5, <4>2
        <5>3. turns[own][j] \in TurnSnapshot
          BY <3>2, <4>2
        <5>4. QED
          BY <5>1, <5>2, <5>3 DEF TurnSnapshot
      <4>3. CASE j # i
        BY <3>1, <4>1, <4>3 DEF LiveTurns
      <4>4. QED
        BY <4>2, <4>3
    <3>4. QED
      BY <2>3, <3>3, NoRevival
  <2>6. QED
    BY <2>4, <2>5
<1>11. ASSUME NEW by \in tokens, NEW role \in Roles, AppendMessage(by, role)
       PROVE  Accepts(tok)
  BY <1>11, OtherSessions DEF AppendMessage
<1>12. ASSUME NEW by \in tokens, NEW stage \in TerminalStages, Terminalize(by, stage)
       PROVE  Accepts(tok)
  <2>1. by.session \in SessionIds /\ stage \in TurnStage
    BY DEF IInv, TypeOK, TurnToken, TurnStage
  <2>2. CancelTurn(by.session, by.turn) \/ Transition(by, stage)
    BY <1>12 DEF Terminalize
  <2>3. QED
    BY <2>1, <2>2, <1>8, <1>10
<1>13. QED
  BY <1>2, <1>3, <1>4, <1>5, <1>6, <1>7, <1>8, <1>9, <1>10, <1>11, <1>12
     DEF Next, SessionCall, TokenCall, SetTranscript, CommitAssistantText, Roles

(* A token the store refuses is refused for ever after, whatever happens   *)
(* to its session: late work of a cancelled turn is never let in again.    *)
THEOREM StaleTokensStayStale == Spec => StaleTokenStaysStale
<1>1. IInv /\ [Next]_vars => [\A tok \in tokens : Accepts(tok)' => Accepts(tok)]_vars
  BY StepRevivesNothing
<1>2. QED
  BY <1>1, InductiveInvariant, PTL DEF Spec, StaleTokenStaysStale

(* Whatever tokens arrive, a session keeps its types and the order of its  *)
(* history, and a closed one keeps nothing.                                *)
THEOREM SessionsStaySound == Spec => []SessionsAreSound
BY TypeCorrect, HistoryInTurnOrder, ClosedSessionStaysEmpty, PTL DEF SessionsAreSound

(***************************************************************************)
(* The store implements the fence, and an outcome stays.                   *)
(***************************************************************************)

(* The identifiers of tokens are the tokens of the fence. *)
TurnIdsAreTokens ==
    /\ turn_ids \in 0 .. TurnLimit
    /\ \A tok \in tokens : tok.turn # 0

FenceInv == IInv /\ TurnIdsAreTokens

LEMMA InitFenceInv == Init => FenceInv
<1> SUFFICES ASSUME Init PROVE FenceInv
  OBVIOUS
<1>1. IInv
  BY InitInvariant
<1>2. TurnIdsAreTokens
  BY BoundsArePositive DEF Init, TurnIdsAreTokens
<1>3. QED
  BY <1>1, <1>2 DEF FenceInv

(* Only begin_turn draws an identifier. *)
LEMMA OnlyBeginDraws ==
    ASSUME Next,
           ~ \E s \in SessionIds, stage \in LiveStages, with_text \in BOOLEAN :
                BeginTurn(s, stage, with_text)
    PROVE  UNCHANGED <<tokens, turn_ids>>
BY DEF Next, SessionCall, TokenCall, CreateSession, CreateSessionEvicting,
       CreateSessionRefused, UpdateContext, SetPendingAccountRequest, Cancel, CancelTurn, CloseSession, Transition, Terminalize,
       SetTranscript, CommitAssistantText, AppendMessage

LEMMA StepKeepsFenceInv == FenceInv /\ [Next]_vars => FenceInv'
<1> SUFFICES ASSUME FenceInv, [Next]_vars PROVE FenceInv'
  OBVIOUS
<1>1. IInv'
  BY StepKeepsInvariant DEF FenceInv
<1>2. ASSUME UNCHANGED <<tokens, turn_ids>>
      PROVE  TurnIdsAreTokens'
  BY <1>2 DEF FenceInv, TurnIdsAreTokens
<1>3. ASSUME NEW s \in SessionIds, NEW stage \in LiveStages, NEW with_text \in BOOLEAN,
             BeginTurn(s, stage, with_text)
      PROVE  TurnIdsAreTokens'
  <2> DEFINE turn == [id |-> turn_ids + 1, generation |-> generation[s], stage |-> stage]
  <2>1. /\ turn_ids \in Nat /\ turn_ids < TurnLimit /\ turn_ids' = turn_ids + 1
        /\ tokens' = tokens \cup {TokenOf(s, turn)}
    BY <1>3 DEF BeginTurn, FenceInv, IInv, TypeOK
  <2>2. TokenOf(s, turn).turn = turn_ids + 1
    BY DEF TokenOf
  <2> HIDE DEF turn
  <2>3. QED
    BY <2>1, <2>2, BoundsArePositive DEF FenceInv, TurnIdsAreTokens
<1>4. TurnIdsAreTokens'
  BY <1>2, <1>3, OnlyBeginDraws DEF vars
<1>5. QED
  BY <1>1, <1>4 DEF FenceInv

LEMMA FenceInvariant == Spec => []FenceInv
BY InitFenceInv, StepKeepsFenceInv, PTL DEF Spec
-----------------------------------------------------------------------------
(* What is seen of the sessions changes where one session does. *)
LEMMA OneSessionSeen ==
    ASSUME NEW s \in SessionIds,
           \A other \in SessionIds \ {s} :
              /\ PhaseOf(other)' = PhaseOf(other)
              /\ HolderOf(other)' = HolderOf(other)
              /\ Writers(history'[other]) = Writers(history[other])
    PROVE  /\ Phases' = [Phases EXCEPT ![s] = PhaseOf(s)']
           /\ Holders' = [Holders EXCEPT ![s] = HolderOf(s)']
           /\ Logs' = [Logs EXCEPT ![s] = Writers(history'[s])]
<1>1. Phases' = [Phases EXCEPT ![s] = PhaseOf(s)']
  BY DEF Phases
<1>2. Holders' = [Holders EXCEPT ![s] = HolderOf(s)']
  BY DEF Holders
<1>3. Logs' = [Logs EXCEPT ![s] = Writers(history'[s])]
  BY DEF Logs
<1>4. QED
  BY <1>1, <1>2, <1>3

(* A session whose state does not change is seen as before. *)
LEMMA SeenAsBefore ==
    ASSUME NEW s \in SessionIds,
           status'[s] = status[s], turns'[s] = turns[s], history'[s] = history[s]
    PROVE  /\ PhaseOf(s)' = PhaseOf(s)
           /\ HolderOf(s)' = HolderOf(s)
           /\ Writers(history'[s]) = Writers(history[s])
BY DEF PhaseOf, HolderOf, LiveTurns

(* The holder of a session without an unfinished turn, and of one with it. *)
LEMMA NoHolder ==
    ASSUME IInv, NEW s \in SessionIds, LiveTurns(s) = {} \/ status[s] # "active"
    PROVE  LiveTurns(s) = {} /\ HolderOf(s) = 0
BY DEF IInv, UnfinishedTurnIsCurrent, HolderOf

LEMMA HolderIsLive ==
    ASSUME FenceInv, NEW s \in SessionIds, NEW i \in LiveTurns(s)
    PROVE  /\ i = Len(turns[s]) /\ HolderOf(s) = turns[s][i].id
           /\ HolderOf(s) # 0
           /\ status[s] = "active"
<1>1. i = Len(turns[s]) /\ status[s] = "active"
  BY DEF FenceInv, IInv, UnfinishedTurnIsCurrent
<1>2. TokenOf(s, turns[s][i]) \in tokens
  BY DEF FenceInv, IInv, TurnsAreOrdered, LiveTurns
<1>3. turns[s][i].id # 0
  BY <1>2 DEF FenceInv, TurnIdsAreTokens, TokenOf
<1>4. QED
  BY <1>1, <1>3 DEF HolderOf

(* Appending to the bounded history appends a writer to the log, of which  *)
(* the oldest may go.                                                      *)
LEMMA PushedWriters ==
    ASSUME NEW messages \in Seq(ConversationMessage), NEW message \in ConversationMessage
    PROVE  \E first \in 1 .. Len(Writers(messages)) + 1 :
              Writers(Push(messages, message, MaxHistory)) =
                 SubSeq(Append(Writers(messages), message.turn), first,
                        Len(Writers(messages)) + 1)
<1> DEFINE pushed == Push(messages, message, MaxHistory)
           log == Writers(messages)
           whole == Append(log, message.turn)
<1>1. /\ pushed \in Seq(ConversationMessage) /\ pushed[Len(pushed)] = message
      /\ \E d \in {0, 1} :
            /\ Len(pushed) = Len(messages) + 1 - d
            /\ d <= Len(messages)
            /\ \A i \in 1 .. Len(messages) - d : pushed[i] = messages[i + d]
  BY PushFacts, BoundsArePositive
<1> HIDE DEF pushed
<1>2. PICK d \in {0, 1} :
            /\ Len(pushed) = Len(messages) + 1 - d
            /\ d <= Len(messages)
            /\ \A i \in 1 .. Len(messages) - d : pushed[i] = messages[i + d]
  BY <1>1
<1>3. ASSUME NEW some \in Seq(ConversationMessage)
      PROVE  /\ Writers(some) \in Seq(Nat) /\ Len(Writers(some)) = Len(some)
             /\ \A i \in 1 .. Len(some) : Writers(some)[i] = some[i].turn
  <2>1. Len(some) \in Nat /\ DOMAIN some = 1 .. Len(some)
    OBVIOUS
  <2>2. \A i \in 1 .. Len(some) : some[i].turn \in Nat
    <3> TAKE i \in 1 .. Len(some)
    <3>1. some[i] \in ConversationMessage
      BY <2>1
    <3>2. QED
      BY <3>1 DEF ConversationMessage
  <2>3. Writers(some) \in [1 .. Len(some) -> Nat]
    BY <2>1, <2>2 DEF Writers
  <2>4. QED
    BY <2>1, <2>3 DEF Writers
<1>4. /\ log \in Seq(Nat) /\ Len(log) = Len(messages) /\ Len(messages) \in Nat
      /\ \A i \in 1 .. Len(messages) : log[i] = messages[i].turn
      /\ message.turn \in Nat
  <2>1. message.turn \in Nat
    BY DEF ConversationMessage
  <2>2. Len(messages) \in Nat
    OBVIOUS
  <2>3. QED
    BY <1>3, <2>1, <2>2
<1> HIDE DEF log
<1>5. /\ whole \in Seq(Nat) /\ Len(whole) = Len(messages) + 1
      /\ whole[Len(messages) + 1] = message.turn
      /\ \A i \in 1 .. Len(messages) : whole[i] = messages[i].turn
  BY <1>4
<1> HIDE DEF whole
<1>6. /\ SubSeq(whole, 1 + d, Len(messages) + 1) \in Seq(Nat)
      /\ Len(SubSeq(whole, 1 + d, Len(messages) + 1)) = Len(messages) + 1 - d
      /\ \A i \in 1 .. Len(messages) + 1 - d :
            SubSeq(whole, 1 + d, Len(messages) + 1)[i] = whole[i + d]
  BY <1>2, <1>4, <1>5
<1>7. \A i \in 1 .. Len(messages) + 1 - d : Writers(pushed)[i] = whole[i + d]
  <2> TAKE i \in 1 .. Len(messages) + 1 - d
  <2>1. Writers(pushed)[i] = pushed[i].turn
    BY <1>1, <1>2, <1>3
  <2>2. CASE i = Len(messages) + 1 - d
    BY <2>1, <2>2, <1>1, <1>2, <1>4, <1>5
  <2>3. CASE i # Len(messages) + 1 - d
    <3>1. i \in 1 .. Len(messages) - d /\ i + d \in 1 .. Len(messages)
      BY <2>3, <1>2, <1>4
    <3>2. QED
      BY <3>1, <2>1, <1>2, <1>5
  <2>4. QED
    BY <2>2, <2>3
<1>8. Writers(pushed) = SubSeq(whole, 1 + d, Len(messages) + 1)
  BY <1>1, <1>2, <1>3, <1>6, <1>7, SeqEqual
<1>9. 1 + d \in 1 .. Len(log) + 1
  BY <1>2, <1>4
<1>10. QED
  BY <1>4, <1>8, <1>9 DEF pushed, whole, log

-----------------------------------------------------------------------------
(* What each call of the store is, seen as a fenced lock. *)
LEMMA CreatingOpens ==
    ASSUME FenceInv, NEW s \in SessionIds,
           CreateSession(s) \/ \E oldest \in SessionIds : CreateSessionEvicting(s, oldest)
    PROVE  Fence!Open(s)
<1>1. CASE CreateSession(s)
  <2>1. /\ status[s] = "unused" /\ status'[s] = "active"
        /\ UNCHANGED <<generation, turns, history, tokens>>
        /\ \A other \in SessionIds \ {s} : status'[other] = status[other]
    BY <1>1 DEF CreateSession, FenceInv, IInv, TypeOK
  <2>2. QED
    BY <2>1 DEF Fence!Open, Phases, PhaseOf, Holders, HolderOf, LiveTurns, Granted, Logs
<1>2. ASSUME NEW oldest \in SessionIds, CreateSessionEvicting(s, oldest)
      PROVE  Fence!Open(s)
  <2>1. /\ status[s] = "unused" /\ status'[s] = "active"
        /\ status[oldest] = "closed" /\ status'[oldest] = "evicted"
        /\ turns'[oldest] = <<>> /\ history'[oldest] = <<>>
        /\ UNCHANGED <<generation, tokens>>
        /\ \A other \in SessionIds \ {s, oldest} : status'[other] = status[other]
        /\ \A other \in SessionIds \ {oldest} :
              turns'[other] = turns[other] /\ history'[other] = history[other]
    BY <1>2 DEF CreateSessionEvicting, Closed, FenceInv, IInv, TypeOK
  <2>2. s # oldest
    BY <2>1
  <2>3. history[oldest] = <<>> /\ HolderOf(oldest) = 0
    BY <2>1, NoHolder DEF FenceInv, IInv, ClosedSessionIsEmpty
  <2>4. LiveTurns(oldest)' = {} /\ HolderOf(oldest)' = 0
    BY <2>1 DEF LiveTurns, HolderOf
  <2>5. \A other \in SessionIds \ {s} :
           /\ PhaseOf(other)' = PhaseOf(other)
           /\ HolderOf(other)' = HolderOf(other)
           /\ Writers(history'[other]) = Writers(history[other])
    <3> TAKE other \in SessionIds \ {s}
    <3>1. CASE other = oldest
      BY <3>1, <2>1, <2>3, <2>4 DEF PhaseOf
    <3>2. CASE other # oldest
      BY <3>2, <2>1, SeenAsBefore
    <3>3. QED
      BY <3>1, <3>2
  <2>6. /\ HolderOf(s)' = HolderOf(s) /\ Writers(history'[s]) = Writers(history[s])
        /\ PhaseOf(s) = "new" /\ PhaseOf(s)' = "open"
    BY <2>1, <2>2 DEF HolderOf, LiveTurns, PhaseOf
  <2>7. Phases' = [Phases EXCEPT ![s] = "open"] /\ UNCHANGED <<Holders, Logs>>
    BY <2>5, <2>6 DEF Phases, Holders, Logs
  <2>8. QED
    BY <2>1, <2>6, <2>7 DEF Fence!Open, Phases, Granted
<1>3. QED
  BY <1>1, <1>2

LEMMA RefusalShowsNothing ==
    ASSUME FenceInv, NEW oldest \in SessionIds, CreateSessionRefused(oldest)
    PROVE  UNCHANGED Fence!vars
<1>1. /\ status[oldest] = "closed" /\ status'[oldest] = "evicted"
      /\ turns'[oldest] = <<>> /\ history'[oldest] = <<>>
      /\ UNCHANGED <<generation, tokens>>
      /\ \A other \in SessionIds \ {oldest} :
            /\ status'[other] = status[other]
            /\ turns'[other] = turns[other] /\ history'[other] = history[other]
  BY DEF CreateSessionRefused, Closed, FenceInv, IInv, TypeOK
<1>2. history[oldest] = <<>> /\ HolderOf(oldest) = 0
  BY <1>1, NoHolder DEF FenceInv, IInv, ClosedSessionIsEmpty
<1>3. LiveTurns(oldest)' = {} /\ HolderOf(oldest)' = 0
  BY <1>1 DEF LiveTurns, HolderOf
<1>4. \A s \in SessionIds :
         /\ PhaseOf(s)' = PhaseOf(s)
         /\ HolderOf(s)' = HolderOf(s)
         /\ Writers(history'[s]) = Writers(history[s])
  <2> TAKE s \in SessionIds
  <2>1. CASE s = oldest
    BY <2>1, <1>1, <1>2, <1>3 DEF PhaseOf
  <2>2. CASE s # oldest
    BY <2>2, <1>1, SeenAsBefore
  <2>3. QED
    BY <2>1, <2>2
<1>5. UNCHANGED <<Phases, Holders, Logs>>
  BY <1>4 DEF Phases, Holders, Logs
<1>6. QED
  BY <1>1, <1>5 DEF Fence!vars, Granted

LEMMA BeginningGrants ==
    ASSUME FenceInv, FenceInv', NEW s \in SessionIds, NEW stage \in LiveStages,
           NEW with_text \in BOOLEAN, BeginTurn(s, stage, with_text)
    PROVE  Fence!Grant(s)
<1> DEFINE turn == [id |-> turn_ids + 1, generation |-> generation[s], stage |-> stage]
           pushed == Push(turns[s], turn, MaxTurns)
<1>1. /\ turns[s] \in Seq(TurnSnapshot) /\ turn_ids \in 0 .. TurnLimit
      /\ history[s] \in Seq(ConversationMessage) /\ generation[s] \in Nat
      /\ turn_ids + 1 \in 1 .. TurnLimit
  BY BoundsArePositive DEF BeginTurn, FenceInv, IInv, TypeOK, TurnIdsAreTokens
<1>2. turn \in TurnSnapshot
  BY <1>1 DEF TurnSnapshot, TurnStage
<1>3. /\ status[s] = "active" /\ LiveTurns(s) = {}
      /\ turns'[s] = pushed
      /\ \A other \in SessionIds \ {s} :
            turns'[other] = turns[other] /\ history'[other] = history[other]
      /\ tokens' = tokens \cup {TokenOf(s, turn)}
      /\ history' = history
         \/ history'[s] = Push(history[s], [role |-> "user", turn |-> turn_ids + 1], MaxHistory)
      /\ UNCHANGED <<status, generation>>
  BY DEF BeginTurn, FenceInv, IInv, TypeOK
<1>4. /\ Len(pushed) \in DOMAIN pushed /\ pushed[Len(pushed)] = turn
  <2> HIDE DEF turn
  <2>1. /\ pushed \in Seq(TurnSnapshot) /\ pushed[Len(pushed)] = turn
        /\ \E d \in {0, 1} : Len(pushed) = Len(turns[s]) + 1 - d /\ d <= Len(turns[s])
    BY <1>1, <1>2, PushFacts, BoundsArePositive
  <2> HIDE DEF pushed
  <2>2. QED
    BY <1>1, <2>1
<1>5. TokenOf(s, turn).turn = turn_ids + 1 /\ turn.stage = stage /\ turn.id = turn_ids + 1
  BY DEF TokenOf
<1> HIDE DEF turn, pushed
<1>6. Len(pushed) \in LiveTurns(s)' /\ HolderOf(s)' = turn_ids + 1
  BY <1>3, <1>4, <1>5 DEF LiveTurns, HolderOf
<1>7. /\ Phases' = [Phases EXCEPT ![s] = PhaseOf(s)']
      /\ Holders' = [Holders EXCEPT ![s] = HolderOf(s)']
      /\ Logs' = [Logs EXCEPT ![s] = Writers(history'[s])]
  BY <1>3, OneSessionSeen, SeenAsBefore
<1>8. UNCHANGED Phases
  BY <1>3 DEF Phases, PhaseOf
<1>9. Phases[s] = "open" /\ Holders[s] = 0
  BY <1>3, NoHolder DEF Phases, PhaseOf, Holders, FenceInv
<1>10. /\ turn_ids + 1 \in (1 .. TurnLimit) \ Granted
       /\ Granted' = Granted \cup {turn_ids + 1}
  <2>1. \A tok \in tokens : tok.turn <= turn_ids
    BY DEF FenceInv, IInv, TokensAreDistinct
  <2>2. QED
    BY <2>1, <1>1, <1>3, <1>5 DEF Granted
<1>11. Fence!Written(s, turn_ids + 1) \/ UNCHANGED Logs
  <2>1. CASE history' = history
    BY <2>1 DEF Logs
  <2>2. CASE history'[s] = Push(history[s], [role |-> "user", turn |-> turn_ids + 1], MaxHistory)
    <3> DEFINE message == [role |-> "user", turn |-> turn_ids + 1]
    <3>1. message \in ConversationMessage /\ message.turn = turn_ids + 1
      BY <1>1 DEF ConversationMessage, Roles
    <3> HIDE DEF message
    <3>2. history'[s] = Push(history[s], message, MaxHistory)
      BY <2>2 DEF message
    <3>3. \E first \in 1 .. Len(Writers(history[s])) + 1 :
             Writers(history'[s]) =
                SubSeq(Append(Writers(history[s]), turn_ids + 1), first,
                       Len(Writers(history[s])) + 1)
      BY <1>1, <3>1, <3>2, PushedWriters
    <3>4. Logs[s] = Writers(history[s])
      BY DEF Logs
    <3>5. QED
      BY <1>7, <3>3, <3>4 DEF Fence!Written
  <2>3. QED
    BY <1>3, <2>1, <2>2
<1>12. QED
  BY <1>3, <1>6, <1>7, <1>8, <1>9, <1>10, <1>11 DEF Fence!Grant

(* A step that changes one session, and hands out no token. *)
LEMMA OneSessionChanges ==
    ASSUME NEW s \in SessionIds, UNCHANGED tokens,
           \A other \in SessionIds \ {s} :
              /\ status'[other] = status[other]
              /\ turns'[other] = turns[other]
              /\ history'[other] = history[other]
    PROVE  /\ Phases' = [Phases EXCEPT ![s] = PhaseOf(s)']
           /\ Holders' = [Holders EXCEPT ![s] = HolderOf(s)']
           /\ Logs' = [Logs EXCEPT ![s] = Writers(history'[s])]
           /\ UNCHANGED Granted
           /\ Phases[s] = PhaseOf(s) /\ Holders[s] = HolderOf(s)
           /\ Logs[s] = Writers(history[s])
<1>1. /\ Phases' = [Phases EXCEPT ![s] = PhaseOf(s)']
      /\ Holders' = [Holders EXCEPT ![s] = HolderOf(s)']
      /\ Logs' = [Logs EXCEPT ![s] = Writers(history'[s])]
  BY OneSessionSeen, SeenAsBefore
<1>2. QED
  BY <1>1 DEF Granted, Phases, Holders, Logs

(* Forgetting the history, or changing what the fence does not show. *)
LEMMA ContextForgets ==
    ASSUME FenceInv, NEW s \in SessionIds,
           \/ \E clear_history \in BOOLEAN : UpdateContext(s, clear_history)
           \/ \E waiting \in BOOLEAN : SetPendingAccountRequest(s, waiting)
    PROVE  Fence!Forget(s) \/ UNCHANGED Fence!vars
<1>1. /\ status[s] = "active" /\ UNCHANGED <<status, generation, turns, tokens>>
      /\ history' = history \/ history' = [history EXCEPT ![s] = <<>>]
  BY DEF UpdateContext, SetPendingAccountRequest
<1>2. UNCHANGED <<Phases, Holders, Granted>>
  BY <1>1 DEF Phases, PhaseOf, Holders, HolderOf, LiveTurns, Granted
<1>3. CASE history' = history
  BY <1>1, <1>2, <1>3 DEF Logs, Fence!vars
<1>4. CASE history' = [history EXCEPT ![s] = <<>>]
  <2>1. history'[s] = <<>> /\ \A other \in SessionIds \ {s} : history'[other] = history[other]
    BY <1>4 DEF FenceInv, IInv, TypeOK
  <2>2. Writers(<<>>) = <<>>
    BY DEF Writers
  <2>3. Logs' = [Logs EXCEPT ![s] = <<>>] /\ Phases[s] = "open"
    BY <1>1, <2>1, <2>2 DEF Logs, Phases, PhaseOf
  <2>4. QED
    BY <1>1, <1>2, <2>3 DEF Fence!Forget
<1>5. QED
  BY <1>1, <1>3, <1>4

(* Cancelling leaves a session without an unfinished turn. *)
LEMMA CancelledHasNoHolder ==
    ASSUME FenceInv, NEW s \in SessionIds, NEW hit, LiveTurns(s) \subseteq hit,
           turns'[s] = CancelledTurns(s, hit)
    PROVE  HolderOf(s)' = 0
<1>1. /\ turns[s] \in Seq(TurnSnapshot) /\ turns'[s] \in Seq(TurnSnapshot)
      /\ Len(turns'[s]) = Len(turns[s])
      /\ \A i \in DOMAIN turns[s] :
            /\ i \notin LiveTurns(s) => turns'[s][i].stage = turns[s][i].stage
            /\ i \in LiveTurns(s) => turns'[s][i].stage = "cancelled"
  BY CancelledTurnsType DEF FenceInv, IInv, TypeOK
<1>2. LiveTurns(s)' = {}
  BY <1>1 DEF LiveTurns, LiveStages
<1>3. QED
  BY <1>2 DEF HolderOf

LEMMA CancellingRaisesFence ==
    ASSUME FenceInv, NEW s \in SessionIds, Cancel(s) \/ \E id \in Nat : CancelTurn(s, id)
    PROVE  Fence!RaiseFence(s)
<1>1. /\ status[s] \in {"active", "closed"}
      /\ generation' = [generation EXCEPT ![s] = @ + 1]
      /\ UNCHANGED <<status, history, tokens>>
      /\ \E hit : LiveTurns(s) \subseteq hit
                  /\ turns' = [turns EXCEPT ![s] = CancelledTurns(s, hit)]
  <2>1. CASE Cancel(s)
    BY <2>1 DEF Cancel, Stored, LiveTurns
  <2>2. ASSUME NEW id \in Nat, CancelTurn(s, id)
        PROVE  \E hit : LiveTurns(s) \subseteq hit
                       /\ turns' = [turns EXCEPT ![s] = CancelledTurns(s, hit)]
    <3>1. PICK i \in LiveTurns(s) : turns' = [turns EXCEPT ![s] = CancelledTurns(s, {i})]
      BY <2>2 DEF CancelTurn
    <3>2. \A j \in LiveTurns(s) : j = Len(turns[s])
      BY DEF FenceInv, IInv, UnfinishedTurnIsCurrent
    <3>3. LiveTurns(s) \subseteq {i}
      BY <3>2
    <3>4. QED
      BY <3>1, <3>3
  <2>3. QED
    BY <2>1, <2>2 DEF CancelTurn, Stored
<1>2. PICK hit : LiveTurns(s) \subseteq hit
                 /\ turns' = [turns EXCEPT ![s] = CancelledTurns(s, hit)]
  BY <1>1
<1>3. /\ turns'[s] = CancelledTurns(s, hit)
      /\ \A other \in SessionIds \ {s} : turns'[other] = turns[other]
  BY <1>2 DEF FenceInv, IInv, TypeOK
<1>4. HolderOf(s)' = 0
  BY <1>2, <1>3, CancelledHasNoHolder
<1>5. Holders' = [Holders EXCEPT ![s] = 0] /\ UNCHANGED Granted
  BY <1>1, <1>3, <1>4, OneSessionChanges
<1>6. UNCHANGED <<Phases, Logs>> /\ Phases[s] # "new"
  BY <1>1 DEF Phases, PhaseOf, Logs
<1>7. QED
  BY <1>1, <1>5, <1>6 DEF Fence!RaiseFence

LEMMA ClosingShuts ==
    ASSUME FenceInv, NEW s \in SessionIds, CloseSession(s)
    PROVE  Fence!Shut(s)
<1>1. /\ status[s] \in {"active", "closed"} /\ status'[s] = "closed"
      /\ generation' = [generation EXCEPT ![s] = @ + 1]
      /\ turns'[s] = CancelledTurns(s, DOMAIN turns[s])
      /\ history'[s] = <<>>
      /\ \A other \in SessionIds \ {s} :
            /\ status'[other] = status[other]
            /\ turns'[other] = turns[other]
            /\ history'[other] = history[other]
      /\ UNCHANGED tokens
  BY DEF CloseSession, Stored, FenceInv, IInv, TypeOK
<1>2. HolderOf(s)' = 0
  BY <1>1, CancelledHasNoHolder DEF LiveTurns
<1>3. PhaseOf(s)' = "shut" /\ PhaseOf(s) # "new" /\ Writers(history'[s]) = <<>>
  BY <1>1 DEF PhaseOf, Writers
<1>4. QED
  BY <1>1, <1>2, <1>3, OneSessionChanges DEF Fence!Shut

(* What a change of stage does to the turns of its session. *)
LEMMA TransitionFacts ==
    ASSUME FenceInv, NEW tok \in tokens, NEW stage \in TurnStage, Transition(tok, stage)
    PROVE  /\ tok.session \in SessionIds
           /\ UNCHANGED <<status, generation, history, tokens, turn_ids>>
           /\ \A other \in SessionIds \ {tok.session} : turns'[other] = turns[other]
           /\ \E i \in LiveTurns(tok.session) :
                 /\ turns'[tok.session] \in Seq(TurnSnapshot)
                 /\ Len(turns'[tok.session]) = Len(turns[tok.session])
                 /\ DOMAIN turns'[tok.session] = DOMAIN turns[tok.session]
                 /\ turns'[tok.session][i].id = turns[tok.session][i].id
                 /\ turns'[tok.session][i].stage = stage
                 /\ \A j \in DOMAIN turns[tok.session] \ {i} :
                       turns'[tok.session][j] = turns[tok.session][j]
<1> DEFINE s == tok.session
<1>1. s \in SessionIds /\ turns[s] \in Seq(TurnSnapshot)
  BY DEF FenceInv, IInv, TypeOK, TurnToken
<1>2. PICK i \in LiveTurns(s) : turns' = [turns EXCEPT ![s][i].stage = stage]
  BY DEF Transition
<1>3. i \in DOMAIN turns[s] /\ turns[s][i] \in TurnSnapshot
  BY <1>1, <1>2 DEF LiveTurns
<1>4. /\ turns'[s] = [turns[s] EXCEPT ![i] = [turns[s][i] EXCEPT !.stage = stage]]
      /\ \A other \in SessionIds \ {s} : turns'[other] = turns[other]
  BY <1>1, <1>2 DEF FenceInv, IInv, TypeOK
<1>5. /\ [turns[s][i] EXCEPT !.stage = stage] \in TurnSnapshot
      /\ [turns[s][i] EXCEPT !.stage = stage].id = turns[s][i].id
      /\ [turns[s][i] EXCEPT !.stage = stage].stage = stage
  BY <1>3 DEF TurnSnapshot
<1> HIDE DEF s
<1>6. /\ turns'[s] \in Seq(TurnSnapshot) /\ Len(turns'[s]) = Len(turns[s])
      /\ DOMAIN turns'[s] = DOMAIN turns[s]
  BY <1>1, <1>3, <1>4, <1>5
<1>7. /\ turns'[s][i].id = turns[s][i].id /\ turns'[s][i].stage = stage
      /\ \A j \in DOMAIN turns[s] \ {i} : turns'[s][j] = turns[s][j]
  BY <1>1, <1>3, <1>4, <1>5
<1>8. UNCHANGED <<status, generation, history, tokens, turn_ids>>
  BY DEF Transition
<1>9. QED
  BY <1>1, <1>2, <1>4, <1>6, <1>7, <1>8 DEF s

LEMMA FinishingReleases ==
    ASSUME FenceInv, NEW tok \in tokens, NEW stage \in TurnStage, Transition(tok, stage)
    PROVE  Fence!Release(tok.session) \/ UNCHANGED Fence!vars
<1> DEFINE s == tok.session
<1>1. /\ s \in SessionIds
      /\ UNCHANGED <<status, generation, history, tokens>>
      /\ \A other \in SessionIds \ {s} : turns'[other] = turns[other]
  BY TransitionFacts
<1>2. PICK i \in LiveTurns(s) :
         /\ turns'[s] \in Seq(TurnSnapshot)
         /\ Len(turns'[s]) = Len(turns[s]) /\ DOMAIN turns'[s] = DOMAIN turns[s]
         /\ turns'[s][i].id = turns[s][i].id /\ turns'[s][i].stage = stage
         /\ \A j \in DOMAIN turns[s] \ {i} : turns'[s][j] = turns[s][j]
  BY TransitionFacts
<1>3. /\ i = Len(turns[s]) /\ HolderOf(s) = turns[s][i].id /\ HolderOf(s) # 0
      /\ \A j \in LiveTurns(s) : j = i
  <2>1. i = Len(turns[s]) /\ HolderOf(s) = turns[s][i].id /\ HolderOf(s) # 0
    BY <1>1, HolderIsLive
  <2>2. \A j \in LiveTurns(s) : j = Len(turns[s])
    BY <1>1, HolderIsLive
  <2>3. QED
    BY <2>1, <2>2
<1>4. UNCHANGED <<Phases, Logs, Granted>>
  BY <1>1 DEF Phases, PhaseOf, Logs, Granted
<1>5. /\ Holders' = [Holders EXCEPT ![s] = HolderOf(s)'] /\ Holders[s] = HolderOf(s)
      /\ \A other \in SessionIds \ {s} : HolderOf(other)' = HolderOf(other)
  BY <1>1, OneSessionChanges, SeenAsBefore
<1> HIDE DEF s
<1>6. CASE stage \in LiveStages
  <2>1. i \in LiveTurns(s)'
    BY <1>2, <1>6 DEF LiveTurns
  <2>2. HolderOf(s)' = HolderOf(s)
    BY <1>2, <1>3, <2>1 DEF HolderOf
  <2>3. UNCHANGED Holders
    BY <1>5, <2>2 DEF Holders
  <2>4. QED
    BY <1>1, <1>4, <2>3 DEF Fence!vars
<1>7. CASE stage \notin LiveStages
  <2>1. LiveTurns(s)' = {}
    BY <1>2, <1>3, <1>7 DEF LiveTurns
  <2>2. HolderOf(s)' = 0
    BY <2>1 DEF HolderOf
  <2>3. Fence!Release(s)
    BY <1>1, <1>3, <1>4, <1>5, <2>2 DEF Fence!Release
  <2>4. QED
    BY <2>3 DEF s
<1>8. QED
  BY <1>6, <1>7

LEMMA AppendingWrites ==
    ASSUME FenceInv, NEW tok \in tokens, NEW role \in Roles, AppendMessage(tok, role)
    PROVE  Fence!Write(tok.session)
<1> DEFINE s == tok.session
           message == [role |-> role, turn |-> tok.turn]
<1>1. /\ s \in SessionIds /\ tok.turn \in Nat /\ history[s] \in Seq(ConversationMessage)
  BY DEF FenceInv, IInv, TypeOK, TurnToken
<1>2. message \in ConversationMessage /\ message.turn = tok.turn
  BY <1>1 DEF ConversationMessage
<1>3. /\ history'[s] = Push(history[s], message, MaxHistory)
      /\ \A other \in SessionIds \ {s} : history'[other] = history[other]
      /\ UNCHANGED <<status, generation, turns, tokens>>
      /\ status[s] = "active"
  BY <1>1 DEF AppendMessage, Accepts, FenceInv, IInv, TypeOK
<1>4. PICK i \in LiveTurns(s) : turns[s][i].id = tok.turn
  BY DEF AppendMessage, Accepts
<1>5. HolderOf(s) = tok.turn /\ HolderOf(s) # 0
  BY <1>1, <1>4, HolderIsLive
<1> HIDE DEF message
<1>6. \E first \in 1 .. Len(Writers(history[s])) + 1 :
         Writers(history'[s]) =
            SubSeq(Append(Writers(history[s]), tok.turn), first, Len(Writers(history[s])) + 1)
  BY <1>1, <1>2, <1>3, PushedWriters
<1>7. /\ Logs' = [Logs EXCEPT ![s] = Writers(history'[s])]
      /\ Phases[s] = PhaseOf(s) /\ Holders[s] = HolderOf(s)
      /\ Logs[s] = Writers(history[s])
  BY <1>1, <1>3, OneSessionChanges
<1>8. UNCHANGED <<Phases, Holders, Granted>> /\ Phases[s] = "open"
  BY <1>3, <1>7 DEF Phases, PhaseOf, Holders, HolderOf, LiveTurns, Granted
<1>9. Fence!Written(s, tok.turn)
  BY <1>6, <1>7 DEF Fence!Written
<1>10. QED
  BY <1>3, <1>5, <1>7, <1>8, <1>9 DEF Fence!Write

LEMMA InitImplementsFence == Init => Fence!Init
BY DEF Init, Fence!Init, Phases, PhaseOf, Holders, HolderOf, LiveTurns, Granted, Logs, Writers

LEMMA StepImplementsFence ==
    ASSUME FenceInv, FenceInv', [Next]_vars
    PROVE  [Fence!Next]_Fence!vars
<1>1. ASSUME NEW s \in SessionIds,
             \/ CreateSession(s)
             \/ \E oldest \in SessionIds : CreateSessionEvicting(s, oldest)
      PROVE  Fence!Next
  BY <1>1, CreatingOpens DEF Fence!Next
<1>2. ASSUME NEW s \in SessionIds, NEW stage \in LiveStages, NEW with_text \in BOOLEAN,
             BeginTurn(s, stage, with_text)
      PROVE  Fence!Next
  BY <1>2, BeginningGrants DEF Fence!Next
<1>3. ASSUME NEW s \in SessionIds,
             \/ \E clear_history \in BOOLEAN : UpdateContext(s, clear_history)
             \/ \E waiting \in BOOLEAN : SetPendingAccountRequest(s, waiting)
      PROVE  [Fence!Next]_Fence!vars
  BY <1>3, ContextForgets DEF Fence!Next
<1>4. ASSUME NEW s \in SessionIds, Cancel(s) \/ \E id \in Nat : CancelTurn(s, id)
      PROVE  Fence!Next
  BY <1>4, CancellingRaisesFence DEF Fence!Next
<1>5. ASSUME NEW s \in SessionIds, CloseSession(s)
      PROVE  Fence!Next
  BY <1>5, ClosingShuts DEF Fence!Next
<1>6. ASSUME NEW tok \in tokens
      PROVE  tok.session \in SessionIds /\ tok.turn \in Nat
  BY DEF FenceInv, IInv, TypeOK, TurnToken
<1>7. ASSUME NEW tok \in tokens, NEW stage \in TurnStage, Transition(tok, stage)
      PROVE  [Fence!Next]_Fence!vars
  BY <1>6, <1>7, FinishingReleases DEF Fence!Next
<1>8. ASSUME NEW tok \in tokens, NEW stage \in TerminalStages, Terminalize(tok, stage)
      PROVE  [Fence!Next]_Fence!vars
  BY <1>4, <1>6, <1>7, <1>8 DEF Terminalize, TurnStage
<1>9. ASSUME NEW tok \in tokens, NEW role \in Roles, AppendMessage(tok, role)
      PROVE  Fence!Next
  BY <1>6, <1>9, AppendingWrites DEF Fence!Next
<1>10. CASE SessionCall
  BY <1>1, <1>2, <1>3, <1>4, <1>5, <1>10, RefusalShowsNothing, BoundsArePositive
     DEF SessionCall
<1>11. CASE TokenCall
  BY <1>7, <1>8, <1>9, <1>11 DEF TokenCall, SetTranscript, CommitAssistantText, Roles
<1>12. CASE UNCHANGED vars
  BY <1>12 DEF vars, Fence!vars, Phases, PhaseOf, Holders, HolderOf, LiveTurns, Granted, Logs
<1>13. QED
  BY <1>10, <1>11, <1>12 DEF Next

(* Whatever the callers of SessionStore do, each session is a fenced lock  *)
(* around a log: one holder at a time, only the holder writes, a holder    *)
(* that was cancelled never writes again, a shut session keeps no log.     *)
THEOREM StoreIsAFence == Spec => ImplementsTurnFence
<1>1. FenceInv /\ FenceInv' /\ [Next]_vars => [Fence!Next]_Fence!vars
  BY StepImplementsFence
<1>2. QED
  BY <1>1, InitImplementsFence, FenceInvariant, PTL
     DEF Spec, ImplementsTurnFence, Fence!Spec
-----------------------------------------------------------------------------
(* Two remembered turns of one identifier are one turn. *)
LEMMA IdsTellTurnsApart ==
    ASSUME IInv, NEW s \in SessionIds, NEW i \in DOMAIN turns[s], NEW j \in DOMAIN turns[s],
           turns[s][i].id = turns[s][j].id
    PROVE  i = j
<1>1. i \in Nat /\ j \in Nat
  BY DEF IInv, TypeOK
<1>2. turns[s][i].id \in Nat /\ turns[s][j].id \in Nat
  <2>1. turns[s] \in Seq(TurnSnapshot)
    BY DEF IInv, TypeOK
  <2>2. turns[s][i] \in TurnSnapshot /\ turns[s][j] \in TurnSnapshot
    BY <2>1
  <2>3. QED
    BY <2>2 DEF TurnSnapshot
<1>3. ~(i < j) /\ ~(j < i)
  BY <1>2 DEF IInv, TurnsAreOrdered
<1>4. QED
  BY <1>1, <1>3

(* Every turn of a session after a step is a new one, or one from before   *)
(* that was still unfinished or keeps its stage.                           *)
TurnsGoOn(s) ==
    \A j \in DOMAIN turns'[s] :
       \/ turns'[s][j].id = turn_ids + 1
       \/ \E k \in DOMAIN turns[s] :
             /\ turns'[s][j].id = turns[s][k].id
             /\ k \in LiveTurns(s) \/ turns'[s][j].stage = turns[s][k].stage

(* Turns that go on so keep their outcomes. *)
LEMMA OutcomeKept ==
    ASSUME FenceInv, NEW s \in SessionIds,
           TurnsGoOn(s),
           NEW i \in DOMAIN turns[s], NEW j \in DOMAIN turns'[s],
           turns[s][i].stage \in TerminalStages,
           turns'[s][j].id = turns[s][i].id
    PROVE  turns'[s][j].stage = turns[s][i].stage
<1>1. turns[s][i].id # turn_ids + 1
  <2>1. TokenOf(s, turns[s][i]) \in tokens
    BY DEF FenceInv, IInv, TurnsAreOrdered
  <2>2. turns[s][i].id <= turn_ids /\ turn_ids \in Nat /\ turns[s][i].id \in Nat
    BY <2>1 DEF FenceInv, IInv, TokensAreDistinct, TokenOf, TypeOK, TurnToken
  <2>3. QED
    BY <2>2
<1>2. PICK k \in DOMAIN turns[s] :
         /\ turns'[s][j].id = turns[s][k].id
         /\ k \in LiveTurns(s) \/ turns'[s][j].stage = turns[s][k].stage
  BY <1>1 DEF TurnsGoOn
<1>3. k = i
  BY <1>2, IdsTellTurnsApart DEF FenceInv
<1>4. i \notin LiveTurns(s)
  BY DEF LiveTurns, LiveStages, TerminalStages
<1>5. QED
  BY <1>2, <1>3, <1>4

LEMMA SameTurnsGoOn ==
    ASSUME NEW s \in SessionIds, turns'[s] = turns[s] \/ turns'[s] = <<>>
    PROVE  TurnsGoOn(s)
BY DEF TurnsGoOn

LEMMA CancelledTurnsGoOn ==
    ASSUME FenceInv, NEW s \in SessionIds, NEW hit, turns'[s] = CancelledTurns(s, hit)
    PROVE  TurnsGoOn(s)
<1>1. /\ turns[s] \in Seq(TurnSnapshot) /\ turns'[s] \in Seq(TurnSnapshot)
      /\ Len(turns'[s]) = Len(turns[s])
      /\ \A i \in DOMAIN turns[s] :
            /\ turns'[s][i].id = turns[s][i].id
            /\ i \notin LiveTurns(s) => turns'[s][i].stage = turns[s][i].stage
  BY CancelledTurnsType DEF FenceInv, IInv, TypeOK
<1>2. DOMAIN turns'[s] = DOMAIN turns[s]
  BY <1>1
<1>3. QED
  BY <1>1, <1>2 DEF TurnsGoOn

LEMMA StepKeepsOutcomes ==
    ASSUME FenceInv, [Next]_vars, NEW s \in SessionIds
    PROVE  TurnsGoOn(s)
<1>0. IInv /\ TypeOK
  BY DEF FenceInv, IInv
<1>1. ASSUME NEW by \in SessionIds, NEW stage \in LiveStages, NEW with_text \in BOOLEAN,
             BeginTurn(by, stage, with_text)
      PROVE  TurnsGoOn(s)
  <2> DEFINE turn == [id |-> turn_ids + 1, generation |-> generation[by], stage |-> stage]
             pushed == Push(turns[by], turn, MaxTurns)
  <2>1. /\ turns'[by] = pushed
        /\ \A other \in SessionIds \ {by} : turns'[other] = turns[other]
    BY <1>0, <1>1 DEF BeginTurn, TypeOK
  <2>2. turns[by] \in Seq(TurnSnapshot) /\ turn \in TurnSnapshot /\ turn.id = turn_ids + 1
    <3>1. turns[by] \in Seq(TurnSnapshot) /\ generation[by] \in Nat /\ turn_ids \in Nat
      BY <1>0 DEF TypeOK
    <3>2. QED
      BY <3>1 DEF TurnSnapshot, TurnStage
  <2> HIDE DEF turn
  <2>3. \A j \in DOMAIN pushed :
           pushed[j] # turn => \E k \in DOMAIN turns[by] : pushed[j] = turns[by][k]
    BY <2>2, PushedIsOldOrNew, BoundsArePositive
  <2> HIDE DEF pushed
  <2>4. CASE s = by
    BY <2>1, <2>2, <2>3, <2>4 DEF TurnsGoOn
  <2>5. CASE s # by
    BY <2>1, <2>5, SameTurnsGoOn
  <2>6. QED
    BY <2>4, <2>5
<1>2. ASSUME NEW by \in SessionIds, Cancel(by) \/ CloseSession(by) \/ \E id : CancelTurn(by, id)
      PROVE  TurnsGoOn(s)
  <2>1. \E hit : turns' = [turns EXCEPT ![by] = CancelledTurns(by, hit)]
    BY <1>2 DEF Cancel, CloseSession, CancelTurn
  <2>2. CASE s = by
    BY <1>0, <2>1, <2>2, CancelledTurnsGoOn DEF TypeOK
  <2>3. CASE s # by
    BY <1>0, <2>1, <2>3, SameTurnsGoOn DEF TypeOK
  <2>4. QED
    BY <2>2, <2>3
<1>3. ASSUME NEW tok \in tokens, NEW stage \in TurnStage, Transition(tok, stage)
      PROVE  TurnsGoOn(s)
  <2>1. CASE s = tok.session
    <3>1. PICK i \in LiveTurns(tok.session) :
             /\ DOMAIN turns'[tok.session] = DOMAIN turns[tok.session]
             /\ turns'[tok.session][i].id = turns[tok.session][i].id
             /\ \A j \in DOMAIN turns[tok.session] \ {i} :
                   turns'[tok.session][j] = turns[tok.session][j]
      BY <1>3, TransitionFacts
    <3>2. i \in LiveTurns(s) /\ i \in DOMAIN turns[s]
      BY <2>1 DEF LiveTurns
    <3>3. QED
      BY <2>1, <3>1, <3>2 DEF TurnsGoOn
  <2>2. CASE s # tok.session
    BY <1>3, <2>2, TransitionFacts, SameTurnsGoOn
  <2>3. QED
    BY <2>1, <2>2
<1>4. ASSUME NEW tok \in tokens, NEW stage \in TerminalStages, Terminalize(tok, stage)
      PROVE  TurnsGoOn(s)
  BY <1>0, <1>2, <1>3, <1>4 DEF Terminalize, TurnStage, TypeOK, TurnToken
<1>5. CASE UNCHANGED turns \/ \E oldest \in SessionIds : turns' = [turns EXCEPT ![oldest] = <<>>]
  BY <1>0, <1>5, SameTurnsGoOn DEF TypeOK
<1>6. CASE SessionCall
  BY <1>1, <1>2, <1>5, <1>6
  DEF SessionCall, CreateSession, CreateSessionEvicting, CreateSessionRefused, UpdateContext,
      SetPendingAccountRequest
<1>7. CASE TokenCall
  BY <1>3, <1>4, <1>5, <1>7
  DEF TokenCall, SetTranscript, CommitAssistantText, AppendMessage
<1>8. QED
  BY <1>5, <1>6, <1>7 DEF Next, vars

(* The outcome of a turn stands as long as the turn is remembered: no late *)
(* answer, second stop or closing of the session rewrites it.              *)
THEOREM OutcomesAreFinal == Spec => OutcomeIsFinal
<1>1. FenceInv /\ [Next]_vars =>
         [\A s \in SessionIds : \A i \in DOMAIN turns[s] : \A j \in DOMAIN turns'[s] :
             /\ turns[s][i].stage \in TerminalStages
             /\ turns'[s][j].id = turns[s][i].id
             => turns'[s][j].stage = turns[s][i].stage]_vars
  BY StepKeepsOutcomes, OutcomeKept DEF TurnsGoOn
<1>2. QED
  BY <1>1, FenceInvariant, PTL DEF Spec, OutcomeIsFinal

=============================================================================
