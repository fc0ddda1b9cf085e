---------------------------- MODULE SessionStore ----------------------------
(***************************************************************************)
(* The in-memory store of private conversation sessions                    *)
(* (metis_head/conversation/session.py).  Every public method of           *)
(* SessionStore takes the store's RLock for its whole body, so each method *)
(* is one action.  The callers are request threads of a web server that    *)
(* hold a TurnToken for as long as they like; here any token ever handed   *)
(* out may be presented at any time, with any stage.                       *)
(*                                                                         *)
(* Left out: message texts, timestamps other than the order in which       *)
(* sessions were last touched, failure codes, and the selected context     *)
(* (accounts, calendars, timezone, project), which no method of the store  *)
(* reads.  A call that raises or returns False changes nothing and is not  *)
(* a step.                                                                 *)
(***************************************************************************)
EXTENDS Naturals, Sequences, FiniteSets

CONSTANTS SessionIds,       \* identifiers uuid4 may return for sessions, each used once
          MaxSessions,      \* max_sessions: sessions the store keeps
          MaxTurns,         \* max_turns: turns a session remembers
          MaxHistory,       \* max_history_messages: messages a session remembers
          TurnLimit,        \* bound of the model: turn identifiers drawn
          GenerationLimit   \* bound of the model: cancellations of one session

ASSUME BoundsArePositive ==
    /\ MaxSessions \in Nat \ {0}
    /\ MaxTurns \in Nat \ {0}
    /\ MaxHistory \in Nat \ {0}
    /\ TurnLimit \in Nat
    /\ GenerationLimit \in Nat

VARIABLES status,       \* "unused" and "evicted" sessions are not in the dictionary
          generation,   \* session.generation
          turns,        \* session.turns: the remembered turns, oldest first
          history,      \* session.history: the private messages, oldest first
          pending,      \* is session.pending_account_request set?
          older,        \* pairs of stored sessions in the order of updated_at
          tokens,       \* every TurnToken begin_turn has returned (held by callers)
          turn_ids      \* turn identifiers drawn so far; the next one is fresh

vars == <<status, generation, turns, history, pending, older, tokens, turn_ids>>
-----------------------------------------------------------------------------
TerminalStages == {"completed", "cancelled", "failed"}
LiveStages == {"capturing", "transcribing", "thinking", "synthesizing",
               "playback_queued", "playing"}
TurnStage == LiveStages \cup TerminalStages

(* The legal stage changes.  Cancellation and failure are legal from every *)
(* live stage.                                                             *)
Transitions ==
    {<<"capturing", "transcribing">>, <<"capturing", "thinking">>,
     <<"transcribing", "thinking">>,
     <<"thinking", "synthesizing">>, <<"thinking", "completed">>,
     <<"synthesizing", "playback_queued">>, <<"synthesizing", "completed">>,
     <<"playback_queued", "playing">>, <<"playing", "completed">>}
    \cup (LiveStages \X {"cancelled", "failed"})

Roles == {"user", "assistant"}
TurnToken == [session: SessionIds, turn: Nat, generation: Nat]
TurnSnapshot == [id: Nat, generation: Nat, stage: TurnStage]
ConversationMessage == [role: Roles, turn: Nat]

Stored == {s \in SessionIds : status[s] \in {"active", "closed"}}
Closed == {s \in SessionIds : status[s] = "closed"}

LiveTurns(s) == {i \in DOMAIN turns[s] : turns[s][i].stage \in LiveStages}
TokenOf(s, turn) == [session |-> s, turn |-> turn.id, generation |-> turn.generation]

(* collections.deque(maxlen=limit).append *)
Push(deque, item, limit) ==
    IF Len(deque) < limit THEN Append(deque, item) ELSE Append(Tail(deque), item)

(* session.updated_at = now: s becomes the most recently touched session.  *)
Touched(s) == {p \in older : p[1] # s} \cup ((Stored \ {s}) \X {s})

(* A token is current while its session is active, no cancellation has     *)
(* moved the generation, and its turn is remembered and unfinished.        *)
Accepts(tok) ==
    /\ status[tok.session] = "active"
    /\ generation[tok.session] = tok.generation
    /\ \E i \in LiveTurns(tok.session) :
          /\ turns[tok.session][i].id = tok.turn
          /\ turns[tok.session][i].generation = tok.generation
-----------------------------------------------------------------------------
Init ==
    /\ status = [s \in SessionIds |-> "unused"]
    /\ generation = [s \in SessionIds |-> 0]
    /\ turns = [s \in SessionIds |-> <<>>]
    /\ history = [s \in SessionIds |-> <<>>]
    /\ pending = [s \in SessionIds |-> FALSE]
    /\ older = {}
    /\ tokens = {}
    /\ turn_ids = 0

(* There is room for one more session. *)
CreateSession(s) ==
    /\ status[s] = "unused"
    /\ Cardinality(Stored) < MaxSessions
    /\ status' = [status EXCEPT ![s] = "active"]
    /\ older' = Touched(s)
    /\ UNCHANGED <<generation, turns, history, pending, tokens, turn_ids>>

(* The store is full: the closed session touched longest ago makes room.   *)
(* With no closed session create_session raises.                           *)
CreateSessionEvicting(s, oldest) ==
    /\ status[s] = "unused"
    /\ Cardinality(Stored) >= MaxSessions
    /\ oldest \in Closed
    /\ \A c \in Closed \ {oldest} : <<oldest, c>> \in older
    /\ status' = [status EXCEPT ![oldest] = "evicted", ![s] = "active"]
    /\ older' = {p \in Touched(s) : p[1] # oldest /\ p[2] # oldest}
    /\ turns' = [turns EXCEPT ![oldest] = <<>>]
    /\ history' = [history EXCEPT ![oldest] = <<>>]
    /\ pending' = [pending EXCEPT ![oldest] = FALSE]
    /\ UNCHANGED <<generation, tokens, turn_ids>>

(* The store was full and the context of the new session is not usable:    *)
(* room has been made when create_session raises, and nothing is created.  *)
CreateSessionRefused(oldest) ==
    /\ Cardinality(Stored) >= MaxSessions
    /\ oldest \in Closed
    /\ \A c \in Closed \ {oldest} : <<oldest, c>> \in older
    /\ status' = [status EXCEPT ![oldest] = "evicted"]
    /\ older' = {p \in older : p[1] # oldest /\ p[2] # oldest}
    /\ turns' = [turns EXCEPT ![oldest] = <<>>]
    /\ history' = [history EXCEPT ![oldest] = <<>>]
    /\ pending' = [pending EXCEPT ![oldest] = FALSE]
    /\ UNCHANGED <<generation, tokens, turn_ids>>

(* One unfinished turn per session.  A typed turn starts with its message; *)
(* a spoken one starts without and gets its transcript later.              *)
BeginTurn(s, stage, with_text) ==
    /\ status[s] = "active"
    /\ LiveTurns(s) = {}
    /\ turn_ids < TurnLimit
    /\ LET turn == [id |-> turn_ids + 1, generation |-> generation[s], stage |-> stage]
       IN  /\ turns' = [turns EXCEPT ![s] = Push(@, turn, MaxTurns)]
           /\ tokens' = tokens \cup {TokenOf(s, turn)}
    /\ history' = IF with_text
                  THEN [history EXCEPT ![s] =
                          Push(@, [role |-> "user", turn |-> turn_ids + 1], MaxHistory)]
                  ELSE history
    /\ turn_ids' = turn_ids + 1
    /\ older' = Touched(s)
    /\ UNCHANGED <<status, generation, pending>>

(* Selecting another context may wipe the private history. *)
UpdateContext(s, clear_history) ==
    /\ status[s] = "active"
    /\ history' = IF clear_history THEN [history EXCEPT ![s] = <<>>] ELSE history
    /\ older' = Touched(s)
    /\ UNCHANGED <<status, generation, turns, pending, tokens, turn_ids>>

(* One request waiting for the user to say which account was meant.        *)
SetPendingAccountRequest(s, waiting) ==
    /\ status[s] = "active"
    /\ pending' = [pending EXCEPT ![s] = waiting]
    /\ older' = Touched(s)
    /\ UNCHANGED <<status, generation, turns, history, tokens, turn_ids>>

(* Faulty variant: neither the token nor the table of stages is consulted. *)
TransitionUnchecked(tok, stage) ==
    /\ tok.session \in Stored
    /\ \E i \in DOMAIN turns[tok.session] :
          /\ turns[tok.session][i].id = tok.turn
          /\ turns' = [turns EXCEPT ![tok.session][i].stage = stage]
    /\ older' = Touched(tok.session)
    /\ UNCHANGED <<status, generation, history, pending, tokens, turn_ids>>

(* Every other outcome of transition (stale token, repeated stage, illegal *)
(* stage) leaves the store as it was.                                      *)
Transition(tok, stage) ==
    /\ Accepts(tok)
    /\ \E i \in LiveTurns(tok.session) :
          /\ turns[tok.session][i].id = tok.turn
          /\ <<turns[tok.session][i].stage, stage>> \in Transitions
          /\ turns' = [turns EXCEPT ![tok.session][i].stage = stage]
    /\ older' = Touched(tok.session)
    /\ UNCHANGED <<status, generation, history, pending, tokens, turn_ids>>

(* Faulty variant: the message is stored without looking at the token. *)
AppendMessageUnchecked(tok, role) ==
    /\ tok.session \in Stored
    /\ history' = [history EXCEPT ![tok.session] =
                     Push(@, [role |-> role, turn |-> tok.turn], MaxHistory)]
    /\ older' = Touched(tok.session)
    /\ UNCHANGED <<status, generation, turns, pending, tokens, turn_ids>>

(* set_transcript stores what the user said, commit_assistant_text what    *)
(* the model answered; both only for current work.                         *)
AppendMessage(tok, role) ==
    /\ Accepts(tok)
    /\ history' = [history EXCEPT ![tok.session] =
                     Push(@, [role |-> role, turn |-> tok.turn], MaxHistory)]
    /\ older' = Touched(tok.session)
    /\ UNCHANGED <<status, generation, turns, pending, tokens, turn_ids>>
SetTranscript(tok) == AppendMessage(tok, "user")
CommitAssistantText(tok) == AppendMessage(tok, "assistant")

(* Faulty variant: an outcome that is not a stage. *)
CancelledTurnsMislabelled(s, hit) ==
    [i \in DOMAIN turns[s] |->
        IF i \in hit \cap LiveTurns(s) THEN [turns[s][i] EXCEPT !.stage = "stopped"]
                                       ELSE turns[s][i]]

(* The turns of s after cancelling the live ones among the positions hit.  *)
CancelledTurns(s, hit) ==
    [i \in DOMAIN turns[s] |->
        IF i \in hit \cap LiveTurns(s) THEN [turns[s][i] EXCEPT !.stage = "cancelled"]
                                       ELSE turns[s][i]]

(* Faulty variant: the generation moves, the unfinished turn stays. *)
CancelKeepsTurn(s) ==
    /\ s \in Stored
    /\ generation[s] < GenerationLimit
    /\ generation' = [generation EXCEPT ![s] = @ + 1]
    /\ older' = Touched(s)
    /\ UNCHANGED <<status, turns, history, pending, tokens, turn_ids>>

(* cancel(session_id): every outstanding token becomes stale. *)
Cancel(s) ==
    /\ s \in Stored
    /\ generation[s] < GenerationLimit
    /\ generation' = [generation EXCEPT ![s] = @ + 1]
    /\ turns' = [turns EXCEPT ![s] = CancelledTurns(s, DOMAIN turns[s])]
    /\ older' = Touched(s)
    /\ UNCHANGED <<status, history, pending, tokens, turn_ids>>

(* cancel(session_id, turn_id=...): nothing happens for a finished turn. *)
CancelTurn(s, id) ==
    /\ s \in Stored
    /\ generation[s] < GenerationLimit
    /\ \E i \in LiveTurns(s) :
          /\ turns[s][i].id = id
          /\ turns' = [turns EXCEPT ![s] = CancelledTurns(s, {i})]
    /\ generation' = [generation EXCEPT ![s] = @ + 1]
    /\ older' = Touched(s)
    /\ UNCHANGED <<status, history, pending, tokens, turn_ids>>

(* terminalize: cancellation goes through cancel, the other outcomes       *)
(* through transition.                                                     *)
Terminalize(tok, stage) ==
    /\ stage \in TerminalStages
    /\ IF stage = "cancelled" THEN Accepts(tok) /\ CancelTurn(tok.session, tok.turn)
                              ELSE Transition(tok, stage)

CloseSession(s) ==
    /\ s \in Stored
    /\ generation[s] < GenerationLimit
    /\ generation' = [generation EXCEPT ![s] = @ + 1]
    /\ turns' = [turns EXCEPT ![s] = CancelledTurns(s, DOMAIN turns[s])]
    /\ status' = [status EXCEPT ![s] = "closed"]
    /\ history' = [history EXCEPT ![s] = <<>>]
    /\ pending' = [pending EXCEPT ![s] = FALSE]
    /\ older' = Touched(s)
    /\ UNCHANGED <<tokens, turn_ids>>

SessionCall ==
    \E s \in SessionIds :
       \/ CreateSession(s)
       \/ \E oldest \in SessionIds : CreateSessionEvicting(s, oldest)
       \/ CreateSessionRefused(s)
       \/ \E stage \in LiveStages, with_text \in BOOLEAN : BeginTurn(s, stage, with_text)
       \/ \E clear_history \in BOOLEAN : UpdateContext(s, clear_history)
       \/ \E waiting \in BOOLEAN : SetPendingAccountRequest(s, waiting)
       \/ Cancel(s)
       \/ \E id \in 1 .. TurnLimit : CancelTurn(s, id)
       \/ CloseSession(s)

TokenCall ==
    \E tok \in tokens :
       \/ \E stage \in TurnStage : Transition(tok, stage)
       \/ \E stage \in TerminalStages : Terminalize(tok, stage)
       \/ SetTranscript(tok)
       \/ CommitAssistantText(tok)

Next == SessionCall \/ TokenCall

Spec == Init /\ [][Next]_vars
-----------------------------------------------------------------------------
TypeOK ==
    /\ status \in [SessionIds -> {"unused", "active", "closed", "evicted"}]
    /\ generation \in [SessionIds -> Nat]
    /\ turns \in [SessionIds -> Seq(TurnSnapshot)]
    /\ history \in [SessionIds -> Seq(ConversationMessage)]
    /\ pending \in [SessionIds -> BOOLEAN]
    /\ older \subseteq SessionIds \X SessionIds
    /\ tokens \subseteq TurnToken
    /\ turn_ids \in Nat

(* An unfinished turn is the newest of its session, and the token that was *)
(* handed out for it is still accepted.  begin_turn refuses while an       *)
(* unfinished turn exists, so an unfinished turn whose own token is stale  *)
(* would block its session for good; and the bounded deque drops turns     *)
(* from the old end, so an unfinished turn elsewhere could be forgotten.   *)
UnfinishedTurnHasItsToken ==
    \A s \in SessionIds : \A i \in LiveTurns(s) :
       /\ i = Len(turns[s])
       /\ TokenOf(s, turns[s][i]) \in tokens
       /\ Accepts(TokenOf(s, turns[s][i]))

(* A closed or evicted session holds no private text: nothing that was     *)
(* still running when it was closed can write to it afterwards.            *)
ClosedSessionIsEmpty ==
    \A s \in SessionIds :
       status[s] # "active" => history[s] = <<>> /\ ~pending[s]

(* The private history is in the order of the turns: once a newer turn has *)
(* written, late work of an older one cannot slip a message in behind it.  *)
HistoryFollowsTurns ==
    \A s \in SessionIds : \A i, j \in DOMAIN history[s] :
       i < j => history[s][i].turn <= history[s][j].turn

(* What makes the invariants above inductive.  Turn identifiers are drawn  *)
(* in increasing order and never twice; a session remembers its turns in   *)
(* that order, and has handed out a token for each; no token is ahead of   *)
(* the generation of its session; no message is ahead of the newest turn.  *)
TokensAreDistinct ==
    \A tok \in tokens :
       /\ tok.turn <= turn_ids
       /\ tok.generation <= generation[tok.session]
       /\ status[tok.session] # "unused"
       /\ \A other \in tokens : other.turn = tok.turn => other = tok

TurnsAreOrdered ==
    \A s \in SessionIds : \A i \in DOMAIN turns[s] :
       /\ TokenOf(s, turns[s][i]) \in tokens
       /\ \A j \in DOMAIN turns[s] : i < j => turns[s][i].id < turns[s][j].id

UnfinishedTurnIsCurrent ==
    \A s \in SessionIds : \A i \in LiveTurns(s) :
       /\ i = Len(turns[s])
       /\ status[s] = "active"
       /\ turns[s][i].generation = generation[s]

HistoryIsOfRememberedTurns ==
    \A s \in SessionIds : \A i \in DOMAIN history[s] :
       /\ turns[s] # <<>>
       /\ history[s][i].turn <= turns[s][Len(turns[s])].id

IInv ==
    /\ TypeOK
    /\ TokensAreDistinct
    /\ TurnsAreOrdered
    /\ UnfinishedTurnIsCurrent
    /\ HistoryIsOfRememberedTurns
    /\ HistoryFollowsTurns
    /\ ClosedSessionIsEmpty

(* A token that is not accepted now is never accepted again: not after     *)
(* more cancellations, a new turn, an eviction or a new session.           *)
StaleTokenStaysStale ==
    [][\A tok \in tokens : Accepts(tok)' => Accepts(tok)]_vars

(* The outcome recorded for a turn never changes while it is remembered.   *)
OutcomeIsFinal ==
    [][\A s \in SessionIds : \A i \in DOMAIN turns[s] : \A j \in DOMAIN turns'[s] :
         /\ turns[s][i].stage \in TerminalStages
         /\ turns'[s][j].id = turns[s][i].id
         => turns'[s][j].stage = turns[s][i].stage]_vars

(* The sessions are of their types, remember in the order of their turns,  *)
(* and keep nothing once they are closed, whatever late work arrives.      *)
SessionsAreSound == TypeOK /\ HistoryFollowsTurns /\ ClosedSessionIsEmpty
=============================================================================
