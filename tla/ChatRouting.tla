----------------------------- MODULE ChatRouting -----------------------------
(***************************************************************************)
(* POST /metis/chat of src/metis_head/brain.py for one conversation        *)
(* session: which accounts a message may use, what becomes of the history  *)
(* when that changes, and which way each message takes to its answer.      *)
(*                                                                         *)
(* Typed messages are routed before their turn begins.  A spoken message   *)
(* comes from _run_stt_route_cycle, within the turn that began with its    *)
(* recording, and so is in the history when it is routed.                  *)
(*                                                                         *)
(* The calls of one routing decision on the session store are one step,    *)
(* the reads it was based on another.  A turn ends with its answer here;   *)
(* Conversation has the speech that may follow.  A message without a       *)
(* session is routed too, and changes nothing.                             *)
(***************************************************************************)
EXTENDS AccountRouting

CONSTANTS
    ChatRequests,
    Messages,       \* what a user may say
    NoMessage,
    Setups,         \* the lists of profiles the setup may hold
    MailAccounts,   \* the accounts they name
    ChatTurnLimit,  \* bound: turns of the session
    ChangeLimit     \* bound: changes by others than the requests

\* profiles_from_setup keeps the first profile of each account.
ASSUME RoutingAssumption ==
    /\ \A message \in Messages : message \in Seq(Words(message))
    /\ \A list \in Setups :
          /\ list \in Seq(ToSet(list))
          /\ \A i, j \in DOMAIN list : list[i].account = list[j].account => i = j

VARIABLES
    profiles,       \* the profiles of the setup that have an account
    connected,      \* accounts with a connection that covers the profile's calendars
    context,        \* the accounts selected for the session
    question,       \* session.pending_account_request
    chatHistory,    \* session.history
    activeTurn,     \* the turn that is not over, or 0
    chatTurns,      \* turns begun so far
    chat,           \* the requests under way
    changes,        \* bookkeeping: changes made by others so far
    alone,          \* bookkeeping: no two requests have been under way at once
    steered         \* bookkeeping: an operator has selected accounts and the history was not cleared since

chatVars == <<profiles, connected, context, question, chatHistory, activeTurn, chatTurns, chat,
              changes, alone, steered>>

NoChat == [at |-> "idle", voice |-> FALSE, message |-> NoMessage, turn |-> 0,
           profiles |-> <<>>, context |-> <<>>, question |-> NoMessage,
           asks |-> NoMessage, given |-> <<>>, offered |-> {}, under |-> <<>>]

\* What the store remembers of a message, and the accounts it was said or made under.
Entry(role, turn, message, under) ==
    [role |-> role, turn |-> turn, message |-> message, under |-> under]

ChatInit ==
    /\ profiles \in Setups
    /\ connected \in SUBSET MailAccounts
    /\ context \in {<<>>} \cup {<<account>> : account \in connected}
    /\ question = NoMessage
    /\ chatHistory = <<>>
    /\ activeTurn = 0 /\ chatTurns = 0
    /\ chat = [r \in ChatRequests |-> NoChat]
    /\ changes = 0 /\ alone = TRUE /\ steered = FALSE

-----------------------------------------------------------------------------
Goes(r, doing) == chat' = [chat EXCEPT ![r] = doing]
At(r, place) == Goes(r, [chat[r] EXCEPT !.at = place])
Ends(r) == Goes(r, NoChat)

World == <<profiles, connected, changes>>
Session == <<context, question, chatHistory, steered>>
Turns == <<activeTurn, chatTurns>>

ChatArrives(r) ==
    /\ chat[r].at = "idle"
    /\ alone' = (alone /\ \A other \in ChatRequests \ {r} : chat[other].at = "idle")

AcceptsTurn(r) == chat[r].turn # 0 /\ activeTurn = chat[r].turn
Current(r) == chat[r].turn = 0 \/ AcceptsTurn(r)

Remember(entry) == chatHistory' = Append(chatHistory, entry)

\* A typed message.
Types(r, message) ==
    /\ ChatArrives(r)
    /\ Goes(r, [NoChat EXCEPT !.at = "reading", !.message = message])
    /\ UNCHANGED <<World, Session, Turns>>

\* Recording begins a turn ...
Records(r) ==
    /\ ChatArrives(r)
    /\ activeTurn = 0 /\ chatTurns < ChatTurnLimit
    /\ activeTurn' = chatTurns + 1 /\ chatTurns' = chatTurns + 1
    /\ Goes(r, [NoChat EXCEPT !.at = "recording", !.voice = TRUE, !.turn = chatTurns + 1])
    /\ UNCHANGED <<World, Session>>

\* ... and set_transcript puts its words into the history; without words it fails.
Transcribes(r, message) ==
    /\ chat[r].at = "recording"
    /\ \/ /\ AcceptsTurn(r)
          /\ Remember(Entry("user", chat[r].turn, message, context))
          /\ Goes(r, [chat[r] EXCEPT !.at = "reading", !.message = message])
          /\ UNCHANGED activeTurn
       \/ /\ activeTurn' = IF AcceptsTurn(r) THEN 0 ELSE activeTurn
          /\ Ends(r)
          /\ UNCHANGED chatHistory
    /\ UNCHANGED <<World, context, question, steered, chatTurns, alone>>

-----------------------------------------------------------------------------
\* _route_chat_account_context

RouteReads(r) ==
    /\ chat[r].at = "reading"
    /\ Goes(r, [chat[r] EXCEPT !.at = "routing", !.profiles = profiles, !.context = context,
                               !.question = question,
                               !.asks = IF question = NoMessage THEN chat[r].message ELSE question])
    /\ UNCHANGED <<World, Session, Turns, alone>>

KnownAccounts(list) == {list[i].account : i \in DOMAIN list}

\* SessionStore.update_context
Select(accounts, clear) ==
    /\ context' = accounts
    /\ chatHistory' = IF clear THEN <<>> ELSE chatHistory
    /\ steered' = (steered /\ ~clear)

\* A context that names an account no longer in the setup, or not connected any more, is
\* revoked together with the history.
Revoked(r) ==
    /\ chat[r].context # <<>>
    /\ ~ ToSet(chat[r].context) \subseteq KnownAccounts(chat[r].profiles) \cap connected

\* What a route may do with the session.
Keep(revoked) ==
    IF revoked THEN Select(<<>>, TRUE) ELSE UNCHANGED <<context, chatHistory, steered>>

(* Faulty variant: the context changes and the history stays. *)
AdoptsKeepingHistory(accounts, clear) == Select(accounts, FALSE)

Adopts(accounts, clear) == Select(accounts, clear)

Routed(r, place, message) ==
    Goes(r, [NoChat EXCEPT !.at = place, !.message = message, !.asks = chat[r].asks,
                           !.voice = chat[r].voice, !.turn = chat[r].turn])

\* The answer is a question to the user, or another word of the router's own.
Tells(r) == Routed(r, "telling", chat[r].message)

\* What was asked goes on to be answered.
Passes(r) == Routed(r, "beginning", chat[r].message)

(* Faulty variant: after the clarification the reply itself is answered. *)
RestoresReply(r) == Routed(r, "beginning", chat[r].message)

Restores(r) == Routed(r, "restored", chat[r].question)

\* An account named in the setup that is not connected: _set_session_account_context raises.
Refused(r, accounts) == ~ ToSet(accounts) \subseteq connected

\* While a request waits for its account.
RouteClarification(r) ==
    /\ chat[r].at = "routing" /\ chat[r].question # NoMessage
    /\ \E result \in {Resolve(chat[r].message, chat[r].profiles, "required")} :
        /\ \/ /\ result.status = "cancelled"
              /\ question' = NoMessage
              /\ Keep(Revoked(r)) /\ Tells(r)
           \/ /\ result.matched # <<>> /\ ~Refused(r, result.matched)
              /\ question' = NoMessage
              /\ Adopts(result.matched, TRUE) /\ Restores(r)
           \/ /\ result.matched # <<>> /\ Refused(r, result.matched)
              /\ Keep(Revoked(r)) /\ Ends(r) /\ UNCHANGED question
           \/ /\ result.status # "cancelled" /\ result.matched = <<>>
              /\ Keep(Revoked(r)) /\ Tells(r) /\ UNCHANGED question
        /\ UNCHANGED <<World, Turns, alone>>

\* Otherwise: the accounts the message names; those the session has, if it asks for account
\* data and names none; a question; or nothing to do with accounts.
RouteMessage(r) ==
    /\ chat[r].at = "routing" /\ chat[r].question = NoMessage
    /\ \E result \in {Resolve(chat[r].message, chat[r].profiles, "unknown")} :
        LET revoked == Revoked(r)
            present == IF revoked THEN <<>> ELSE chat[r].context
            unclear == result.status = "clarification_required"
            continues == unclear /\ present # <<>> /\ ~result.explicit /\ result.excluded = {}
        IN  /\ \/ /\ result.matched # <<>> /\ ~Refused(r, result.matched)
                  /\ Adopts(result.matched, result.matched # present)
                  /\ Passes(r) /\ UNCHANGED question
               \/ /\ result.matched # <<>> /\ Refused(r, result.matched)
                  /\ Keep(revoked) /\ Ends(r) /\ UNCHANGED question
               \/ /\ unclear /\ ~continues
                  /\ Keep(chat[r].context # <<>>)
                  /\ question' = chat[r].message
                  /\ Tells(r)
               \/ /\ continues \/ (result.matched = <<>> /\ ~unclear)
                  /\ Keep(revoked)
                  /\ UNCHANGED question
                  /\ IF result.status = "no_profiles" /\ result.request THEN Tells(r) ELSE Passes(r)
            /\ UNCHANGED <<World, Turns, alone>>

-----------------------------------------------------------------------------
\* The turn.  A spoken message has one; its restored question is put into the history.
Begins(r) ==
    /\ chat[r].at \in {"beginning", "restored", "telling"}
    /\ LET next == IF chat[r].at = "telling" THEN "replying" ELSE "choosing"
       IN  \/ /\ chat[r].voice /\ AcceptsTurn(r)
              /\ IF chat[r].at = "restored"
                 THEN Remember(Entry("user", chat[r].turn, chat[r].message, context))
                 ELSE UNCHANGED chatHistory
              /\ At(r, next)
              /\ UNCHANGED Turns
           \/ /\ ~chat[r].voice /\ activeTurn = 0 /\ chatTurns < ChatTurnLimit
              /\ activeTurn' = chatTurns + 1 /\ chatTurns' = chatTurns + 1
              /\ Remember(Entry("user", chatTurns + 1, chat[r].message, context))
              /\ Goes(r, [chat[r] EXCEPT !.at = next, !.turn = chatTurns + 1])
           \/ /\ IF chat[r].voice THEN ~AcceptsTurn(r) ELSE activeTurn # 0
              /\ Ends(r)
              /\ UNCHANGED <<chatHistory, activeTurn, chatTurns>>
    /\ UNCHANGED <<World, context, question, steered, alone>>

\* _finish_chat_turn: an answer that still counts is kept, and the turn is over.
Finishes(r, under) ==
    /\ IF AcceptsTurn(r)
       THEN /\ Remember(Entry("assistant", chat[r].turn, NoMessage, under))
            /\ activeTurn' = 0
       ELSE UNCHANGED <<chatHistory, activeTurn>>
    /\ Ends(r)
    /\ UNCHANGED <<World, context, question, steered, chatTurns, alone>>

\* _fail_chat_turn
Fails(r) ==
    /\ activeTurn' = IF AcceptsTurn(r) THEN 0 ELSE activeTurn
    /\ Ends(r)
    /\ UNCHANGED <<World, Session, chatTurns, alone>>

\* The request is refused and nothing is done about its turn.
Raises(r) == Ends(r) /\ UNCHANGED <<World, Session, Turns, alone>>

\* The account router's own reply.
Replies(r) == chat[r].at = "replying" /\ Finishes(r, context)

\* Messages the head answers itself: a plan, its status, the next action, the queues, its
\* capabilities, an MCP read or a tool.
AnswersItself(r) == chat[r].at = "choosing" /\ Finishes(r, context)

\* A plan without a task, arguments a tool does not take.
RefusesRequest(r) == chat[r].at = "choosing" /\ Fails(r)

\* _resolve_chat_plan and _next_action_instruction: no such plan, no such proposal.
FindsNothing(r) == chat[r].at = "choosing" /\ Raises(r)

\* All else is for the model, once sources have been retrieved.
AsksModel(r) ==
    /\ chat[r].at = "choosing"
    /\ At(r, "restoring")
    /\ UNCHANGED <<World, Session, Turns, alone>>

CutShort(r) ==
    /\ chat[r].at \in {"restoring", "dispatching"} /\ ~Current(r)
    /\ Raises(r)

\* The broker of the connected accounts is restored and held to those the session has
\* selected, if any (Accounts has its reads); the model is given the history ...
Assembles(r) ==
    /\ chat[r].at = "restoring" /\ Current(r)
    /\ Goes(r, [chat[r] EXCEPT !.at = "dispatching", !.given = chatHistory,
                               !.offered = IF context = <<>> THEN connected
                                           ELSE connected \cap ToSet(context)])
    /\ UNCHANGED <<World, Session, Turns, alone>>

\* ... and the accounts of the context as it is then.  Unless that is a single one, an
\* account that is the only one the broker offers stands for them.
Dispatches(r) ==
    LET offered == chat[r].offered
        sole == {account \in offered : offered = {account} /\ Len(context) # 1}
        under == IF sole = {} THEN context ELSE <<CHOOSE account \in sole : TRUE>>
    IN  /\ chat[r].at = "dispatching" /\ Current(r)
        /\ Goes(r, [chat[r] EXCEPT !.at = "answering", !.under = under])
        /\ UNCHANGED <<World, Session, Turns, alone>>

ModelAnswers(r) == chat[r].at = "answering" /\ Finishes(r, chat[r].under)
ModelFails(r) == chat[r].at = "answering" /\ Fails(r)

-----------------------------------------------------------------------------
\* Everybody else.

Changes == changes < ChangeLimit /\ changes' = changes + 1

\* POST /metis/sessions/{session_id}/context and the selection of calendars keep the history.
SelectsContext(accounts) ==
    /\ Changes
    /\ ToSet(accounts) \subseteq connected
    /\ context' = accounts /\ accounts # context
    /\ steered' = TRUE
    /\ UNCHANGED <<profiles, connected, question, chatHistory, Turns, chat, alone>>

\* POST /metis/sessions/{session_id}/cancel
CancelsTurn ==
    /\ Changes
    /\ activeTurn # 0
    /\ activeTurn' = 0
    /\ UNCHANGED <<profiles, connected, Session, chatTurns, chat, alone>>

ChangesSetup ==
    /\ Changes
    /\ profiles' \in Setups \ {profiles}
    /\ UNCHANGED <<connected, Session, Turns, chat, alone>>

ChangesConnection(account) ==
    /\ Changes
    /\ connected' = IF account \in connected THEN connected \ {account} ELSE connected \cup {account}
    /\ UNCHANGED <<profiles, Session, Turns, chat, alone>>

ChatStep(r) ==
    \/ \E message \in Messages : Types(r, message) \/ Transcribes(r, message)
    \/ Records(r) \/ RouteReads(r) \/ RouteClarification(r) \/ RouteMessage(r)
    \/ Begins(r) \/ Replies(r) \/ AnswersItself(r) \/ RefusesRequest(r) \/ FindsNothing(r)
    \/ AsksModel(r) \/ CutShort(r) \/ Assembles(r) \/ Dispatches(r)
    \/ ModelAnswers(r) \/ ModelFails(r)

ChatNext ==
    \/ \E r \in ChatRequests : ChatStep(r)
    \/ CancelsTurn \/ ChangesSetup
    \/ \E account \in MailAccounts : ChangesConnection(account) \/ SelectsContext(<<account>>)

ChatSpec == ChatInit /\ [][ChatNext]_chatVars

-----------------------------------------------------------------------------
\* Said or answered under the accounts a session has; where that is not a single one, also
\* under one of them that stood for all, or, where it has none, under whichever did.
InScope(under, accounts) ==
    \/ under = accounts
    \/ /\ Len(accounts) # 1 /\ Len(under) = 1
       /\ accounts = <<>> \/ ToSet(under) \subseteq ToSet(accounts)

\* With one request at a time, and unless an operator chooses otherwise: once a session has
\* accounts, nothing in its history was said or answered under others.  Nothing is claimed
\* while it has none: an answer given under the only connected account is still there when
\* that is another one.
HistoryStaysInScope ==
    alone /\ ~steered => \A i \in DOMAIN chatHistory : InScope(chatHistory[i].under, context)

\* What the user said in this turn, as the model is given it.
Said(r) ==
    {chat[r].given[i].message : i \in {i \in DOMAIN chat[r].given :
        chat[r].given[i].role = "user" /\ chat[r].given[i].turn = chat[r].turn}}

\* With one request at a time, what the model is given of a typed turn is the question it is
\* to answer, and nothing else as the user's: after a clarification the question that was
\* clarified.
QuestionIsAsked ==
    alone => \A r \in ChatRequests :
                chat[r].at = "answering" /\ ~chat[r].voice => Said(r) = {chat[r].asks}

\* Of a spoken turn as well the question is among what the model is given.  The code does
\* not keep it: the words are in the history before they are routed, and a route that
\* changes the accounts of the session clears them with the rest.
SpokenQuestionIsAsked ==
    alone => \A r \in ChatRequests :
                chat[r].at = "answering" /\ chat[r].voice => chat[r].asks \in Said(r)

\* Whatever a user says, what is chosen for it is what the message names and does not
\* exclude, or the only profile it leaves; a shared word that is nobody's label leaves the
\* choice to the user.  Of profiles with one label the first has it: no question is asked.
RoutingIsAuthorized ==
    \A r \in ChatRequests :
        chat[r].at = "routing" =>
            ResolutionIsAuthorized(chat[r].message, chat[r].profiles,
                                   IF chat[r].question = NoMessage THEN "unknown" ELSE "required")
==============================================================================
