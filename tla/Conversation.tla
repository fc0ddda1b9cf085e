---------------------------- MODULE Conversation ----------------------------
(***************************************************************************)
(* The life of spoken and typed turns: the request handlers of             *)
(* metis_head/brain.py working on the session store and on the playback    *)
(* queue, and the browser that plays the speech.                           *)
(*                                                                         *)
(* The handlers are synchronous functions which the web server runs in a   *)
(* pool of threads.  Each call into SessionStore or PlaybackQueue is       *)
(* atomic, a handler is not: it is a request that moves from one call to   *)
(* the next while other requests run.  `request` holds, for each thread of *)
(* the pool, where its handler stands and the locals it still needs.       *)
(*                                                                         *)
(* The browser of a session is conversation_client.js; here it is present  *)
(* with what it is playing and whether the server has confirmed that.  Its *)
(* requests and their responses are not lost.                              *)
(*                                                                         *)
(* Left out: retrieval, tools, and the account router that answer or       *)
(* prepare a turn (they all end in one of the outcomes below), the store   *)
(* of audio artifacts (a failed bind is one of the ways in which speech is *)
(* not queued), and legacy turns without a session.                        *)
(***************************************************************************)
EXTENDS SessionStore

CONSTANTS Threads,            \* threads of the web server's pool
          Clients,            \* browser documents
          ClientOf,           \* the client each session is created for
          MaxQueued, MaxTerminal, MaxCommands, MaxTombstones,
          ItemLimit,          \* bound of the model: playback items created
          Stops,              \* may sessions be stopped and closed?
          EscapingExceptions, \* may an exception leave chat with its turn open?
          EarlyPolls          \* may a client poll before its chat call returned?

ASSUME SwitchesAreBoolean ==
    /\ Stops \in BOOLEAN
    /\ EscapingExceptions \in BOOLEAN
    /\ EarlyPolls \in BOOLEAN

ASSUME SessionsHaveClients == ClientOf \in [SessionIds -> Clients]

(* PlaybackQueue raises a ValueError for a bound below one. *)
ASSUME QueueHasBounds ==
    /\ MaxQueued \in Nat \ {0}
    /\ MaxTerminal \in Nat \ {0}
    /\ MaxCommands \in Nat \ {0}
    /\ MaxTombstones \in Nat \ {0}
    /\ ItemLimit \in Nat

VARIABLES items, queued, active, commands, cancelled_through, terminal_ids, playback_ids,
          request,  \* per thread: the handler it runs
          playing   \* per client: the item it was handed and has not finished

Queue == INSTANCE PlaybackQueue WITH
            Sessions   <- SessionIds,
            TokenLimit <- TurnLimit,
            current    <- {tok \in tokens : Accepts(tok)},
            issued     <- tokens

queue_vars == <<items, queued, active, commands, cancelled_through, terminal_ids,
                playback_ids>>
all_vars == <<vars, queue_vars, request, playing>>
-----------------------------------------------------------------------------
Idle == [at |-> "idle"]
Silent == [item |-> Queue!NoItem, phase |-> "none"]

WorkingAt(t, place) == request[t].at = place
Become(t, next) == request' = [request EXCEPT ![t] = next]
GoTo(t, place) == Become(t, [request[t] EXCEPT !.at = place])
Finish(t) == Become(t, Idle)

StageOf(tok) ==
    LET i == CHOOSE i \in LiveTurns(tok.session) : turns[tok.session][i].id = tok.turn
    IN  turns[tok.session][i].stage

(* SESSIONS.transition would raise ValueError *)
Illegal(tok, stage) ==
    /\ Accepts(tok)
    /\ StageOf(tok) # stage
    /\ <<StageOf(tok), stage>> \notin Transitions

(* SESSIONS.transition with its result ignored: stale work and a repeated  *)
(* stage change nothing.                                                   *)
Advance(tok, stage) ==
    \/ Transition(tok, stage)
    \/ ~Accepts(tok) /\ UNCHANGED vars

(* if SESSIONS.accepts(token): SESSIONS.transition(token, FAILED).  Also   *)
(* atomic where it is two calls: a token that goes stale between them      *)
(* makes the second do nothing.                                            *)
FailTurn(tok) == Advance(tok, "failed")

CreateConversation(s) ==
    /\ CreateSession(s)
    /\ UNCHANGED <<queue_vars, request, playing>>
-----------------------------------------------------------------------------
(* A turn: typed (chat), spoken (audio_browser_ptt), or the voice preview. *)
Turn(place, kind) ==
    LET began == CHOOSE tok \in tokens' : tok.turn = turn_ids'
    IN  [at |-> place, kind |-> kind, tok |-> began]

BeginChat(t, s) ==
    /\ WorkingAt(t, "idle")
    /\ BeginTurn(s, "thinking", TRUE)
    /\ Become(t, Turn("thinking", "typed"))
    /\ UNCHANGED <<queue_vars, playing>>

BeginVoice(t, s) ==
    /\ WorkingAt(t, "idle")
    /\ BeginTurn(s, "transcribing", FALSE)
    /\ Become(t, Turn("transcribing", "spoken"))
    /\ UNCHANGED <<queue_vars, playing>>

BeginPreview(t, s) ==
    /\ WorkingAt(t, "idle")
    /\ BeginTurn(s, "synthesizing", FALSE)
    /\ Become(t, Turn("synthesizing", "preview"))
    /\ UNCHANGED <<queue_vars, playing>>

(* Faulty variant: the stage of the turn is not moved. *)
StoreTranscriptOnly(t) ==
    /\ WorkingAt(t, "transcribing")
    /\ SetTranscript(request[t].tok)
    /\ GoTo(t, "thinking")
    /\ UNCHANGED <<queue_vars, playing>>

(* Transcription succeeded: the transcript is stored, then the stage moves *)
(* on.  Stale work ends the request at either call.                        *)
StoreTranscript(t) ==
    /\ WorkingAt(t, "transcribing")
    /\ SetTranscript(request[t].tok)
    /\ GoTo(t, "transcribed")
    /\ UNCHANGED <<queue_vars, playing>>

StartThinking(t) ==
    /\ WorkingAt(t, "transcribed")
    /\ Transition(request[t].tok, "thinking")
    /\ GoTo(t, "thinking")
    /\ UNCHANGED <<queue_vars, playing>>

(* The upload was unusable, transcription failed or heard nothing; a model *)
(* or a plan request failed.                                               *)
GiveUp(t) ==
    /\ request[t].at \in {"transcribing", "thinking"}
    /\ FailTurn(request[t].tok)
    /\ Finish(t)
    /\ UNCHANGED <<queue_vars, playing>>

(* A check of the token, a store that refuses, HTTP 409: the request ends  *)
(* because its turn was stopped.                                           *)
NoticeStop(t) ==
    /\ request[t].at \in {"transcribing", "transcribed", "thinking"}
    /\ ~Accepts(request[t].tok)
    /\ Finish(t)
    /\ UNCHANGED <<vars, queue_vars, playing>>

(* An exception outside the guarded model call leaves chat: nothing settles *)
(* the turn any more.  The thread goes on to other requests; in the model   *)
(* its slot stays, as the mark of what happened to the turn.                *)
Escape(t) ==
    /\ EscapingExceptions
    /\ WorkingAt(t, "thinking")
    /\ GoTo(t, "escaped")
    /\ UNCHANGED <<vars, queue_vars, playing>>

(* The spoken phrase settled a pending proposal: there is no answer.       *)
ConfirmByVoice(t) ==
    /\ WorkingAt(t, "thinking")
    /\ request[t].kind = "spoken"
    /\ Advance(request[t].tok, "completed")
    /\ Finish(t)
    /\ UNCHANGED <<queue_vars, playing>>

(* _finish_chat_turn *)
CommitAnswer(t) ==
    /\ WorkingAt(t, "thinking")
    /\ CommitAssistantText(request[t].tok)
    /\ GoTo(t, "answered")
    /\ UNCHANGED <<queue_vars, playing>>

(* Faulty variant: the turn is left as it is. *)
FinishUnspokenSilently(t) ==
    /\ WorkingAt(t, "answered")
    /\ Finish(t)
    /\ UNCHANGED <<vars, queue_vars, playing>>

FinishUnspoken(t) ==
    /\ WorkingAt(t, "answered")
    /\ Advance(request[t].tok, "completed")
    /\ Finish(t)
    /\ UNCHANGED <<queue_vars, playing>>

StartSynthesis(t) ==
    /\ WorkingAt(t, "answered")
    /\ Advance(request[t].tok, "synthesizing")
    /\ GoTo(t, "synthesizing")
    /\ UNCHANGED <<queue_vars, playing>>

(* Synthesis failed, gave no audio, or its audio is not wanted any more;   *)
(* the queue raised or refused.  A preview that is not queued has failed.  *)
SpeechNotQueued(t) ==
    /\ WorkingAt(t, "synthesizing")
    /\ \/ FailTurn(request[t].tok)
       \/ request[t].kind # "preview" /\ Advance(request[t].tok, "completed")
    /\ Finish(t)
    /\ UNCHANGED <<queue_vars, playing>>

(* _speak_chat_response: the item is visible to the client from here on,   *)
(* the stage follows in a call of its own.                                 *)
QueueSpeech(t) ==
    /\ WorkingAt(t, "synthesizing")
    /\ Queue!Enqueue(ClientOf[request[t].tok.session], request[t].tok)
    /\ GoTo(t, "queued")
    /\ UNCHANGED <<vars, playing>>

MarkQueued(t) ==
    /\ WorkingAt(t, "queued")
    /\ Advance(request[t].tok, "playback_queued")
    /\ Finish(t)
    /\ UNCHANGED <<queue_vars, playing>>

TurnStep(t) ==
    \/ StoreTranscript(t) \/ StartThinking(t) \/ GiveUp(t) \/ NoticeStop(t)
    \/ ConfirmByVoice(t) \/ CommitAnswer(t) \/ FinishUnspoken(t) \/ StartSynthesis(t)
    \/ SpeechNotQueued(t) \/ QueueSpeech(t) \/ MarkQueued(t)
-----------------------------------------------------------------------------
(* Faulty variant: the floor is one too low. *)
StopSessionBelow(t, s) ==
    /\ Stops
    /\ WorkingAt(t, "idle")
    /\ Cancel(s)
    /\ Become(t, [at |-> "stopping", session |-> s, floor |-> generation'[s] - 2])
    /\ UNCHANGED <<queue_vars, playing>>

(* The cancel route and voice_stop cancel in the store, then in the queue; *)
(* the locks of the two are not held together.                             *)
StopSession(t, s) ==
    /\ Stops
    /\ WorkingAt(t, "idle")
    /\ Cancel(s)
    /\ Become(t, [at |-> "stopping", session |-> s, floor |-> generation'[s] - 1])
    /\ UNCHANGED <<queue_vars, playing>>

StopPlayback(t) ==
    /\ WorkingAt(t, "stopping")
    /\ Queue!CancelSession(request[t].session, request[t].floor)
    /\ Finish(t)
    /\ UNCHANGED <<vars, playing>>

CloseConversation(t, s) ==
    /\ Stops
    /\ WorkingAt(t, "idle")
    /\ CloseSession(s)
    /\ Become(t, [at |-> "closing", session |-> s])
    /\ UNCHANGED <<queue_vars, playing>>

ClosePlayback(t) ==
    /\ WorkingAt(t, "closing")
    /\ Queue!CancelSession(request[t].session, Queue!InferredFloor(request[t].session))
    /\ Finish(t)
    /\ UNCHANGED <<vars, playing>>

StopStep(t) == StopPlayback(t) \/ ClosePlayback(t)
-----------------------------------------------------------------------------
(* playback_ack.  The response to a "started" report decides whether the   *)
(* client goes on playing.                                                 *)
Respond(t, accepted) ==
    /\ Finish(t)
    /\ playing' = [c \in Clients |->
                      IF /\ request[t].state = "started"
                         /\ playing[c] = [item |-> request[t].item, phase |-> "confirming"]
                      THEN IF accepted THEN [playing[c] EXCEPT !.phase = "started"] ELSE Silent
                      ELSE playing[c]]

LookUpItem(t) ==
    /\ WorkingAt(t, "reported")
    /\ IF request[t].item \in DOMAIN items
       THEN /\ Become(t, [at |-> "found", client |-> request[t].client,
                          item |-> request[t].item, state |-> request[t].state,
                          before |-> items[request[t].item].state])
            /\ UNCHANGED playing
       ELSE Respond(t, FALSE)
    /\ UNCHANGED <<vars, queue_vars>>

(* PLAYBACK.acknowledge: a new report, a repeated one, or a rejected one. *)
Repeats(r) ==
    /\ r.item \in DOMAIN items
    /\ items[r.item].state = r.state
    /\ r.state = "started" => active[r.client] = r.item

AcknowledgeItem(t) ==
    LET r == request[t]
        starts == r.state = "started" /\ Queue!CanStart(r.client, r.item)
        ends == Queue!CanFinish(r.client, r.item, r.state)
    IN  /\ WorkingAt(t, "found")
        /\ \/ starts /\ Queue!AckStarted(r.client, r.item)
           \/ ends /\ Queue!AckFinished(r.client, r.item, r.state)
           \/ ~starts /\ ~ends /\ UNCHANGED queue_vars
        /\ IF starts \/ ends \/ Repeats(r)
           THEN GoTo(t, "acknowledged") /\ UNCHANGED playing
           ELSE Respond(t, FALSE)
        /\ UNCHANGED vars

StageFor(state) ==
    CASE state = "started"   -> "playing"
      [] state = "completed" -> "completed"
      [] state = "failed"    -> "failed"

(* The turn follows its audio, unless the report was a repeated one.  An   *)
(* illegal transition raises: the report is recorded, the turn is not.     *)
SettleTurn(t) ==
    LET r == request[t]
        tok == items[r.item].token
        stage == StageFor(r.state)
    IN  /\ WorkingAt(t, "acknowledged")
        /\ IF r.item \notin DOMAIN items \/ (r.before # r.state /\ Illegal(tok, stage))
           THEN UNCHANGED vars /\ Respond(t, FALSE)
           ELSE /\ IF r.before # r.state /\ Accepts(tok) /\ StageOf(tok) # stage
                   THEN Transition(tok, stage)
                   ELSE UNCHANGED vars
                /\ Respond(t, TRUE)
        /\ UNCHANGED queue_vars

AckStep(t) == LookUpItem(t) \/ AcknowledgeItem(t) \/ SettleTurn(t)
-----------------------------------------------------------------------------
(* The browser.  It polls after a chat call whose response announced       *)
(* audio, which is after MarkQueued; a client that polls on its own may    *)
(* come earlier.                                                           *)
Poll(c) ==
    /\ EarlyPolls \/ \A t \in Threads : ~WorkingAt(t, "queued")
    /\ \/ /\ Queue!StopCommand(c)
          /\ playing' = IF playing[c].item = Head(commands[c])
                        THEN [playing EXCEPT ![c] = Silent] ELSE playing
       \/ /\ Queue!PlayCommand(c)
          /\ playing' = [playing EXCEPT ![c] = [item |-> active'[c], phase |-> "loading"]]
       \/ /\ Queue!NoCommand(c)
          /\ UNCHANGED playing
    /\ UNCHANGED <<vars, request>>

Report(t, c, state) ==
    /\ WorkingAt(t, "idle")
    /\ Become(t, [at |-> "reported", client |-> c, item |-> playing[c].item, state |-> state])
    /\ UNCHANGED <<vars, queue_vars>>

(* The audio element started. *)
ReportStarted(t, c) ==
    /\ playing[c].phase = "loading"
    /\ Report(t, c, "started")
    /\ playing' = [playing EXCEPT ![c].phase = "confirming"]

(* The audio ended: reported once the server has confirmed the start. *)
ReportCompleted(t, c) ==
    /\ playing[c].phase = "started"
    /\ Report(t, c, "completed")
    /\ playing' = [playing EXCEPT ![c] = Silent]

(* The audio could not be played, or the user stopped it in the browser. *)
ReportFailed(t, c) ==
    /\ playing[c].phase # "none"
    /\ Report(t, c, "failed")
    /\ playing' = [playing EXCEPT ![c] = Silent]

ReportEnd(t, c) == ReportCompleted(t, c) \/ ReportFailed(t, c)
-----------------------------------------------------------------------------
ConversationInit ==
    /\ Init
    /\ items = [p \in {} |-> Queue!NoItem]
    /\ queued = [c \in Clients |-> <<>>]
    /\ active = [c \in Clients |-> Queue!NoItem]
    /\ commands = [c \in Clients |-> <<>>]
    /\ cancelled_through = <<>>
    /\ terminal_ids = <<>>
    /\ playback_ids = 0
    /\ request = [t \in Threads |-> Idle]
    /\ playing = [c \in Clients |-> Silent]

ConversationNext ==
    \/ \E s \in SessionIds : CreateConversation(s)
    \/ \E t \in Threads, s \in SessionIds :
          \/ BeginChat(t, s) \/ BeginVoice(t, s) \/ BeginPreview(t, s)
          \/ StopSession(t, s) \/ CloseConversation(t, s)
    \/ \E t \in Threads : TurnStep(t) \/ Escape(t) \/ StopStep(t) \/ AckStep(t)
    \/ \E c \in Clients : Poll(c)
    \/ \E t \in Threads, c \in Clients : ReportStarted(t, c) \/ ReportEnd(t, c)

ConversationSpec == ConversationInit /\ [][ConversationNext]_all_vars
-----------------------------------------------------------------------------
ConversationTypeOK ==
    /\ TypeOK
    /\ Queue!TypeOK
    /\ \A t \in Threads :
          \/ request[t] = Idle
          \/ request[t] \in [at: {"transcribing", "transcribed", "thinking", "answered",
                                  "synthesizing", "queued", "escaped"},
                             kind: {"typed", "spoken", "preview"}, tok: tokens]
          \/ request[t] \in [at: {"stopping"}, session: SessionIds, floor: Nat]
          \/ request[t] \in [at: {"closing"}, session: SessionIds]
          \/ request[t] \in [at: {"reported"}, client: Clients, item: Nat,
                             state: Queue!PlaybackState]
          \/ request[t] \in [at: {"found", "acknowledged"}, client: Clients, item: Nat,
                             state: Queue!PlaybackState, before: Queue!PlaybackState]
    /\ playing \in [Clients -> [item: Nat, phase: {"none", "loading", "confirming", "started"}]]

(* Speech of a cancelled turn is never left waiting or playing: if the     *)
(* generation of an unfinished item is over, the request that cancelled it *)
(* is still on its way to the queue.  Enqueueing and cancelling take two   *)
(* different locks and no one holds both.                                  *)
CancelledSpeechIsBeingStopped ==
    \A p \in Queue!LiveItems :
       LET s == items[p].token.session
       IN  items[p].token.generation < generation[s] =>
              \E t \in Threads : /\ request[t].at \in {"stopping", "closing"}
                                 /\ request[t].session = s

(* A turn that is not over is somebody's: the request that will settle it  *)
(* holds its token, or an exception has taken that request out of chat, or *)
(* the turn has gone over to its audio.  A session whose turn nobody holds *)
(* would refuse every later one; no end of a handler, however it and the   *)
(* stops, the closes and the reports of the browser fall together, leaves  *)
(* such a turn behind.                                                     *)
IsAtWork(t, tok) == "tok" \in DOMAIN request[t] /\ request[t].tok = tok

TurnsAreAttended ==
    \A tok \in tokens :
       Accepts(tok) => \/ \E t \in Threads : IsAtWork(t, tok)
                       \/ StageOf(tok) \in {"playback_queued", "playing"}

(* What the browser still plays is what the server believes it plays, or   *)
(* a STOP for it is waiting.                                               *)
BrowserIsTold ==
    \A c \in Clients :
       playing[c] # Silent =>
          \/ playing[c].item = active[c]
          \/ playing[c].item \in Queue!ElementsOf(commands[c])

(* While a turn is current its stage is the one its request left it in:    *)
(* no stage change of the request can be illegal, so none of them raises   *)
(* and leaves the turn where it was.                                       *)
RequestAgreesWithStage ==
    \A t \in Threads :
       "tok" \in DOMAIN request[t] /\ Accepts(request[t].tok) =>
          StageOf(request[t].tok) =
             CASE request[t].at = "transcribed"                -> "transcribing"
               [] request[t].at \in {"answered", "escaped"} -> "thinking"
               [] request[t].at = "queued"                     -> "synthesizing"
               [] OTHER                                       -> request[t].at

(* The requests, the server's queue and the browser agree on what is under *)
(* way.                                                                    *)
EveryoneAgrees == ConversationTypeOK /\ BrowserIsTold /\ RequestAgreesWithStage

(* The store keeps what the queue relies on: tokens never come back, one   *)
(* is current per session, generations do not fall; and every handler uses *)
(* the queue only through its operations.                                  *)
ImplementsPlaybackQueue == Queue!Spec

(* No turn is left behind at all: an exception that leaves chat would have *)
(* to settle the turn it ends.                                             *)
NoTurnIsAbandoned ==
    \A tok \in tokens :
       Accepts(tok) => \/ \E t \in Threads : IsAtWork(t, tok) /\ ~WorkingAt(t, "escaped")
                       \/ StageOf(tok) \in {"playback_queued", "playing"}

(* An answered turn whose speech was queued is never stranded: its audio   *)
(* is waiting or in the browser, or a report about it is on its way.       *)
SpokenAnswerIsNotStranded ==
    \A tok \in tokens :
       /\ Accepts(tok)
       /\ [role |-> "assistant", turn |-> tok.turn] \in Queue!ElementsOf(history[tok.session])
       /\ StageOf(tok) \in {"playback_queued", "playing"}
       =>
          \E p \in DOMAIN items :
             /\ items[p].token = tok
             /\ \/ \E c \in Clients : \/ p \in Queue!ElementsOf(queued[c])
                                      \/ p = playing[c].item
                \/ \E t \in Threads : "item" \in DOMAIN request[t] /\ request[t].item = p

(* Stopping a session does not touch the speech of a turn that began after *)
(* the stop.                                                               *)
StopSparesNewWork ==
    [][\A t \in Threads : \A p \in Queue!LiveItems :
         /\ request[t].at = "stopping" /\ request'[t] = Idle
         /\ items[p].token.session = request[t].session
         /\ p \notin Queue!LiveItems'
         => items[p].token.generation <= request[t].floor]_all_vars

=============================================================================
