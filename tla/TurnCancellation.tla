-------------------------- MODULE TurnCancellation --------------------------
(***************************************************************************)
(* Stopping a turn while the model and its tools are at work               *)
(* (metis_head/conversation/coordinator.py and its use in brain.py).       *)
(*                                                                         *)
(* A tool-enabled turn builds a coordinator of its own, publishes it in    *)
(* ACTIVE_PERSONAL_COORDINATORS under its session, and runs it; the run    *)
(* registers a CancellationToken, which the orchestration loop looks at    *)
(* between its steps.  The cancel and close routes pop the coordinator,    *)
(* cancel the token if one is registered, and only then go to the session  *)
(* store; voice_stop goes to the store alone.  The dictionary operations,  *)
(* the coordinator and the store have no lock in common.                   *)
(*                                                                         *)
(* A coordinator and its CancellationToken are identified by the turn they *)
(* were built for.  A turn never shares a coordinator, so the superseding  *)
(* of an older token inside run_turn does not occur.  The loop itself is   *)
(* left out: a run may return at any moment, with an answer or without.    *)
(* A request that an exception has left with its turn unfinished stays     *)
(* "escaped"; its thread serves nobody else here.                          *)
(***************************************************************************)
EXTENDS SessionStore

CONSTANTS Threads,    \* threads of the web server's pool
          VoiceStops  \* may a client stop a turn by voice_stop alone?

ASSUME VoiceStopsIsBoolean == VoiceStops \in BOOLEAN

VARIABLES published,   \* ACTIVE_PERSONAL_COORDINATORS: per session, a turn or Nobody
          registered,  \* the turns whose token their coordinator holds
          cancelled,   \* the turns whose token was cancelled
          request      \* per thread: the handler it runs

cancellation_vars == <<vars, published, registered, cancelled, request>>

Nobody == 0
Idle == [at |-> "idle"]
WorkingAt(t, place) == request[t].at = place
Become(t, next) == request' = [request EXCEPT ![t] = next]
GoTo(t, place) == Become(t, [request[t] EXCEPT !.at = place])
-----------------------------------------------------------------------------
(* chat begins a turn for the tool-enabled provider. *)
BeginTooledTurn(t, s) ==
    /\ WorkingAt(t, "idle")
    /\ BeginTurn(s, "thinking", TRUE)
    /\ LET began == CHOOSE tok \in tokens' : tok.turn = turn_ids'
       IN  Become(t, [at |-> "preparing", tok |-> began])
    /\ UNCHANGED <<published, registered, cancelled>>

(* A check on the way to the model finds the turn stopped: HTTP 409. *)
NoticeStop(t) ==
    /\ WorkingAt(t, "preparing")
    /\ ~Accepts(request[t].tok)
    /\ Become(t, Idle)
    /\ UNCHANGED <<vars, published, registered, cancelled>>

(* The broker, the history and the trusted context are gathered outside    *)
(* the try of the model call: what one of them raises ends the request and *)
(* settles nothing.                                                        *)
Escape(t) ==
    /\ WorkingAt(t, "preparing")
    /\ GoTo(t, "escaped")
    /\ UNCHANGED <<vars, published, registered, cancelled>>

Publish(t) ==
    /\ WorkingAt(t, "preparing")
    /\ published' = [published EXCEPT ![request[t].tok.session] = request[t].tok.turn]
    /\ GoTo(t, "published")
    /\ UNCHANGED <<vars, registered, cancelled>>

(* run_turn registers its token and consults the store, under the lock of  *)
(* the coordinator.                                                        *)
Register(t) ==
    LET tok == request[t].tok
    IN  /\ WorkingAt(t, "published")
        /\ registered' = registered \cup {tok.turn}
        /\ cancelled' = IF Accepts(tok) THEN cancelled ELSE cancelled \cup {tok.turn}
        /\ GoTo(t, "running")
        /\ UNCHANGED <<vars, published>>

(* Faulty variant: the outcome of the run is lost. *)
ReturnNothing(t, answered) ==
    /\ WorkingAt(t, "running")
    /\ registered' = registered \ {request[t].tok.turn}
    /\ GoTo(t, "returned")
    /\ UNCHANGED <<vars, published, cancelled>>

(* The loop returns, and run_turn removes the token if it is still there.  *)
Return(t, answered) ==
    LET tok == request[t].tok
    IN  /\ WorkingAt(t, "running")
        /\ registered' = registered \ {tok.turn}
        /\ Become(t, [at |-> "returned", tok |-> tok, answered |-> answered])
        /\ UNCHANGED <<vars, published, cancelled>>

(* Faulty variant: the coordinator stays published. *)
WithdrawNothing(t) ==
    /\ WorkingAt(t, "returned")
    /\ GoTo(t, "withdrawn")
    /\ UNCHANGED <<vars, published, registered, cancelled>>

(* The coordinator is withdrawn unless another one has taken its place.    *)
Withdraw(t) ==
    LET tok == request[t].tok
    IN  /\ WorkingAt(t, "returned")
        /\ published' = IF published[tok.session] = tok.turn
                        THEN [published EXCEPT ![tok.session] = Nobody] ELSE published
        /\ GoTo(t, "withdrawn")
        /\ UNCHANGED <<vars, registered, cancelled>>

(* Faulty variant: a run without an answer leaves its turn unfinished. *)
SettleAnswersOnly(t) ==
    LET tok == request[t].tok
    IN  /\ WorkingAt(t, "withdrawn")
        /\ \/ request[t].answered /\ CommitAssistantText(tok) /\ GoTo(t, "committed")
           \/ (~request[t].answered \/ ~Accepts(tok)) /\ UNCHANGED vars /\ Become(t, Idle)
        /\ UNCHANGED <<published, registered, cancelled>>

(* The answer is committed and the turn completed, or the turn failed; not *)
(* if it was stopped in the meantime.                                      *)
Settle(t) ==
    LET tok == request[t].tok
    IN  /\ WorkingAt(t, "withdrawn")
        /\ \/ request[t].answered /\ CommitAssistantText(tok) /\ GoTo(t, "committed")
           \/ ~request[t].answered /\ Transition(tok, "failed") /\ Become(t, Idle)
           \/ ~Accepts(tok) /\ UNCHANGED vars /\ Become(t, Idle)
        /\ UNCHANGED <<published, registered, cancelled>>

Complete(t) ==
    LET tok == request[t].tok
    IN  /\ WorkingAt(t, "committed")
        /\ Transition(tok, "completed") \/ (~Accepts(tok) /\ UNCHANGED vars)
        /\ Become(t, Idle)
        /\ UNCHANGED <<published, registered, cancelled>>

TurnStep(t) ==
    \/ NoticeStop(t) \/ Publish(t) \/ Register(t) \/ Withdraw(t) \/ Settle(t) \/ Complete(t)
    \/ \E answered \in BOOLEAN : Return(t, answered)
-----------------------------------------------------------------------------
(* ACTIVE_PERSONAL_COORDINATORS.pop(session_id, None) *)
PopCoordinator(t, s, closes) ==
    /\ WorkingAt(t, "idle")
    /\ s \in Stored
    /\ published' = [published EXCEPT ![s] = Nobody]
    /\ Become(t, [at |-> "popped", session |-> s, target |-> published[s],
                  closes |-> closes])
    /\ UNCHANGED <<vars, registered, cancelled>>

(* coordinator.cancel_session: without a registered token nothing happens. *)
CancelCoordinator(t) ==
    LET target == request[t].target
    IN  /\ WorkingAt(t, "popped")
        /\ cancelled' = cancelled \cup (registered \cap {target})
        /\ registered' = registered \ {target}
        /\ GoTo(t, "told")
        /\ UNCHANGED <<vars, published>>

(* Faulty variant: a route that found a coordinator does not go on to the  *)
(* store.                                                                  *)
StopInStoreUnlessTold(t) ==
    /\ WorkingAt(t, "told")
    /\ IF request[t].target # Nobody THEN UNCHANGED vars
       ELSE IF request[t].closes THEN CloseSession(request[t].session)
                                 ELSE Cancel(request[t].session)
    /\ Become(t, Idle)
    /\ UNCHANGED <<published, registered, cancelled>>

StopInStore(t) ==
    /\ WorkingAt(t, "told")
    /\ IF request[t].closes THEN CloseSession(request[t].session)
                            ELSE Cancel(request[t].session)
    /\ Become(t, Idle)
    /\ UNCHANGED <<published, registered, cancelled>>

VoiceStop(s) ==
    /\ VoiceStops
    /\ Cancel(s)
    /\ UNCHANGED <<published, registered, cancelled, request>>

StopStep(t) == CancelCoordinator(t) \/ StopInStore(t)
-----------------------------------------------------------------------------
CreateConversation(s) ==
    /\ CreateSession(s)
    /\ UNCHANGED <<published, registered, cancelled, request>>

CancellationInit ==
    /\ Init
    /\ published = [s \in SessionIds |-> Nobody]
    /\ registered = {}
    /\ cancelled = {}
    /\ request = [t \in Threads |-> Idle]

CancellationNext ==
    \/ \E s \in SessionIds : CreateConversation(s) \/ VoiceStop(s)
    \/ \E t \in Threads, s \in SessionIds :
          \/ BeginTooledTurn(t, s)
          \/ \E closes \in BOOLEAN : PopCoordinator(t, s, closes)
    \/ \E t \in Threads : TurnStep(t) \/ Escape(t) \/ StopStep(t)

CancellationSpec == CancellationInit /\ [][CancellationNext]_cancellation_vars

(* Handlers run to their end; a run returns, its rounds and its time are   *)
(* bounded.                                                                *)
CancellationFairSpec ==
    CancellationSpec /\ \A t \in Threads : WF_cancellation_vars(TurnStep(t) \/ StopStep(t))
-----------------------------------------------------------------------------
CancellationTypeOK ==
    /\ TypeOK
    /\ published \in [SessionIds -> 0 .. TurnLimit]
    /\ registered \subseteq 1 .. TurnLimit
    /\ cancelled \subseteq 1 .. TurnLimit
    /\ \A t \in Threads :
          \/ request[t] = Idle
          \/ request[t] \in [at: {"preparing", "escaped", "published", "running"}, tok: tokens]
          \/ request[t] \in [at: {"returned", "withdrawn", "committed"}, tok: tokens,
                             answered: BOOLEAN]
          \/ request[t] \in [at: {"popped", "told"}, session: SessionIds,
                             target: 0 .. TurnLimit, closes: BOOLEAN]

Stopping(s) == \E t \in Threads : request[t].at \in {"popped", "told"} /\ request[t].session = s
Serves(t, tok) == "tok" \in DOMAIN request[t] /\ request[t].tok = tok

(* Only stopped work is cancelled: where a run was told to stop while the  *)
(* store still accepts its turn, a stop of that session is on its way to   *)
(* the store.  A stop meant for an older turn, or a preflight that saw a   *)
(* stale token, never silences a turn that stays current.                  *)
OnlyStoppedWorkIsCancelled ==
    \A tok \in tokens : tok.turn \in cancelled /\ Accepts(tok) => Stopping(tok.session)

(* The coordinator found under a session belongs to a request that is      *)
(* still at work for that session: no finished run is left behind to be    *)
(* found by a later stop, and no run withdraws the coordinator of another. *)
PublishedCoordinatorIsAtWork ==
    \A s \in SessionIds :
       published[s] # Nobody =>
          \E t \in Threads :
             /\ request[t].at \in {"published", "running", "returned"}
             /\ request[t].tok.session = s
             /\ request[t].tok.turn = published[s]

(* What is published, registered and cancelled belongs to requests at work. *)
CoordinatorsAreInOrder == CancellationTypeOK /\ PublishedCoordinatorIsAtWork

(* Once a stop is through, the run it stopped knows: it finds its token    *)
(* cancelled at its next step instead of going on with its tools.          *)
StopReachesTheRun ==
    \A t \in Threads :
       /\ WorkingAt(t, "running")
       /\ ~Accepts(request[t].tok)
       /\ ~Stopping(request[t].tok.session)
       => request[t].tok.turn \in cancelled

(* Every turn is over in the end, whatever was stopped in between, unless  *)
(* its request ended in an exception on its way to the model: such a turn  *)
(* stays unfinished until somebody stops it.                               *)
EveryTurnIsSettled ==
    \A id \in 1 .. TurnLimit :
       LET unfinished == \E tok \in tokens : tok.turn = id /\ Accepts(tok)
           escaped == \E t \in Threads : WorkingAt(t, "escaped") /\ request[t].tok.turn = id
       IN  unfinished ~> ~unfinished \/ escaped
=============================================================================
