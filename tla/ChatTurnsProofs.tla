--------------------------- MODULE ChatTurnsProofs ---------------------------
(***************************************************************************)
(* Proofs about the parts of a chat turn: what stops it, what it is routed *)
(* to, what it reads of the connected servers and of BOH, and what it may  *)
(* claim to have read.  For any number of threads, sessions, turns,        *)
(* servers and accounts.                                                   *)
(***************************************************************************)
EXTENDS MCChatTurns, SessionStoreProofs, SequenceLemmas

(***************************************************************************)
(* Stopping a turn.  A stop cancels only the work it was meant for, and a  *)
(* coordinator is found only while its run is at work.                     *)
(***************************************************************************)

(* Where a request has a turn of its own, where its coordinator may be     *)
(* published, and where it is on its way to stop a session.                *)
TurnPlaces == {"preparing", "escaped", "published", "running", "returned", "withdrawn",
               "committed"}
WorkPlaces == {"published", "running", "returned"}
StopPlaces == {"popped", "told"}

HandlerStates ==
    {Idle}
    \cup [at: {"preparing", "escaped", "published", "running"}, tok: tokens]
    \cup [at: {"returned", "withdrawn", "committed"}, tok: tokens, answered: BOOLEAN]
    \cup [at: StopPlaces, session: SessionIds, target: 0 .. TurnLimit, closes: BOOLEAN]

HandlersTypeOK ==
    /\ turn_ids \in 0 .. TurnLimit
    /\ published \in [SessionIds -> 0 .. TurnLimit]
    /\ registered \subseteq 1 .. turn_ids
    /\ cancelled \subseteq 1 .. turn_ids
    /\ request \in [Threads -> HandlerStates]
    /\ \A tok \in tokens : tok.turn # Nobody

(* What a stop popped under a session is a turn of that session. *)
TargetsAreOfTheSession ==
    \A t \in Threads :
       request[t].at \in StopPlaces /\ request[t].target # Nobody =>
          \E tok \in tokens : tok.turn = request[t].target /\ tok.session = request[t].session

CancellationInv ==
    /\ HandlersTypeOK
    /\ TargetsAreOfTheSession
    /\ PublishedCoordinatorIsAtWork
    /\ OnlyStoppedWorkIsCancelled
-----------------------------------------------------------------------------
(* What a handler at some place carries. *)
LEMMA Carries ==
    ASSUME HandlersTypeOK, NEW t \in Threads
    PROVE  /\ request[t].at \in TurnPlaces =>
                 request[t].tok \in tokens /\ "tok" \in DOMAIN request[t]
           /\ request[t].at \in StopPlaces =>
                 /\ request[t].session \in SessionIds
                 /\ request[t].target \in 0 .. TurnLimit
                 /\ request[t].closes \in BOOLEAN
           /\ request[t].at \in {"idle"} \cup TurnPlaces \cup StopPlaces
<1>1. request[t] \in HandlerStates
  BY DEF HandlersTypeOK
<1>2. CASE request[t] = Idle
  BY <1>2 DEF Idle, TurnPlaces, StopPlaces
<1>3. CASE request[t] \in [at: {"preparing", "escaped", "published", "running"}, tok: tokens]
  BY <1>3 DEF TurnPlaces, StopPlaces
<1>4. CASE request[t] \in [at: {"returned", "withdrawn", "committed"}, tok: tokens, answered: BOOLEAN]
  BY <1>4 DEF TurnPlaces, StopPlaces
<1>5. CASE request[t] \in [at: StopPlaces, session: SessionIds, target: 0 .. TurnLimit, closes: BOOLEAN]
  BY <1>5 DEF TurnPlaces, StopPlaces
<1>6. QED
  BY <1>1, <1>2, <1>3, <1>4, <1>5 DEF HandlerStates

(* Every step of the handlers is a step of the store, or none. *)
LEMMA HandlersUseTheStore ==
    ASSUME HandlersTypeOK, [CancellationNext]_cancellation_vars
    PROVE  [Next]_vars
<1>1. CASE UNCHANGED cancellation_vars
  BY <1>1 DEF cancellation_vars
<1>2. ASSUME NEW s \in SessionIds, CreateConversation(s) \/ VoiceStop(s)
      PROVE  Next
  BY <1>2 DEF CreateConversation, VoiceStop, Next, SessionCall
<1>3. ASSUME NEW t \in Threads, NEW s \in SessionIds, BeginTooledTurn(t, s)
      PROVE  Next
  <2>1. BeginTurn(s, "thinking", TRUE) /\ "thinking" \in LiveStages
    BY <1>3 DEF BeginTooledTurn, LiveStages
  <2>2. QED
    BY <2>1 DEF Next, SessionCall
<1>4. ASSUME NEW t \in Threads, NEW s \in SessionIds, NEW closes, PopCoordinator(t, s, closes)
      PROVE  UNCHANGED vars
  BY <1>4 DEF PopCoordinator
<1>5. ASSUME NEW t \in Threads, StopStep(t)
      PROVE  [Next]_vars
  <2>1. CASE CancelCoordinator(t)
    BY <2>1 DEF CancelCoordinator
  <2>2. CASE StopInStore(t)
    <3>1. request[t].session \in SessionIds
      BY <2>2, Carries DEF StopInStore, WorkingAt, StopPlaces
    <3>2. CloseSession(request[t].session) \/ Cancel(request[t].session)
      BY <2>2 DEF StopInStore
    <3>3. QED
      BY <3>1, <3>2 DEF Next, SessionCall
  <2>3. QED
    BY <1>5, <2>1, <2>2 DEF StopStep
<1>6. ASSUME NEW t \in Threads, TurnStep(t) \/ Escape(t)
      PROVE  [Next]_vars
  <2>1. CASE NoticeStop(t) \/ Escape(t) \/ Publish(t) \/ Register(t) \/ Withdraw(t)
             \/ \E answered \in BOOLEAN : Return(t, answered)
    BY <2>1 DEF NoticeStop, Escape, Publish, Register, Withdraw, Return
  <2>2. CASE Settle(t) \/ Complete(t)
    <3>1. request[t].tok \in tokens
      BY <2>2, Carries DEF Settle, Complete, WorkingAt, TurnPlaces
    <3>2. \/ CommitAssistantText(request[t].tok)
          \/ Transition(request[t].tok, "failed") \/ Transition(request[t].tok, "completed")
          \/ UNCHANGED vars
      BY <2>2 DEF Settle, Complete
    <3>3. "failed" \in TurnStage /\ "completed" \in TurnStage
      BY DEF TurnStage, TerminalStages
    <3>4. QED
      BY <3>1, <3>2, <3>3 DEF Next, TokenCall
  <2>3. QED
    BY <1>6, <2>1, <2>2 DEF TurnStep
<1>7. QED
  BY <1>1, <1>2, <1>3, <1>4, <1>5, <1>6 DEF CancellationNext

(* What a step of the store does to the tokens. *)
LEMMA StoreStep ==
    ASSUME IInv, [Next]_vars, turn_ids \in 0 .. TurnLimit
    PROVE  /\ tokens \subseteq tokens'
           /\ turn_ids' \in turn_ids .. TurnLimit
           /\ \A tok \in tokens' \ tokens : tok.turn = turn_ids + 1
           /\ \A tok \in tokens : Accepts(tok)' => Accepts(tok)
<1> USE BoundsArePositive
<1>1. \A tok \in tokens : Accepts(tok)' => Accepts(tok)
  <2>1. CASE Next
    BY <2>1, StepRevivesNothing
  <2>2. CASE UNCHANGED vars
    BY <2>2 DEF vars, Accepts, LiveTurns
  <2>3. QED
    BY <2>1, <2>2
<1>2. CASE \E s \in SessionIds, stage \in LiveStages, with_text \in BOOLEAN :
              BeginTurn(s, stage, with_text)
  <2>1. PICK s \in SessionIds, stage \in LiveStages, with_text \in BOOLEAN :
              BeginTurn(s, stage, with_text)
    BY <1>2
  <2>2. /\ tokens' = tokens \cup {TokenOf(s, [id |-> turn_ids + 1, generation |-> generation[s],
                                              stage |-> stage])}
        /\ turn_ids' = turn_ids + 1 /\ turn_ids < TurnLimit
    BY <2>1 DEF BeginTurn
  <2>3. QED
    BY <1>1, <2>2 DEF TokenOf
<1>3. CASE tokens' = tokens /\ turn_ids' = turn_ids
  BY <1>1, <1>3
<1>4. QED
  BY <1>2, <1>3 DEF Next, SessionCall, TokenCall, vars, CreateSession, CreateSessionEvicting,
     CreateSessionRefused, UpdateContext, SetPendingAccountRequest, Cancel, CancelTurn, CloseSession, Transition,
     Terminalize, SetTranscript, CommitAssistantText, AppendMessage

LEMMA TokensAreNumbered ==
    ASSUME IInv, HandlersTypeOK
    PROVE  /\ \A tok \in tokens : tok.turn \in 1 .. turn_ids
           /\ \A tok, other \in tokens : other.turn = tok.turn => other = tok
           /\ \A tok \in tokens : tok.session \in SessionIds
BY DEF IInv, TokensAreDistinct, TypeOK, TurnToken, HandlersTypeOK, Nobody

(* A step of one thread, or of none, that neither cancels a token nor ends *)
(* a stop, and moves no handler out of a place where it may be found.      *)
LEMMA QuietStep ==
    ASSUME CancellationInv, IInv, [Next]_vars,
           NEW t \in Threads, NEW next, request' = [request EXCEPT ![t] = next],
           published' = published, registered' \subseteq registered, cancelled' = cancelled,
           next \in HandlerStates',
           request[t].at \in WorkPlaces =>
              next.at \in WorkPlaces /\ next.tok = request[t].tok,
           request[t].at \in StopPlaces =>
              next.at \in StopPlaces /\ next.session = request[t].session,
           next.at \in StopPlaces =>
              \/ next.target = Nobody
              \/ \E tok \in tokens : tok.turn = next.target /\ tok.session = next.session
    PROVE  CancellationInv'
<1>1. request'[t] = next /\ \A u \in Threads \ {t} : request'[u] = request[u]
  BY DEF CancellationInv, HandlersTypeOK
<1>2. /\ tokens \subseteq tokens' /\ turn_ids' \in turn_ids .. TurnLimit
      /\ \A tok \in tokens' \ tokens : tok.turn = turn_ids + 1
      /\ \A tok \in tokens : Accepts(tok)' => Accepts(tok)
  BY StoreStep DEF CancellationInv, HandlersTypeOK
<1>3. HandlerStates \subseteq HandlerStates'
  BY <1>2 DEF HandlerStates
<1>4. HandlersTypeOK'
  <2>1. request' \in [Threads -> HandlerStates']
    BY <1>3 DEF CancellationInv, HandlersTypeOK
  <2>2. /\ turn_ids' \in 0 .. TurnLimit /\ 1 .. turn_ids \subseteq 1 .. turn_ids'
        /\ \A tok \in tokens' : tok.turn # Nobody
    BY <1>2, BoundsArePositive DEF CancellationInv, HandlersTypeOK, Nobody
  <2>3. QED
    BY <2>1, <2>2 DEF CancellationInv, HandlersTypeOK
<1>5. TargetsAreOfTheSession'
  BY <1>1, <1>2 DEF CancellationInv, TargetsAreOfTheSession
<1>6. PublishedCoordinatorIsAtWork'
  BY <1>1 DEF CancellationInv, PublishedCoordinatorIsAtWork, WorkPlaces
<1>7. \A s : Stopping(s) => Stopping(s)'
  BY <1>1 DEF Stopping, StopPlaces
<1>8. OnlyStoppedWorkIsCancelled'
  <2> SUFFICES ASSUME NEW tok \in tokens', tok.turn \in cancelled, Accepts(tok)'
               PROVE  Stopping(tok.session)'
    BY DEF OnlyStoppedWorkIsCancelled
  <2>1. tok \in tokens
    BY <1>2 DEF CancellationInv, HandlersTypeOK
  <2>2. QED
    BY <1>2, <1>7, <2>1 DEF CancellationInv, OnlyStoppedWorkIsCancelled
<1>9. QED
  BY <1>4, <1>5, <1>6, <1>8 DEF CancellationInv

LEMMA IdleIsAState == Idle \in HandlerStates /\ Idle.at = "idle"
BY DEF Idle, HandlerStates

LEMMA BeginKeepsOrder ==
    ASSUME CancellationInv, IInv, NEW t \in Threads, NEW s \in SessionIds,
           BeginTooledTurn(t, s), [Next]_vars
    PROVE  CancellationInv'
<1> DEFINE turn == [id |-> turn_ids + 1, generation |-> generation[s], stage |-> "thinking"]
           began == CHOOSE tok \in tokens' : tok.turn = turn_ids'
           next == [at |-> "preparing", tok |-> began]
<1>1. tokens' = tokens \cup {TokenOf(s, turn)} /\ turn_ids' = turn_ids + 1
  BY DEF BeginTooledTurn, BeginTurn
<1>2. \E tok \in tokens' : tok.turn = turn_ids'
  <2>1. TokenOf(s, turn).turn = turn_ids + 1
    BY DEF TokenOf
  <2>2. QED
    BY <1>1, <2>1
<1>3. began \in tokens'
  BY <1>2
<1>4. next \in HandlerStates' /\ next.at = "preparing"
  BY <1>3 DEF HandlerStates
<1>5. /\ request[t].at = "idle" /\ request' = [request EXCEPT ![t] = next]
      /\ UNCHANGED <<published, registered, cancelled>>
  BY DEF BeginTooledTurn, WorkingAt, Become
<1> HIDE DEF next, began, turn
<1>6. QED
  BY <1>4, <1>5, QuietStep DEF WorkPlaces, StopPlaces

LEMMA LeavingKeepsOrder ==
    ASSUME CancellationInv, IInv, [Next]_vars, NEW t \in Threads, Become(t, Idle),
           request[t].at \in {"preparing", "withdrawn", "committed"},
           UNCHANGED <<published, registered, cancelled>>
    PROVE  CancellationInv'
<1>1. Idle \in HandlerStates'
  BY DEF Idle, HandlerStates
<1>2. QED
  BY <1>1, IdleIsAState, QuietStep DEF Become, WorkPlaces, StopPlaces

LEMMA SettlesKeepOrder ==
    ASSUME CancellationInv, IInv, [Next]_vars, NEW t \in Threads, Settle(t) \/ Complete(t)
    PROVE  CancellationInv'
<1>1. UNCHANGED <<published, registered, cancelled>>
      /\ request[t].at \in {"withdrawn", "committed"}
  BY DEF Settle, Complete, WorkingAt
<1>2. CASE Become(t, Idle)
  BY <1>1, <1>2, LeavingKeepsOrder
<1>3. CASE request[t].at = "withdrawn" /\ GoTo(t, "committed")
  <2> DEFINE next == [request[t] EXCEPT !.at = "committed"]
  <2>1. request[t] \in [at: {"returned", "withdrawn", "committed"}, tok: tokens, answered: BOOLEAN]
    BY <1>3 DEF CancellationInv, HandlersTypeOK, HandlerStates, Idle, StopPlaces
  <2>2. tokens \subseteq tokens'
    BY StoreStep DEF CancellationInv, HandlersTypeOK
  <2>3. next \in [at: {"returned", "withdrawn", "committed"}, tok: tokens', answered: BOOLEAN]
        /\ next.at = "committed"
    BY <2>1, <2>2
  <2>4. next \in HandlerStates' /\ request' = [request EXCEPT ![t] = next]
    BY <1>3, <2>3 DEF HandlerStates, GoTo, Become
  <2> HIDE DEF next
  <2>5. QED
    BY <1>1, <2>3, <2>4, QuietStep DEF WorkPlaces, StopPlaces
<1>4. QED
  BY <1>2, <1>3 DEF Settle, Complete, WorkingAt

(* An exception changes nothing but the place of its request. *)
LEMMA EscapeKeepsOrder ==
    ASSUME CancellationInv, IInv, [Next]_vars, NEW t \in Threads, Escape(t)
    PROVE  CancellationInv'
<1> DEFINE next == [request[t] EXCEPT !.at = "escaped"]
<1>1. /\ request[t].at = "preparing" /\ request' = [request EXCEPT ![t] = next]
      /\ UNCHANGED <<vars, published, registered, cancelled>>
  BY DEF Escape, WorkingAt, GoTo, Become
<1>2. request[t] \in [at: {"preparing", "escaped", "published", "running"}, tok: tokens]
  BY <1>1 DEF CancellationInv, HandlersTypeOK, HandlerStates, Idle, StopPlaces
<1>3. next \in HandlerStates' /\ next.at = "escaped"
  BY <1>1, <1>2 DEF HandlerStates, vars
<1> HIDE DEF next
<1>4. QED
  BY <1>1, <1>3, QuietStep DEF WorkPlaces, StopPlaces

LEMMA ReturnKeepsOrder ==
    ASSUME CancellationInv, IInv, NEW t \in Threads, NEW answered \in BOOLEAN,
           Return(t, answered), [Next]_vars
    PROVE  CancellationInv'
<1> DEFINE next == [at |-> "returned", tok |-> request[t].tok, answered |-> answered]
<1>1. request[t].at = "running" /\ request[t].tok \in tokens
  BY Carries DEF Return, WorkingAt, CancellationInv, TurnPlaces
<1>2. next \in HandlerStates' /\ next.at = "returned" /\ next.tok = request[t].tok
  BY <1>1 DEF HandlerStates, Return, vars
<1>3. /\ request' = [request EXCEPT ![t] = next] /\ published' = published
      /\ registered' \subseteq registered /\ cancelled' = cancelled
  BY DEF Return, Become
<1> HIDE DEF next
<1>4. QED
  BY <1>1, <1>2, <1>3, QuietStep DEF WorkPlaces, StopPlaces

LEMMA PopKeepsOrder ==
    ASSUME CancellationInv, IInv, NEW t \in Threads, NEW s \in SessionIds,
           NEW closes \in BOOLEAN, PopCoordinator(t, s, closes), [Next]_vars
    PROVE  CancellationInv'
<1> DEFINE next == [at |-> "popped", session |-> s, target |-> published[s], closes |-> closes]
<1>1. /\ request[t].at = "idle" /\ request' = [request EXCEPT ![t] = next]
      /\ published' = [published EXCEPT ![s] = Nobody]
      /\ UNCHANGED <<vars, registered, cancelled>>
  BY DEF PopCoordinator, WorkingAt, Become
<1>2. next \in HandlerStates /\ next.at = "popped" /\ next.session = s /\ next.target = published[s]
  BY DEF HandlerStates, StopPlaces, CancellationInv, HandlersTypeOK
<1> HIDE DEF next
<1>3. request'[t] = next /\ \A u \in Threads \ {t} : request'[u] = request[u]
  BY <1>1 DEF CancellationInv, HandlersTypeOK
<1>4. HandlersTypeOK'
  BY <1>1, <1>2, BoundsArePositive
  DEF CancellationInv, HandlersTypeOK, HandlerStates, vars, Nobody
<1>5. TargetsAreOfTheSession'
  <2>1. published[s] # Nobody => \E tok \in tokens : tok.turn = published[s] /\ tok.session = s
    BY Carries DEF CancellationInv, PublishedCoordinatorIsAtWork, TurnPlaces
  <2>2. QED
    BY <1>1, <1>2, <1>3, <2>1 DEF CancellationInv, TargetsAreOfTheSession, vars
<1>6. PublishedCoordinatorIsAtWork'
  <2>1. published'[s] = Nobody /\ \A r \in SessionIds \ {s} : published'[r] = published[r]
    BY <1>1 DEF CancellationInv, HandlersTypeOK
  <2>2. QED
    BY <1>1, <1>3, <2>1 DEF CancellationInv, PublishedCoordinatorIsAtWork
<1>7. OnlyStoppedWorkIsCancelled'
  BY <1>1, <1>3 DEF CancellationInv, OnlyStoppedWorkIsCancelled, Stopping, Accepts, LiveTurns, vars
<1>8. QED
  BY <1>4, <1>5, <1>6, <1>7 DEF CancellationInv

(* A step of the store alone. *)
LEMMA StoreAloneKeepsOrder ==
    ASSUME CancellationInv, IInv, [Next]_vars,
           UNCHANGED <<published, registered, cancelled, request>>
    PROVE  CancellationInv'
<1>1. /\ tokens \subseteq tokens' /\ turn_ids' \in turn_ids .. TurnLimit
      /\ \A tok \in tokens' \ tokens : tok.turn = turn_ids + 1
      /\ \A tok \in tokens : Accepts(tok)' => Accepts(tok)
  BY StoreStep DEF CancellationInv, HandlersTypeOK
<1>2. HandlersTypeOK'
  <2>1. HandlerStates \subseteq HandlerStates'
    BY <1>1 DEF HandlerStates
  <2>2. request' \in [Threads -> HandlerStates']
    BY <2>1 DEF CancellationInv, HandlersTypeOK
  <2>3. /\ turn_ids' \in 0 .. TurnLimit /\ 1 .. turn_ids \subseteq 1 .. turn_ids'
        /\ \A tok \in tokens' : tok.turn # Nobody
    BY <1>1, BoundsArePositive DEF CancellationInv, HandlersTypeOK, Nobody
  <2>4. QED
    BY <2>2, <2>3 DEF CancellationInv, HandlersTypeOK
<1>3. TargetsAreOfTheSession'
  BY <1>1 DEF CancellationInv, TargetsAreOfTheSession
<1>4. PublishedCoordinatorIsAtWork'
  BY DEF CancellationInv, PublishedCoordinatorIsAtWork
<1>5. OnlyStoppedWorkIsCancelled'
  <2> SUFFICES ASSUME NEW tok \in tokens', tok.turn \in cancelled, Accepts(tok)'
               PROVE  Stopping(tok.session)'
    BY DEF OnlyStoppedWorkIsCancelled
  <2>1. tok \in tokens
    BY <1>1 DEF CancellationInv, HandlersTypeOK
  <2>2. QED
    BY <1>1, <2>1 DEF CancellationInv, OnlyStoppedWorkIsCancelled, Stopping
<1>6. QED
  BY <1>2, <1>3, <1>4, <1>5 DEF CancellationInv

(* A handler that has its turn and goes from one place to the next, while  *)
(* the store rests.                                                        *)
LEMMA PlacesOnTheWay ==
    ASSUME CancellationInv, NEW t \in Threads, NEW place \in {"published", "running"},
           request[t].at \in {"preparing", "published"}, GoTo(t, place), UNCHANGED vars
    PROVE  /\ request'[t] \in [at: {"preparing", "escaped", "published", "running"}, tok: tokens]
           /\ request'[t].at = place /\ request'[t].tok = request[t].tok
           /\ request[t].tok \in tokens /\ request' \in [Threads -> HandlerStates']
           /\ \A u \in Threads \ {t} : request'[u] = request[u]
<1>1. request[t] \in [at: {"preparing", "escaped", "published", "running"}, tok: tokens]
  BY DEF CancellationInv, HandlersTypeOK, HandlerStates, Idle, StopPlaces
<1> DEFINE next == [request[t] EXCEPT !.at = place]
<1>2. next \in [at: {"preparing", "escaped", "published", "running"}, tok: tokens]
      /\ next.at = place /\ next.tok = request[t].tok
  BY <1>1
<1>3. request' = [request EXCEPT ![t] = next]
  BY DEF GoTo, Become
<1> HIDE DEF next
<1>4. HandlerStates' = HandlerStates
  BY DEF vars, HandlerStates
<1>5. QED
  BY <1>1, <1>2, <1>3, <1>4 DEF CancellationInv, HandlersTypeOK, HandlerStates

LEMMA PublishKeepsOrder ==
    ASSUME CancellationInv, IInv, NEW t \in Threads, Publish(t)
    PROVE  CancellationInv'
<1> DEFINE own == request[t].tok
<1>1. /\ request[t].at = "preparing" /\ GoTo(t, "published")
      /\ published' = [published EXCEPT ![own.session] = own.turn]
      /\ UNCHANGED <<vars, registered, cancelled>>
  BY DEF Publish, WorkingAt
<1>2. /\ request'[t].at = "published" /\ request'[t].tok = own /\ own \in tokens
      /\ request' \in [Threads -> HandlerStates']
      /\ \A u \in Threads \ {t} : request'[u] = request[u]
  BY <1>1, PlacesOnTheWay
<1>3. own.session \in SessionIds /\ own.turn \in 1 .. turn_ids
  BY <1>2, TokensAreNumbered DEF CancellationInv
<1>4. HandlersTypeOK'
  <2>1. own.turn \in 0 .. TurnLimit
    BY <1>3, BoundsArePositive DEF CancellationInv, HandlersTypeOK
  <2>2. QED
    BY <1>1, <1>2, <1>3, <2>1 DEF CancellationInv, HandlersTypeOK, vars
<1>5. TargetsAreOfTheSession'
  BY <1>1, <1>2 DEF CancellationInv, TargetsAreOfTheSession, StopPlaces, vars
<1>6. PublishedCoordinatorIsAtWork'
  <2>1. /\ published'[own.session] = own.turn
        /\ \A r \in SessionIds \ {own.session} : published'[r] = published[r]
    BY <1>1, <1>3 DEF CancellationInv, HandlersTypeOK
  <2>2. QED
    BY <1>1, <1>2, <2>1 DEF CancellationInv, PublishedCoordinatorIsAtWork
<1>7. OnlyStoppedWorkIsCancelled'
  BY <1>1, <1>2 DEF CancellationInv, OnlyStoppedWorkIsCancelled, Stopping, Accepts, LiveTurns, vars
<1>8. QED
  BY <1>4, <1>5, <1>6, <1>7 DEF CancellationInv

(* A turn whose token is stale when its run registers stays refused. *)
LEMMA RegisterKeepsOrder ==
    ASSUME CancellationInv, IInv, NEW t \in Threads, Register(t)
    PROVE  CancellationInv'
<1> DEFINE own == request[t].tok
<1>1. /\ request[t].at = "published" /\ GoTo(t, "running")
      /\ registered' = registered \cup {own.turn}
      /\ cancelled' = IF Accepts(own) THEN cancelled ELSE cancelled \cup {own.turn}
      /\ UNCHANGED <<vars, published>>
  BY DEF Register, WorkingAt
<1>2. /\ request'[t].at = "running" /\ request'[t].tok = own /\ own \in tokens
      /\ request' \in [Threads -> HandlerStates']
      /\ \A u \in Threads \ {t} : request'[u] = request[u]
  BY <1>1, PlacesOnTheWay
<1>3. own.turn \in 1 .. turn_ids
  BY <1>2, TokensAreNumbered DEF CancellationInv
<1>4. HandlersTypeOK'
  BY <1>1, <1>2, <1>3 DEF CancellationInv, HandlersTypeOK, vars
<1>5. TargetsAreOfTheSession'
  BY <1>1, <1>2 DEF CancellationInv, TargetsAreOfTheSession, StopPlaces, vars
<1>6. PublishedCoordinatorIsAtWork'
  BY <1>1, <1>2 DEF CancellationInv, PublishedCoordinatorIsAtWork, vars
<1>7. OnlyStoppedWorkIsCancelled'
  <2> SUFFICES ASSUME NEW tok \in tokens, tok.turn \in cancelled', Accepts(tok)
               PROVE  Stopping(tok.session)'
    BY <1>1 DEF OnlyStoppedWorkIsCancelled, Accepts, LiveTurns, vars
  <2>1. tok.turn \in cancelled
    <3>1. tok.turn = own.turn => tok = own
      BY <1>2, TokensAreNumbered DEF CancellationInv
    <3>2. QED
      BY <1>1, <3>1
  <2>2. Stopping(tok.session)
    BY <2>1 DEF CancellationInv, OnlyStoppedWorkIsCancelled
  <2>3. QED
    BY <1>1, <1>2, <2>2 DEF Stopping
<1>8. QED
  BY <1>4, <1>5, <1>6, <1>7 DEF CancellationInv

(* A run withdraws its own coordinator, and only its own. *)
LEMMA WithdrawKeepsOrder ==
    ASSUME CancellationInv, IInv, NEW t \in Threads, Withdraw(t)
    PROVE  CancellationInv'
<1> DEFINE own == request[t].tok
           next == [request[t] EXCEPT !.at = "withdrawn"]
<1>1. /\ request[t].at = "returned" /\ request' = [request EXCEPT ![t] = next]
      /\ published' = IF published[own.session] = own.turn
                      THEN [published EXCEPT ![own.session] = Nobody] ELSE published
      /\ UNCHANGED <<vars, registered, cancelled>>
  BY DEF Withdraw, WorkingAt, GoTo, Become
<1>2. request[t] \in [at: {"returned", "withdrawn", "committed"}, tok: tokens, answered: BOOLEAN]
  BY <1>1 DEF CancellationInv, HandlersTypeOK, HandlerStates, Idle, StopPlaces
<1>3. next \in [at: {"returned", "withdrawn", "committed"}, tok: tokens, answered: BOOLEAN]
      /\ next.at = "withdrawn" /\ own \in tokens
  BY <1>2
<1> HIDE DEF next
<1>4. request'[t] = next /\ \A u \in Threads \ {t} : request'[u] = request[u]
  BY <1>1 DEF CancellationInv, HandlersTypeOK
<1>5. own.session \in SessionIds
  BY <1>3, TokensAreNumbered DEF CancellationInv
<1>6. HandlersTypeOK'
  <2>1. next \in HandlerStates /\ HandlerStates' = HandlerStates
    BY <1>1, <1>3 DEF HandlerStates, vars
  <2>2. published' \in [SessionIds -> 0 .. TurnLimit]
    <3>1. Nobody \in 0 .. TurnLimit /\ published \in [SessionIds -> 0 .. TurnLimit]
      BY BoundsArePositive DEF CancellationInv, HandlersTypeOK, Nobody
    <3>2. [published EXCEPT ![own.session] = Nobody] \in [SessionIds -> 0 .. TurnLimit]
      BY <3>1
    <3>3. QED
      BY <1>1, <3>1, <3>2
  <2>3. QED
    BY <1>1, <2>1, <2>2 DEF CancellationInv, HandlersTypeOK, vars
<1>7. TargetsAreOfTheSession'
  BY <1>1, <1>3, <1>4 DEF CancellationInv, TargetsAreOfTheSession, StopPlaces, vars
<1>8. PublishedCoordinatorIsAtWork'
  <2> SUFFICES ASSUME NEW s \in SessionIds, published'[s] # Nobody
               PROVE  \E u \in Threads : /\ request'[u].at \in WorkPlaces
                                         /\ request'[u].tok.session = s
                                         /\ request'[u].tok.turn = published'[s]
    BY DEF PublishedCoordinatorIsAtWork, WorkPlaces
  <2>1. published'[s] = published[s] /\ ~(s = own.session /\ published[s] = own.turn)
    BY <1>1, <1>5 DEF CancellationInv, HandlersTypeOK
  <2>2. PICK u \in Threads : /\ request[u].at \in WorkPlaces
                             /\ request[u].tok.session = s
                             /\ request[u].tok.turn = published[s]
    BY <2>1 DEF CancellationInv, PublishedCoordinatorIsAtWork, WorkPlaces
  <2>3. QED
    BY <1>4, <2>1, <2>2
<1>9. OnlyStoppedWorkIsCancelled'
  BY <1>1, <1>3, <1>4
  DEF CancellationInv, OnlyStoppedWorkIsCancelled, Stopping, Accepts, LiveTurns, vars
<1>10. QED
  BY <1>6, <1>7, <1>8, <1>9 DEF CancellationInv

(* What a stop carries from the dictionary to the store. *)
LEMMA StopOnTheWay ==
    ASSUME CancellationInv, NEW t \in Threads, request[t].at \in StopPlaces
    PROVE  request[t] \in [at: StopPlaces, session: SessionIds, target: 0 .. TurnLimit,
                           closes: BOOLEAN]
BY DEF CancellationInv, HandlersTypeOK, HandlerStates, Idle, StopPlaces

(* The token a stop cancels is that of a turn of the session it is about   *)
(* to stop in the store.                                                   *)
LEMMA CancelCoordinatorKeepsOrder ==
    ASSUME CancellationInv, IInv, NEW t \in Threads, CancelCoordinator(t)
    PROVE  CancellationInv'
<1> DEFINE target == request[t].target
           next == [request[t] EXCEPT !.at = "told"]
<1>1. /\ request[t].at = "popped" /\ request' = [request EXCEPT ![t] = next]
      /\ cancelled' = cancelled \cup (registered \cap {target})
      /\ registered' = registered \ {target}
      /\ UNCHANGED <<vars, published>>
  BY DEF CancelCoordinator, WorkingAt, GoTo, Become
<1>2. request[t] \in [at: StopPlaces, session: SessionIds, target: 0 .. TurnLimit,
                      closes: BOOLEAN]
  BY <1>1, StopOnTheWay DEF StopPlaces
<1>3. next \in [at: StopPlaces, session: SessionIds, target: 0 .. TurnLimit, closes: BOOLEAN]
      /\ next.at = "told" /\ next.session = request[t].session /\ next.target = target
  BY <1>2 DEF StopPlaces
<1> HIDE DEF next
<1>4. request'[t] = next /\ \A u \in Threads \ {t} : request'[u] = request[u]
  BY <1>1 DEF CancellationInv, HandlersTypeOK
<1>5. HandlersTypeOK'
  <2>1. next \in HandlerStates /\ HandlerStates' = HandlerStates
    BY <1>1, <1>3 DEF HandlerStates, vars
  <2>2. QED
    BY <1>1, <2>1 DEF CancellationInv, HandlersTypeOK, vars
<1>6. TargetsAreOfTheSession'
  BY <1>1, <1>3, <1>4 DEF CancellationInv, TargetsAreOfTheSession, StopPlaces, vars
<1>7. PublishedCoordinatorIsAtWork'
  BY <1>1, <1>4 DEF CancellationInv, PublishedCoordinatorIsAtWork, vars
<1>8. \A s : Stopping(s) => Stopping(s)'
  BY <1>1, <1>3, <1>4 DEF Stopping
<1>9. OnlyStoppedWorkIsCancelled'
  <2> SUFFICES ASSUME NEW tok \in tokens, tok.turn \in cancelled', Accepts(tok)
               PROVE  Stopping(tok.session)
    BY <1>1, <1>8 DEF OnlyStoppedWorkIsCancelled, Accepts, LiveTurns, vars
  <2>1. CASE tok.turn \in cancelled
    BY <2>1 DEF CancellationInv, OnlyStoppedWorkIsCancelled
  <2>2. CASE tok.turn = target
    <3>1. target # Nobody
      BY <2>2 DEF CancellationInv, HandlersTypeOK
    <3>2. PICK other \in tokens : other.turn = target /\ other.session = request[t].session
      BY <1>1, <3>1 DEF CancellationInv, TargetsAreOfTheSession, StopPlaces
    <3>3. tok.session = request[t].session
      BY <2>2, <3>2, TokensAreNumbered DEF CancellationInv
    <3>4. QED
      BY <1>1, <3>3 DEF Stopping
  <2>3. QED
    BY <1>1, <2>1, <2>2
<1>10. QED
  BY <1>5, <1>6, <1>7, <1>9 DEF CancellationInv

(* Once the store was told, it accepts no token of the session any more.   *)
LEMMA StopInStoreKeepsOrder ==
    ASSUME CancellationInv, IInv, NEW t \in Threads, StopInStore(t), [Next]_vars
    PROVE  CancellationInv'
<1> DEFINE s == request[t].session
<1>1. /\ request[t].at = "told" /\ request' = [request EXCEPT ![t] = Idle]
      /\ UNCHANGED <<published, registered, cancelled>>
  BY DEF StopInStore, WorkingAt, Become
<1>2. s \in SessionIds
  BY <1>1, StopOnTheWay DEF StopPlaces
<1>3. /\ generation' = [generation EXCEPT ![s] = @ + 1]
      /\ UNCHANGED <<tokens, turn_ids>>
  BY DEF StopInStore, CloseSession, Cancel
<1>4. \A tok \in tokens : tok.session = s => ~Accepts(tok)'
  BY <1>2, <1>3, RaisedGeneration
<1>5. \A tok \in tokens : Accepts(tok)' => Accepts(tok)
  BY StoreStep DEF CancellationInv, HandlersTypeOK
<1>6. request'[t] = Idle /\ \A u \in Threads \ {t} : request'[u] = request[u]
  BY <1>1 DEF CancellationInv, HandlersTypeOK
<1>7. HandlersTypeOK'
  <2>1. Idle \in HandlerStates /\ HandlerStates' = HandlerStates
    BY <1>3, IdleIsAState DEF HandlerStates
  <2>2. QED
    BY <1>1, <1>3, <2>1 DEF CancellationInv, HandlersTypeOK
<1>8. TargetsAreOfTheSession'
  BY <1>3, <1>6, IdleIsAState DEF CancellationInv, TargetsAreOfTheSession, StopPlaces
<1>9. PublishedCoordinatorIsAtWork'
  BY <1>1, <1>6 DEF CancellationInv, PublishedCoordinatorIsAtWork
<1>10. OnlyStoppedWorkIsCancelled'
  <2> SUFFICES ASSUME NEW tok \in tokens, tok.turn \in cancelled, Accepts(tok)'
               PROVE  Stopping(tok.session)'
    BY <1>1, <1>3 DEF OnlyStoppedWorkIsCancelled
  <2>1. Stopping(tok.session) /\ tok.session # s
    BY <1>4, <1>5 DEF CancellationInv, OnlyStoppedWorkIsCancelled
  <2>2. QED
    BY <1>6, <2>1 DEF Stopping
<1>11. QED
  BY <1>7, <1>8, <1>9, <1>10 DEF CancellationInv

LEMMA CancellationInvInit == CancellationInit => CancellationInv
<1> SUFFICES ASSUME CancellationInit PROVE CancellationInv
  OBVIOUS
<1>1. HandlersTypeOK
  BY BoundsArePositive, IdleIsAState DEF CancellationInit, Init, HandlersTypeOK, Nobody
<1>2. TargetsAreOfTheSession /\ PublishedCoordinatorIsAtWork /\ OnlyStoppedWorkIsCancelled
  BY IdleIsAState DEF CancellationInit, Init, TargetsAreOfTheSession,
     PublishedCoordinatorIsAtWork, OnlyStoppedWorkIsCancelled, StopPlaces
<1>3. QED
  BY <1>1, <1>2 DEF CancellationInv

LEMMA CancellationInvStep ==
    CancellationInv /\ IInv /\ [CancellationNext]_cancellation_vars => CancellationInv'
<1> SUFFICES ASSUME CancellationInv, IInv, [CancellationNext]_cancellation_vars
             PROVE  CancellationInv'
  OBVIOUS
<1>1. [Next]_vars
  BY HandlersUseTheStore DEF CancellationInv
<1>2. CASE UNCHANGED cancellation_vars
  BY <1>1, <1>2, StoreAloneKeepsOrder DEF cancellation_vars
<1>3. ASSUME NEW s \in SessionIds, CreateConversation(s) \/ VoiceStop(s)
      PROVE  CancellationInv'
  BY <1>1, <1>3, StoreAloneKeepsOrder DEF CreateConversation, VoiceStop
<1>4. ASSUME NEW t \in Threads, TurnStep(t) \/ Escape(t)
      PROVE  CancellationInv'
  <2>1. CASE NoticeStop(t)
    BY <1>1, <2>1, LeavingKeepsOrder DEF NoticeStop, WorkingAt
  <2>2. QED
    BY <1>1, <1>4, <2>1, PublishKeepsOrder, RegisterKeepsOrder, ReturnKeepsOrder,
       WithdrawKeepsOrder, SettlesKeepOrder, EscapeKeepsOrder DEF TurnStep
<1>5. ASSUME NEW t \in Threads, StopStep(t)
      PROVE  CancellationInv'
  BY <1>1, <1>5, CancelCoordinatorKeepsOrder, StopInStoreKeepsOrder DEF StopStep
<1>6. QED
  BY <1>1, <1>2, <1>3, <1>4, <1>5, BeginKeepsOrder, PopKeepsOrder DEF CancellationNext

(* The store and its handlers keep their invariants together. *)
LEMMA HandlersKeepTheStore == CancellationSpec => [](IInv /\ CancellationInv)
<1>1. CancellationInit => IInv /\ CancellationInv
  BY CancellationInvInit, InitInvariant DEF CancellationInit
<1>2. CancellationInv /\ [CancellationNext]_cancellation_vars => [Next]_vars
  BY HandlersUseTheStore DEF CancellationInv
<1>3. IInv /\ CancellationInv /\ [CancellationNext]_cancellation_vars
         => (IInv /\ CancellationInv)'
  BY <1>2, StepKeepsInvariant, CancellationInvStep
<1>4. QED
  BY <1>1, <1>3, PTL DEF CancellationSpec

(* A stop cancels the run it was meant for and no other: a run that was    *)
(* told to stop while the store still accepts its turn belongs to a        *)
(* session whose stop is on its way to the store (brain.py, the cancel and *)
(* close routes; coordinator.py, cancel_session and run_turn).             *)
THEOREM StopsHitTheirMark == CancellationSpec => []OnlyStoppedWorkIsCancelled
<1>1. CancellationInv => OnlyStoppedWorkIsCancelled
  BY DEF CancellationInv
<1>2. QED
  BY <1>1, HandlersKeepTheStore, PTL

(* A coordinator that can be found is that of a run at work, of the        *)
(* session it is found under; everything else the handlers carry is of its *)
(* type (brain.py, ACTIVE_PERSONAL_COORDINATORS).                          *)
THEOREM CoordinatorsStayInOrder == CancellationSpec => []CoordinatorsAreInOrder
<1>1. IInv /\ CancellationInv => CoordinatorsAreInOrder
  <2> SUFFICES ASSUME IInv, CancellationInv PROVE CoordinatorsAreInOrder
    OBVIOUS
  <2>1. TypeOK /\ HandlersTypeOK
    BY DEF IInv, CancellationInv
  <2>2. registered \subseteq 1 .. TurnLimit /\ cancelled \subseteq 1 .. TurnLimit
    BY <2>1, BoundsArePositive DEF HandlersTypeOK
  <2>3. \A t \in Threads : request[t] \in HandlerStates
    BY <2>1 DEF HandlersTypeOK
  <2>4. CancellationTypeOK
    BY <2>1, <2>2, <2>3 DEF CancellationTypeOK, HandlersTypeOK, HandlerStates, StopPlaces
  <2>5. QED
    BY <2>4 DEF CancellationInv, CoordinatorsAreInOrder
<1>2. QED
  BY <1>1, HandlersKeepTheStore, PTL

(***************************************************************************)
(* Routing.  A question that waits for an account is asked of the turns    *)
(* that follow, and every session sees its own history.                    *)
(***************************************************************************)

RequestFields == {"at", "voice", "message", "turn", "profiles", "context", "question", "asks",
                  "given", "offered", "under"}

(* What the user said in a turn, of some entries of the history. *)
SaidIn(entries, turn) ==
    {entries[i].message : i \in {i \in DOMAIN entries : entries[i].role = "user" /\ entries[i].turn = turn}}

SaidOnly(entries, turn, message) == SaidIn(entries, turn) = {message}

(* The question a request carries while it is routed. *)
RequestIsShaped(doing, turnCount) ==
    /\ DOMAIN doing = RequestFields
    /\ doing.turn \in 0 .. turnCount
    /\ doing.at = "routing" =>
          doing.asks = IF doing.question = NoMessage THEN doing.message ELSE doing.question
    /\ doing.at \in {"beginning", "restored"} => doing.asks = doing.message

(* What a request knows of the session while no other one is under way. *)
RequestIsCurrent(doing, accounts, entries, chosen) ==
    /\ ~chosen /\ doing.at = "routing" => doing.context = accounts
    /\ ~chosen /\ doing.at = "dispatching" /\ accounts # <<>> => doing.offered \subseteq ToSet(accounts)
    /\ ~chosen /\ doing.at = "answering" => InScope(doing.under, accounts)
    /\ ~doing.voice /\ doing.at \in {"choosing", "restoring"} => SaidOnly(entries, doing.turn, doing.asks)
    /\ ~doing.voice /\ doing.at \in {"dispatching", "answering"} => SaidOnly(doing.given, doing.turn, doing.asks)

HistoryIsShaped(entries, turnCount) ==
    /\ entries \in Seq(ToSet(entries))
    /\ \A i \in DOMAIN entries : entries[i].turn \in 0 .. turnCount

HistoryIsUnder(entries, accounts) == \A i \in DOMAIN entries : InScope(entries[i].under, accounts)

ChatInv ==
    /\ DOMAIN chat = ChatRequests
    /\ \A r \in ChatRequests : RequestIsShaped(chat[r], chatTurns)
    /\ chatTurns \in Nat
    /\ HistoryIsShaped(chatHistory, chatTurns)
    /\ alone =>
          /\ \A r, q \in ChatRequests : chat[r].at # "idle" /\ chat[q].at # "idle" => r = q
          /\ \A r \in ChatRequests : RequestIsCurrent(chat[r], context, chatHistory, steered)
          /\ ~steered => HistoryIsUnder(chatHistory, context)
-----------------------------------------------------------------------------
LEMMA FunctionIsSequence ==
    ASSUME NEW n \in Nat, NEW s, s = [i \in 1 .. n |-> s[i]]
    PROVE  s \in Seq(ToSet(s))
<1>1. DOMAIN s = 1 .. n
  OBVIOUS
<1>2. \A i \in 1 .. n : s[i] \in ToSet(s)
  BY <1>1 DEF ToSet
<1>3. s \in [1 .. n -> ToSet(s)]
  BY <1>2
<1> QED  BY <1>3, SeqDef

(* A longer history begins with the one there was. *)
LEMMA HistoryGrows ==
    ASSUME NEW entries, NEW turnCount \in Nat, HistoryIsShaped(entries, turnCount), NEW entry,
           NEW later \in Nat, turnCount <= later, entry.turn \in 0 .. later,
           NEW grown, grown = Append(entries, entry)
    PROVE  /\ HistoryIsShaped(grown, later)
           /\ \A accounts : HistoryIsUnder(entries, accounts) /\ InScope(entry.under, accounts) =>
                               HistoryIsUnder(grown, accounts)
           /\ entry.role = "user" /\ entry.turn > turnCount =>
                 SaidOnly(grown, entry.turn, entry.message)
<1> DEFINE T == ToSet(entries) \cup {entry}
           n == Len(entries)
<1>1. entries \in Seq(T) /\ entries \in Seq(ToSet(entries)) /\ n \in Nat /\ DOMAIN entries = 1 .. n
  <2>1. entries \in Seq(ToSet(entries))
    BY DEF HistoryIsShaped
  <2>2. \A S : entries \in Seq(S) => entries \in Seq(T) \/ ~(S \subseteq T)
    BY SeqDef
  <2>3. ToSet(entries) \subseteq T
    OBVIOUS
  <2> QED  BY <2>1, <2>2, <2>3, LenProperties
<1>2. /\ grown \in [1 .. n + 1 -> T] /\ Len(grown) = n + 1 /\ DOMAIN grown = 1 .. n + 1
      /\ grown[n + 1] = entry /\ \A i \in 1 .. n : grown[i] = entries[i]
  <2>1. entry \in T
    OBVIOUS
  <2> HIDE DEF T
  <2>2. Append(entries, entry) \in Seq(T) /\ Len(Append(entries, entry)) = n + 1
        /\ Append(entries, entry)[n + 1] = entry
        /\ \A i \in 1 .. n : Append(entries, entry)[i] = entries[i]
    BY <1>1, <2>1, AppendProperties
  <2>3. grown \in Seq(T) /\ Len(grown) = n + 1
    BY <2>2
  <2>4. grown \in [1 .. n + 1 -> T]
    BY ONLY <2>3, LenProperties
  <2> QED  BY <2>2, <2>3, <2>4
<1> HIDE DEF T, n
<1>3. \A i \in 1 .. n + 1 : i = n + 1 \/ i \in 1 .. n
  BY <1>1
<1>4. grown \in Seq(ToSet(grown))
  <2>1. grown = [i \in 1 .. n + 1 |-> grown[i]] /\ n + 1 \in Nat
    BY ONLY <1>1, <1>2
  <2> QED  BY ONLY <2>1, FunctionIsSequence
<1>5. \A i \in DOMAIN entries : entries[i].turn \in 0 .. turnCount
  BY DEF HistoryIsShaped
<1>6. HistoryIsShaped(grown, later)
  BY <1>1, <1>2, <1>3, <1>4, <1>5 DEF HistoryIsShaped
<1>7. ASSUME NEW accounts, HistoryIsUnder(entries, accounts), InScope(entry.under, accounts)
      PROVE  HistoryIsUnder(grown, accounts)
  BY <1>1, <1>2, <1>3, <1>7 DEF HistoryIsUnder
<1>8. ASSUME entry.role = "user", entry.turn > turnCount
      PROVE  SaidOnly(grown, entry.turn, entry.message)
  <2>1. \A i \in 1 .. n : grown[i].turn # entry.turn
    BY <1>1, <1>2, <1>5, <1>8
  <2>2. n + 1 \in 1 .. n + 1
    BY <1>1
  <2>3. {i \in DOMAIN grown : grown[i].role = "user" /\ grown[i].turn = entry.turn} = {n + 1}
    BY <1>2, <1>3, <1>8, <2>1, <2>2
  <2> QED  BY <1>2, <2>3 DEF SaidIn, SaidOnly
<1> QED  BY <1>6, <1>7, <1>8

LEMMA LaterTurns ==
    ASSUME NEW entries, NEW turnCount \in Nat, NEW later \in Nat, turnCount <= later
    PROVE  /\ HistoryIsShaped(entries, turnCount) => HistoryIsShaped(entries, later)
           /\ \A doing : RequestIsShaped(doing, turnCount) => RequestIsShaped(doing, later)
BY DEF HistoryIsShaped, RequestIsShaped

(* An empty history, a request that is over. *)
LEMMA NothingIsRight ==
    /\ \A turnCount \in Nat : HistoryIsShaped(<<>>, turnCount) /\ RequestIsShaped(NoChat, turnCount)
    /\ \A accounts : HistoryIsUnder(<<>>, accounts)
    /\ \A accounts, entries, chosen : RequestIsCurrent(NoChat, accounts, entries, chosen)
<1>1. <<>> \in Seq(ToSet(<<>>)) /\ DOMAIN <<>> = {}
  BY SeqDef DEF ToSet
<1> QED  BY <1>1 DEF HistoryIsShaped, HistoryIsUnder, RequestIsShaped, RequestIsCurrent, NoChat, RequestFields

(* One request goes on to something that is right in itself. *)
LEMMA RequestMoves ==
    ASSUME ChatInv, NEW r \in ChatRequests, NEW doing, chat' = [chat EXCEPT ![r] = doing],
           \/ chat[r].at # "idle" /\ alone' = alone
           \/ alone' = (alone /\ \A other \in ChatRequests \ {r} : chat[other].at = "idle"),
           chatTurns' \in Nat, chatTurns <= chatTurns',
           HistoryIsShaped(chatHistory', chatTurns'),
           RequestIsShaped(doing, chatTurns'),
           RequestIsCurrent(chat[r], context, chatHistory, steered)
              /\ (~steered => HistoryIsUnder(chatHistory, context)) =>
              /\ RequestIsCurrent(doing, context', chatHistory', steered')
              /\ ~steered' => HistoryIsUnder(chatHistory', context')
    PROVE  ChatInv'
<1>1. /\ DOMAIN chat' = ChatRequests /\ chat'[r] = doing
      /\ \A q \in ChatRequests : q # r => chat'[q] = chat[q]
  BY DEF ChatInv
<1>2. \A q \in ChatRequests : RequestIsShaped(chat'[q], chatTurns')
  BY <1>1, LaterTurns DEF ChatInv
<1>3. ASSUME alone'
      PROVE  /\ \A p, q \in ChatRequests : chat'[p].at # "idle" /\ chat'[q].at # "idle" => p = q
             /\ \A q \in ChatRequests : RequestIsCurrent(chat'[q], context', chatHistory', steered')
             /\ ~steered' => HistoryIsUnder(chatHistory', context')
  <2>1. alone /\ \A q \in ChatRequests : q # r => chat[q].at = "idle"
    BY <1>3 DEF ChatInv
  <2>2. /\ RequestIsCurrent(doing, context', chatHistory', steered')
        /\ ~steered' => HistoryIsUnder(chatHistory', context')
    BY <2>1 DEF ChatInv
  <2>3. \A q \in ChatRequests : q # r => RequestIsCurrent(chat'[q], context', chatHistory', steered')
    BY <1>1, <2>1 DEF RequestIsCurrent
  <2> QED  BY <1>1, <2>1, <2>2, <2>3
<1> QED  BY <1>1, <1>2, <1>3 DEF ChatInv

LEMMA OwnScope == \A accounts : InScope(accounts, accounts)
BY DEF InScope

(* The only account that is offered stands for those of the session. *)
LEMMA SoleStandsFor ==
    ASSUME NEW account, NEW accounts, Len(accounts) # 1,
           accounts # <<>> => account \in ToSet(accounts)
    PROVE  InScope(<<account>>, accounts)
<1>1. Len(<<account>>) = 1 /\ ToSet(<<account>>) = {account}
  BY DEF ToSet
<1> QED  BY <1>1 DEF InScope

(* It ends. *)
LEMMA RequestEnds ==
    ASSUME ChatInv, NEW r \in ChatRequests, chat[r].at # "idle", Ends(r), UNCHANGED <<chatTurns, alone>>,
           HistoryIsShaped(chatHistory', chatTurns),
           (~steered => HistoryIsUnder(chatHistory, context)) =>
              (~steered' => HistoryIsUnder(chatHistory', context'))
    PROVE  ChatInv'
<1>1. chat' = [chat EXCEPT ![r] = NoChat]
  BY DEF Ends, Goes
<1>2. /\ chatTurns' = chatTurns /\ chatTurns \in Nat /\ chatTurns <= chatTurns
      /\ RequestIsShaped(NoChat, chatTurns')
      /\ RequestIsCurrent(NoChat, context', chatHistory', steered')
  BY NothingIsRight DEF ChatInv
<1> QED  BY <1>1, <1>2, RequestMoves

(* It goes on and leaves the session as it is. *)
LEMMA RequestGoesOn ==
    ASSUME ChatInv, NEW r \in ChatRequests, NEW doing, Goes(r, doing), chat[r].at # "idle",
           UNCHANGED <<context, chatHistory, steered, chatTurns, alone>>,
           RequestIsShaped(doing, chatTurns),
           RequestIsCurrent(chat[r], context, chatHistory, steered) =>
              RequestIsCurrent(doing, context, chatHistory, steered)
    PROVE  ChatInv'
<1>1. /\ chat' = [chat EXCEPT ![r] = doing]
      /\ context' = context /\ chatHistory' = chatHistory /\ steered' = steered
      /\ chatTurns' = chatTurns /\ alone' = alone
  BY DEF Goes
<1>2. /\ chatTurns \in Nat /\ chatTurns <= chatTurns /\ HistoryIsShaped(chatHistory, chatTurns)
  BY DEF ChatInv
<1>3. RequestIsCurrent(chat[r], context, chatHistory, steered)
              /\ (~steered => HistoryIsUnder(chatHistory, context)) =>
              /\ RequestIsCurrent(doing, context', chatHistory', steered')
              /\ ~steered' => HistoryIsUnder(chatHistory', context')
  BY <1>1
<1>4. chatTurns' \in Nat /\ chatTurns <= chatTurns' /\ HistoryIsShaped(chatHistory', chatTurns')
      /\ RequestIsShaped(doing, chatTurns')
  BY <1>1, <1>2
<1> QED  BY <1>1, <1>3, <1>4, RequestMoves

(* What the invariant says of one request. *)
LEMMA RequestShapes ==
    ASSUME ChatInv, NEW r \in ChatRequests
    PROVE  /\ RequestIsShaped(chat[r], chatTurns) /\ DOMAIN chat[r] = RequestFields
           /\ chat[r].turn \in 0 .. chatTurns /\ chatTurns \in Nat /\ chatTurns <= chatTurns
           /\ HistoryIsShaped(chatHistory, chatTurns)
BY DEF ChatInv, RequestIsShaped

(* The answer is kept, and the request is over. *)
LEMMA FinishingKeepsInv ==
    ASSUME ChatInv, NEW r \in ChatRequests, chat[r].at # "idle", NEW under, Finishes(r, under),
           RequestIsCurrent(chat[r], context, chatHistory, steered) /\ ~steered =>
              InScope(under, context)
    PROVE  ChatInv'
<1>1. Ends(r) /\ UNCHANGED <<context, steered, chatTurns, alone>>
  BY DEF Finishes
<1>2. CASE AcceptsTurn(r)
  <2> DEFINE entry == Entry("assistant", chat[r].turn, NoMessage, under)
  <2>1. chatHistory' = Append(chatHistory, entry)
    BY <1>2 DEF Finishes, Remember
  <2>2. entry.turn \in 0 .. chatTurns /\ entry.under = under /\ chatTurns \in Nat /\ chatTurns <= chatTurns
        /\ HistoryIsShaped(chatHistory, chatTurns)
    BY RequestShapes DEF Entry
  <2> HIDE DEF entry
  <2>3. /\ HistoryIsShaped(chatHistory', chatTurns)
        /\ HistoryIsUnder(chatHistory, context) /\ InScope(under, context) =>
              HistoryIsUnder(chatHistory', context)
    BY <2>1, <2>2, HistoryGrows
  <2>4. RequestIsCurrent(chat[r], context, chatHistory, steered)
           /\ (~steered => HistoryIsUnder(chatHistory, context)) =>
              (~steered' => HistoryIsUnder(chatHistory', context'))
    BY <1>1, <2>3
  <2>5. /\ chat' = [chat EXCEPT ![r] = NoChat]
        /\ chatTurns' = chatTurns
        /\ RequestIsShaped(NoChat, chatTurns')
        /\ RequestIsCurrent(NoChat, context', chatHistory', steered')
    BY <1>1, <2>2, NothingIsRight DEF Ends, Goes
  <2> QED  BY <1>1, <2>2, <2>3, <2>4, <2>5, RequestMoves
<1>3. CASE ~AcceptsTurn(r)
  <2>1. chatHistory' = chatHistory
    BY <1>3 DEF Finishes
  <2> QED  BY <1>1, <2>1, RequestEnds, RequestShapes
<1> QED  BY <1>2, <1>3

(* A route leaves the request to be told, begun or given up, and the session as it was, *)
(* without its history, or with the accounts the request had read.                       *)
LEMMA RoutingKeepsInv ==
    ASSUME ChatInv, NEW r \in ChatRequests, chat[r].at = "routing",
           NEW doing, Goes(r, doing), UNCHANGED <<chatTurns, alone>>,
           doing = NoChat \/ \E place \in {"telling", "beginning", "restored"} : \E message :
              /\ doing = [NoChat EXCEPT !.at = place, !.message = message, !.asks = chat[r].asks,
                                        !.voice = chat[r].voice, !.turn = chat[r].turn]
              /\ place # "telling" => message = chat[r].asks,
           \/ UNCHANGED <<context, chatHistory, steered>>
           \/ chatHistory' = <<>> /\ steered' = FALSE
           \/ context' = chat[r].context /\ chatHistory' = chatHistory /\ (~steered' => ~steered)
    PROVE  ChatInv'
<1>1. /\ chat' = [chat EXCEPT ![r] = doing] /\ chatTurns' = chatTurns /\ alone' = alone
      /\ chatTurns \in Nat /\ chatTurns <= chatTurns /\ chat[r].turn \in 0 .. chatTurns
      /\ HistoryIsShaped(chatHistory, chatTurns)
  <2>1. /\ chat[r].turn \in 0 .. chatTurns /\ chatTurns \in Nat /\ chatTurns <= chatTurns
        /\ HistoryIsShaped(chatHistory, chatTurns)
    BY RequestShapes
  <2>2. chat' = [chat EXCEPT ![r] = doing]
    BY DEF Goes
  <2> QED  BY <2>1, <2>2
<1>2. HistoryIsShaped(chatHistory', chatTurns')
  BY <1>1, NothingIsRight
<1>3. /\ RequestIsShaped(doing, chatTurns')
      /\ \A accounts, entries, chosen : RequestIsCurrent(doing, accounts, entries, chosen)
  <2>1. CASE doing = NoChat
    BY <1>1, <2>1, NothingIsRight
  <2>2. ASSUME NEW place \in {"telling", "beginning", "restored"}, NEW message,
               doing = [NoChat EXCEPT !.at = place, !.message = message, !.asks = chat[r].asks,
                                      !.voice = chat[r].voice, !.turn = chat[r].turn],
               place # "telling" => message = chat[r].asks
        PROVE  /\ RequestIsShaped(doing, chatTurns')
               /\ \A accounts, entries, chosen : RequestIsCurrent(doing, accounts, entries, chosen)
    <3>1. /\ DOMAIN doing = RequestFields /\ doing.at = place /\ doing.message = message
          /\ doing.asks = chat[r].asks /\ doing.turn = chat[r].turn
      BY <2>2 DEF NoChat, RequestFields
    <3> QED  BY <1>1, <2>2, <3>1 DEF RequestIsShaped, RequestIsCurrent
  <2> QED  BY <2>1, <2>2
<1>4. RequestIsCurrent(chat[r], context, chatHistory, steered)
         /\ (~steered => HistoryIsUnder(chatHistory, context)) =>
         (~steered' => HistoryIsUnder(chatHistory', context'))
  BY NothingIsRight DEF RequestIsCurrent
<1> QED  BY <1>1, <1>2, <1>3, <1>4, RequestMoves

LEMMA ChatStepKeepsInv ==
    ASSUME ChatInv, NEW r \in ChatRequests, ChatStep(r)
    PROVE  ChatInv'
<1>0. /\ RequestIsShaped(chat[r], chatTurns) /\ DOMAIN chat[r] = RequestFields
      /\ chat[r].turn \in 0 .. chatTurns /\ chatTurns \in Nat /\ chatTurns <= chatTurns
      /\ HistoryIsShaped(chatHistory, chatTurns)
  BY RequestShapes
<1>1. ASSUME NEW message, Types(r, message) PROVE ChatInv'
  <2> DEFINE doing == [NoChat EXCEPT !.at = "reading", !.message = message]
  <2>1. /\ chat' = [chat EXCEPT ![r] = doing]
        /\ alone' = (alone /\ \A other \in ChatRequests \ {r} : chat[other].at = "idle")
        /\ UNCHANGED <<context, chatHistory, steered, chatTurns>>
    BY <1>1 DEF Types, Goes, ChatArrives, Session, Turns
  <2>2. DOMAIN doing = RequestFields /\ doing.at = "reading" /\ doing.turn = 0
    BY DEF NoChat, RequestFields
  <2> HIDE DEF doing
  <2>3. RequestIsShaped(doing, chatTurns) /\ RequestIsCurrent(doing, context, chatHistory, steered)
    BY <1>0, <2>2 DEF RequestIsShaped, RequestIsCurrent
  <2>4. /\ chatTurns' \in Nat /\ chatTurns <= chatTurns' /\ HistoryIsShaped(chatHistory', chatTurns')
        /\ RequestIsShaped(doing, chatTurns') /\ RequestIsCurrent(doing, context', chatHistory', steered')
        /\ (~steered => HistoryIsUnder(chatHistory, context)) => (~steered' => HistoryIsUnder(chatHistory', context'))
    BY <1>0, <2>1, <2>3
  <2> QED  BY <2>1, <2>4, RequestMoves
<1>2. ASSUME Records(r) PROVE ChatInv'
  <2> DEFINE doing == [NoChat EXCEPT !.at = "recording", !.voice = TRUE, !.turn = chatTurns + 1]
  <2>1. /\ chat' = [chat EXCEPT ![r] = doing]
        /\ alone' = (alone /\ \A other \in ChatRequests \ {r} : chat[other].at = "idle")
        /\ UNCHANGED <<context, chatHistory, steered>> /\ chatTurns' = chatTurns + 1
    BY <1>2 DEF Records, Goes, ChatArrives, Session
  <2>2. DOMAIN doing = RequestFields /\ doing.at = "recording" /\ doing.turn = chatTurns + 1
    BY DEF NoChat, RequestFields
  <2> HIDE DEF doing
  <2>3. chatTurns + 1 \in Nat /\ chatTurns <= chatTurns + 1
    BY <1>0
  <2>4. /\ RequestIsShaped(doing, chatTurns + 1) /\ RequestIsCurrent(doing, context, chatHistory, steered)
        /\ HistoryIsShaped(chatHistory, chatTurns + 1)
    BY <1>0, <2>2, <2>3, LaterTurns DEF RequestIsShaped, RequestIsCurrent
  <2>5. /\ chatTurns' \in Nat /\ chatTurns <= chatTurns' /\ HistoryIsShaped(chatHistory', chatTurns')
        /\ RequestIsShaped(doing, chatTurns') /\ RequestIsCurrent(doing, context', chatHistory', steered')
        /\ (~steered => HistoryIsUnder(chatHistory, context)) => (~steered' => HistoryIsUnder(chatHistory', context'))
    BY <2>1, <2>3, <2>4
  <2> QED  BY <2>1, <2>5, RequestMoves
<1>3. ASSUME NEW message, Transcribes(r, message) PROVE ChatInv'
  <2>1. chat[r].at = "recording" /\ UNCHANGED <<context, steered, chatTurns, alone>>
    BY <1>3 DEF Transcribes
  <2>2. CASE /\ Remember(Entry("user", chat[r].turn, message, context))
             /\ Goes(r, [chat[r] EXCEPT !.at = "reading", !.message = message])
    <3> DEFINE entry == Entry("user", chat[r].turn, message, context)
               doing == [chat[r] EXCEPT !.at = "reading", !.message = message]
    <3>1. /\ entry.turn = chat[r].turn /\ entry.under = context
          /\ chatHistory' = Append(chatHistory, entry)
          /\ chat' = [chat EXCEPT ![r] = doing]
          /\ DOMAIN doing = RequestFields /\ doing.at = "reading" /\ doing.turn = chat[r].turn
      BY <1>0, <2>2 DEF Entry, Remember, Goes, RequestFields
    <3> HIDE DEF entry, doing
    <3>2. /\ HistoryIsShaped(chatHistory', chatTurns)
          /\ HistoryIsUnder(chatHistory, context) => HistoryIsUnder(chatHistory', context)
      <4>1. entry.turn \in 0 .. chatTurns
        BY <1>0, <3>1
      <4> QED  BY <1>0, <3>1, <4>1, HistoryGrows, OwnScope
    <3>3. RequestIsShaped(doing, chatTurns)
          /\ \A accounts, entries, chosen : RequestIsCurrent(doing, accounts, entries, chosen)
      BY <1>0, <3>1 DEF RequestIsShaped, RequestIsCurrent
    <3>4. /\ chatTurns' \in Nat /\ chatTurns <= chatTurns' /\ HistoryIsShaped(chatHistory', chatTurns')
          /\ RequestIsShaped(doing, chatTurns') /\ RequestIsCurrent(doing, context', chatHistory', steered')
          /\ (~steered => HistoryIsUnder(chatHistory, context)) => (~steered' => HistoryIsUnder(chatHistory', context'))
      BY <1>0, <2>1, <3>2, <3>3
    <3>5. chat[r].at # "idle" /\ alone' = alone
      BY <2>1
    <3> QED  BY <3>1, <3>4, <3>5, RequestMoves
  <2>3. CASE Ends(r) /\ UNCHANGED chatHistory
    BY <1>0, <2>1, <2>3, RequestEnds
  <2> QED  BY <1>3, <2>2, <2>3 DEF Transcribes
<1>4. ASSUME RouteReads(r) PROVE ChatInv'
  <2> DEFINE asks == IF question = NoMessage THEN chat[r].message ELSE question
             doing == [chat[r] EXCEPT !.at = "routing", !.profiles = profiles, !.context = context,
                                      !.question = question, !.asks = asks]
  <2>1. /\ chat[r].at = "reading" /\ Goes(r, doing)
        /\ UNCHANGED <<context, chatHistory, steered, chatTurns, alone>>
    BY <1>4 DEF RouteReads, Session, Turns
  <2>2. /\ DOMAIN doing = RequestFields /\ doing.at = "routing" /\ doing.turn = chat[r].turn
        /\ doing.asks = asks /\ doing.question = question /\ doing.context = context
        /\ doing.message = chat[r].message
    BY <1>0 DEF RequestFields
  <2> HIDE DEF doing
  <2>3. RequestIsShaped(doing, chatTurns) /\ RequestIsCurrent(doing, context, chatHistory, steered)
    BY <1>0, <2>2 DEF RequestIsShaped, RequestIsCurrent
  <2> QED  BY <2>1, <2>3, RequestGoesOn
<1>5. ASSUME NEW place \in {"telling", "beginning", "restored"}, NEW message, chat[r].at = "routing",
             Routed(r, place, message), place # "telling" => message = chat[r].asks,
             UNCHANGED <<chatTurns, alone>>,
             \/ UNCHANGED <<context, chatHistory, steered>>
             \/ chatHistory' = <<>> /\ steered' = FALSE
             \/ context' = chat[r].context /\ chatHistory' = chatHistory /\ (~steered' => ~steered)
      PROVE  ChatInv'
  <2> DEFINE doing == [NoChat EXCEPT !.at = place, !.message = message, !.asks = chat[r].asks,
                                     !.voice = chat[r].voice, !.turn = chat[r].turn]
  <2>1. Goes(r, doing)
    BY <1>5 DEF Routed
  <2>2. doing = NoChat \/ \E pp \in {"telling", "beginning", "restored"} : \E mm :
              /\ doing = [NoChat EXCEPT !.at = pp, !.message = mm, !.asks = chat[r].asks,
                                        !.voice = chat[r].voice, !.turn = chat[r].turn]
              /\ pp # "telling" => mm = chat[r].asks
    BY <1>5
  <2> HIDE DEF doing
  <2> QED  BY <1>5, <2>1, <2>2, RoutingKeepsInv
<1>6. ASSUME chat[r].at = "routing", Ends(r), UNCHANGED <<chatTurns, alone>>,
             \/ UNCHANGED <<context, chatHistory, steered>>
             \/ chatHistory' = <<>> /\ steered' = FALSE
      PROVE  ChatInv'
  BY <1>6, RoutingKeepsInv DEF Ends
<1>7. ASSUME NEW revoked, Keep(revoked)
      PROVE  \/ UNCHANGED <<context, chatHistory, steered>>
             \/ chatHistory' = <<>> /\ steered' = FALSE
  BY <1>7 DEF Keep, Select
<1>8. chat[r].at = "routing" =>
        chat[r].asks = IF chat[r].question = NoMessage THEN chat[r].message ELSE chat[r].question
  BY <1>0 DEF RequestIsShaped
<1>9. ASSUME RouteClarification(r) PROVE ChatInv'
  <2>1. chat[r].at = "routing" /\ chat[r].question # NoMessage /\ UNCHANGED <<chatTurns, alone>>
    BY <1>9 DEF RouteClarification, Turns
  <2>2. CASE \E revoked : Keep(revoked) /\ (Tells(r) \/ Ends(r))
    BY <1>5, <1>6, <1>7, <2>1, <2>2 DEF Tells
  <2>3. CASE \E accounts : Adopts(accounts, TRUE) /\ Restores(r)
    BY <1>5, <1>8, <2>1, <2>3 DEF Adopts, Select, Restores
  <2> QED
    <3>1. \/ \E revoked : Keep(revoked) /\ (Tells(r) \/ Ends(r))
          \/ \E accounts : Adopts(accounts, TRUE) /\ Restores(r)
      BY <1>9 DEF RouteClarification
    <3> QED  BY <2>2, <2>3, <3>1
<1>10. ASSUME RouteMessage(r) PROVE ChatInv'
  <2>1. chat[r].at = "routing" /\ chat[r].question = NoMessage /\ UNCHANGED <<chatTurns, alone>>
    BY <1>10 DEF RouteMessage, Turns
  <2>2. CASE \E revoked : Keep(revoked) /\ (Tells(r) \/ Ends(r) \/ Passes(r))
    BY <1>5, <1>6, <1>7, <1>8, <2>1, <2>2 DEF Tells, Passes
  <2>3. CASE \E accounts : /\ accounts # <<>>
                           /\ Adopts(accounts, accounts # IF Revoked(r) THEN <<>> ELSE chat[r].context)
                           /\ Passes(r)
    <3>1. PICK accounts : /\ accounts # <<>>
                          /\ Adopts(accounts, accounts # IF Revoked(r) THEN <<>> ELSE chat[r].context)
                          /\ Passes(r)
      BY <2>3
    <3>2. \/ chatHistory' = <<>> /\ steered' = FALSE
          \/ context' = chat[r].context /\ chatHistory' = chatHistory /\ (~steered' => ~steered)
      <4> DEFINE present == IF Revoked(r) THEN <<>> ELSE chat[r].context
      <4>1. /\ context' = accounts
            /\ chatHistory' = IF accounts # present THEN <<>> ELSE chatHistory
            /\ steered' = (steered /\ ~(accounts # present))
        BY <3>1 DEF Adopts, Select
      <4>2. present = chat[r].context \/ present = <<>>
        OBVIOUS
      <4> HIDE DEF present
      <4>3. CASE accounts # present
        BY <4>1, <4>3
      <4>4. CASE accounts = present
        <5>1. context' = chat[r].context /\ chatHistory' = chatHistory
          BY <3>1, <4>1, <4>2, <4>4
        <5>2. ~steered' => ~steered
          BY <4>1, <4>4
        <5> QED  BY <5>1, <5>2
      <4> QED  BY <4>3, <4>4
    <3>3. Routed(r, "beginning", chat[r].message) /\ chat[r].message = chat[r].asks
      BY <1>8, <2>1, <3>1 DEF Passes
    <3> QED  BY <1>5, <2>1, <3>2, <3>3
  <2> QED
    <3>1. \/ \E revoked : Keep(revoked) /\ (Tells(r) \/ Ends(r) \/ Passes(r))
          \/ \E accounts : /\ accounts # <<>>
                           /\ Adopts(accounts, accounts # IF Revoked(r) THEN <<>> ELSE chat[r].context)
                           /\ Passes(r)
      BY <1>10 DEF RouteMessage
    <3> QED  BY <2>2, <2>3, <3>1
<1>11. ASSUME Begins(r) PROVE ChatInv'
  <2> DEFINE next == IF chat[r].at = "telling" THEN "replying" ELSE "choosing"
  <2>1. chat[r].at \in {"beginning", "restored", "telling"} /\ UNCHANGED <<context, steered, alone>>
    BY <1>11 DEF Begins
  <2>2. CASE /\ chat[r].voice
             /\ IF chat[r].at = "restored"
                THEN Remember(Entry("user", chat[r].turn, chat[r].message, context))
                ELSE UNCHANGED chatHistory
             /\ At(r, next)
             /\ UNCHANGED Turns
    <3> DEFINE entry == Entry("user", chat[r].turn, chat[r].message, context)
               doing == [chat[r] EXCEPT !.at = next]
    <3>1. /\ entry.turn = chat[r].turn /\ entry.under = context
          /\ (chatHistory' = Append(chatHistory, entry) \/ chatHistory' = chatHistory)
          /\ chat' = [chat EXCEPT ![r] = doing] /\ chatTurns' = chatTurns
          /\ DOMAIN doing = RequestFields /\ doing.at \in {"replying", "choosing"}
          /\ doing.turn = chat[r].turn /\ doing.voice = chat[r].voice
      BY <1>0, <2>2 DEF Entry, Remember, At, Goes, RequestFields, Turns
    <3> HIDE DEF entry, doing
    <3>2. /\ HistoryIsShaped(chatHistory', chatTurns)
          /\ HistoryIsUnder(chatHistory, context) => HistoryIsUnder(chatHistory', context)
      <4>1. CASE chatHistory' = chatHistory
        BY <1>0, <4>1
      <4>2. CASE chatHistory' = Append(chatHistory, entry)
        <5>1. entry.turn \in 0 .. chatTurns
          BY <1>0, <3>1
        <5> QED  BY <1>0, <3>1, <4>2, <5>1, HistoryGrows, OwnScope
      <4> QED  BY <3>1, <4>1, <4>2
    <3>3. RequestIsShaped(doing, chatTurns)
          /\ \A accounts, entries, chosen : RequestIsCurrent(doing, accounts, entries, chosen)
      BY <1>0, <2>2, <3>1 DEF RequestIsShaped, RequestIsCurrent
    <3>4. /\ chatTurns' \in Nat /\ chatTurns <= chatTurns' /\ HistoryIsShaped(chatHistory', chatTurns')
          /\ RequestIsShaped(doing, chatTurns') /\ RequestIsCurrent(doing, context', chatHistory', steered')
          /\ (~steered => HistoryIsUnder(chatHistory, context)) => (~steered' => HistoryIsUnder(chatHistory', context'))
      BY <1>0, <2>1, <3>1, <3>2, <3>3
    <3>5. chat[r].at # "idle" /\ alone' = alone
      BY <2>1
    <3> QED  BY <3>1, <3>4, <3>5, RequestMoves
  <2>3. CASE /\ ~chat[r].voice
             /\ chatTurns' = chatTurns + 1
             /\ Remember(Entry("user", chatTurns + 1, chat[r].message, context))
             /\ Goes(r, [chat[r] EXCEPT !.at = next, !.turn = chatTurns + 1])
    <3> DEFINE entry == Entry("user", chatTurns + 1, chat[r].message, context)
               doing == [chat[r] EXCEPT !.at = next, !.turn = chatTurns + 1]
    <3>1. /\ entry.turn = chatTurns + 1 /\ entry.under = context /\ entry.role = "user"
          /\ entry.message = chat[r].message
          /\ chatHistory' = Append(chatHistory, entry)
          /\ chat' = [chat EXCEPT ![r] = doing]
          /\ DOMAIN doing = RequestFields /\ doing.at = next
          /\ doing.turn = chatTurns + 1 /\ doing.asks = chat[r].asks
      BY <1>0, <2>3 DEF Entry, Remember, Goes, RequestFields
    <3>2. next = "choosing" => chat[r].asks = chat[r].message
      BY <1>0, <2>1 DEF RequestIsShaped
    <3>3. next \in {"replying", "choosing"}
      OBVIOUS
    <3> HIDE DEF entry, doing, next
    <3>4. /\ HistoryIsShaped(chatHistory', chatTurns + 1)
          /\ HistoryIsUnder(chatHistory, context) => HistoryIsUnder(chatHistory', context)
          /\ SaidOnly(chatHistory', chatTurns + 1, chat[r].message)
      <4>1. /\ chatTurns + 1 \in Nat /\ chatTurns <= chatTurns + 1 /\ entry.turn \in 0 .. chatTurns + 1
            /\ entry.turn > chatTurns
        BY <1>0, <3>1
      <4>2. /\ HistoryIsShaped(chatHistory', chatTurns + 1)
            /\ \A accounts : HistoryIsUnder(chatHistory, accounts) /\ InScope(entry.under, accounts) =>
                               HistoryIsUnder(chatHistory', accounts)
            /\ entry.role = "user" /\ entry.turn > chatTurns =>
                 SaidOnly(chatHistory', entry.turn, entry.message)
        <5>1. chatTurns \in Nat /\ HistoryIsShaped(chatHistory, chatTurns)
          BY <1>0
        <5> QED  BY ONLY <3>1, <4>1, <5>1, HistoryGrows
      <4> QED  BY <3>1, <4>1, <4>2, OwnScope
    <3>5. RequestIsShaped(doing, chatTurns + 1)
          /\ \A accounts, chosen : RequestIsCurrent(doing, accounts, chatHistory', chosen)
      BY <1>0, <3>1, <3>2, <3>3, <3>4 DEF RequestIsShaped, RequestIsCurrent
    <3>6. /\ chatTurns' \in Nat /\ chatTurns <= chatTurns' /\ HistoryIsShaped(chatHistory', chatTurns')
          /\ RequestIsShaped(doing, chatTurns') /\ RequestIsCurrent(doing, context', chatHistory', steered')
          /\ (~steered => HistoryIsUnder(chatHistory, context)) => (~steered' => HistoryIsUnder(chatHistory', context'))
      BY <1>0, <2>1, <2>3, <3>4, <3>5
    <3>7. chat[r].at # "idle" /\ alone' = alone
      BY <2>1
    <3> QED  BY <3>1, <3>6, <3>7, RequestMoves
  <2>4. CASE Ends(r) /\ UNCHANGED <<chatHistory, activeTurn, chatTurns>>
    BY <1>0, <2>1, <2>4, RequestEnds
  <2> QED  BY <1>11, <2>2, <2>3, <2>4 DEF Begins
<1>12. ASSUME Replies(r) \/ AnswersItself(r) PROVE ChatInv'
  BY <1>12, FinishingKeepsInv DEF Replies, AnswersItself, InScope
<1>13. ASSUME ModelAnswers(r) PROVE ChatInv'
  <2>1. RequestIsCurrent(chat[r], context, chatHistory, steered) /\ ~steered =>
           InScope(chat[r].under, context)
    BY <1>13 DEF ModelAnswers, RequestIsCurrent
  <2> QED  BY <1>13, <2>1, FinishingKeepsInv DEF ModelAnswers
<1>14. ASSUME RefusesRequest(r) \/ FindsNothing(r) \/ CutShort(r) \/ ModelFails(r) PROVE ChatInv'
  <2>1. /\ chat[r].at # "idle" /\ Ends(r) /\ UNCHANGED <<chatTurns, alone>>
        /\ UNCHANGED <<context, chatHistory, steered>>
    BY <1>14 DEF RefusesRequest, FindsNothing, CutShort, ModelFails, Fails, Raises, Session, Turns
  <2> QED  BY <1>0, <2>1, RequestEnds
<1>15. ASSUME NEW from, NEW place, chat[r].at = from, At(r, place),
             from = "choosing" /\ place = "restoring",
             UNCHANGED <<context, chatHistory, steered, chatTurns, alone>>
       PROVE ChatInv'
  <2> DEFINE doing == [chat[r] EXCEPT !.at = place]
  <2>1. /\ DOMAIN doing = RequestFields /\ doing.at = place /\ doing.turn = chat[r].turn
        /\ doing.voice = chat[r].voice /\ doing.asks = chat[r].asks
        /\ Goes(r, doing)
    BY <1>0, <1>15 DEF RequestFields, At
  <2> HIDE DEF doing
  <2>2. RequestIsShaped(doing, chatTurns)
        /\ (RequestIsCurrent(chat[r], context, chatHistory, steered) =>
               RequestIsCurrent(doing, context, chatHistory, steered))
    BY <1>0, <1>15, <2>1 DEF RequestIsShaped, RequestIsCurrent
  <2> QED  BY <1>15, <2>1, <2>2, RequestGoesOn
<1>16. ASSUME AsksModel(r) PROVE ChatInv'
  BY <1>15, <1>16 DEF AsksModel, Session, Turns
<1>17. ASSUME Assembles(r) PROVE ChatInv'
  <2> DEFINE offered == IF context = <<>> THEN connected ELSE connected \cap ToSet(context)
             doing == [chat[r] EXCEPT !.at = "dispatching", !.given = chatHistory,
                                      !.offered = offered]
  <2>1. /\ chat[r].at = "restoring" /\ Goes(r, doing)
        /\ UNCHANGED <<context, chatHistory, steered, chatTurns, alone>>
    BY <1>17 DEF Assembles, Session, Turns
  <2>2. /\ DOMAIN doing = RequestFields /\ doing.at = "dispatching" /\ doing.turn = chat[r].turn
        /\ doing.voice = chat[r].voice /\ doing.asks = chat[r].asks /\ doing.given = chatHistory
        /\ doing.offered = offered
    BY <1>0 DEF RequestFields
  <2> HIDE DEF doing
  <2>3. RequestIsShaped(doing, chatTurns)
        /\ (RequestIsCurrent(chat[r], context, chatHistory, steered) =>
               RequestIsCurrent(doing, context, chatHistory, steered))
    BY <1>0, <2>1, <2>2 DEF RequestIsShaped, RequestIsCurrent
  <2> QED  BY <2>1, <2>3, RequestGoesOn
<1>18. ASSUME Dispatches(r) PROVE ChatInv'
  <2> DEFINE offered == chat[r].offered
             sole == {account \in offered : offered = {account} /\ Len(context) # 1}
             under == IF sole = {} THEN context ELSE <<CHOOSE account \in sole : TRUE>>
             doing == [chat[r] EXCEPT !.at = "answering", !.under = under]
  <2>1. /\ chat[r].at = "dispatching" /\ Goes(r, doing)
        /\ UNCHANGED <<context, chatHistory, steered, chatTurns, alone>>
    BY <1>18 DEF Dispatches, Session, Turns
  <2>2. /\ DOMAIN doing = RequestFields /\ doing.at = "answering" /\ doing.turn = chat[r].turn
        /\ doing.voice = chat[r].voice /\ doing.asks = chat[r].asks /\ doing.given = chat[r].given
        /\ doing.under = under
    BY <1>0 DEF RequestFields
  <2>3. ASSUME ~steered, RequestIsCurrent(chat[r], context, chatHistory, steered)
        PROVE  InScope(under, context)
    <3>1. context # <<>> => chat[r].offered \subseteq ToSet(context)
      BY <2>1, <2>3 DEF RequestIsCurrent
    <3>2. CASE sole = {}
      BY <3>2 DEF InScope
    <3>3. CASE sole # {}
      <4>1. PICK account \in sole : account = CHOOSE one \in sole : TRUE
        BY <3>3
      <4> QED  BY <3>1, <3>3, <4>1, SoleStandsFor
    <3> QED  BY <3>2, <3>3
  <2> HIDE DEF doing, under, sole
  <2>4. RequestIsShaped(doing, chatTurns)
        /\ (RequestIsCurrent(chat[r], context, chatHistory, steered) =>
               RequestIsCurrent(doing, context, chatHistory, steered))
    BY <1>0, <2>1, <2>2, <2>3 DEF RequestIsShaped, RequestIsCurrent
  <2> QED  BY <2>1, <2>4, RequestGoesOn
<1> QED
  BY <1>1, <1>2, <1>3, <1>4, <1>9, <1>10, <1>11, <1>12, <1>13, <1>14, <1>16, <1>17, <1>18 DEF ChatStep

LEMMA OthersKeepInv ==
    ASSUME ChatInv, UNCHANGED <<chat, chatHistory, chatTurns, alone>>,
           UNCHANGED <<context, steered>> \/ steered' = TRUE
    PROVE  ChatInv'
BY DEF ChatInv, RequestIsCurrent

LEMMA ChatInvHolds == ChatSpec => []ChatInv
<1>1. ChatInit => ChatInv
  <2> SUFFICES ASSUME ChatInit PROVE ChatInv
    OBVIOUS
  <2>1. NoChat.at = "idle"
    BY DEF NoChat
  <2>2. /\ DOMAIN chat = ChatRequests /\ \A r \in ChatRequests : chat[r] = NoChat
        /\ chatTurns = 0 /\ chatHistory = <<>>
    BY DEF ChatInit
  <2> QED  BY <2>1, <2>2, NothingIsRight DEF ChatInv
<1>2. ChatInv /\ [ChatNext]_chatVars => ChatInv'
  <2> SUFFICES ASSUME ChatInv, [ChatNext]_chatVars PROVE ChatInv'
    OBVIOUS
  <2>1. ASSUME NEW r \in ChatRequests, ChatStep(r) PROVE ChatInv'
    BY <2>1, ChatStepKeepsInv
  <2>2. ASSUME NEW accounts, SelectsContext(accounts) PROVE ChatInv'
    BY <2>2, OthersKeepInv DEF SelectsContext, Turns
  <2>3. CASE CancelsTurn
    BY <2>3, OthersKeepInv DEF CancelsTurn, Session
  <2>4. CASE ChangesSetup
    BY <2>4, OthersKeepInv DEF ChangesSetup, Session, Turns
  <2>5. ASSUME NEW account, ChangesConnection(account) PROVE ChatInv'
    BY <2>5, OthersKeepInv DEF ChangesConnection, Session, Turns
  <2>6. CASE UNCHANGED chatVars
    BY <2>6, OthersKeepInv DEF chatVars
  <2> QED  BY <2>1, <2>2, <2>3, <2>4, <2>5, <2>6 DEF ChatNext
<1> QED  BY <1>1, <1>2, PTL DEF ChatSpec

(* With one request at a time, and unless an operator selected them, a session that has  *)
(* accounts has nothing in its history that was said or answered under others; where it  *)
(* has several, one that was alone available may have stood for them.  For any setup, any *)
(* messages and any number of turns.                                                     *)
THEOREM HistoryStaysInScopeHolds == ChatSpec => []HistoryStaysInScope
<1>1. ChatInv => HistoryStaysInScope
  BY DEF ChatInv, HistoryIsUnder, HistoryStaysInScope
<1> QED  BY <1>1, ChatInvHolds, PTL

(* With one request at a time the model is given, of a typed turn, the question it is to *)
(* answer, after a clarification the one that was clarified, and no other as the user's. *)
(* Nothing is claimed of spoken turns.                                                   *)
THEOREM QuestionIsAskedHolds == ChatSpec => []QuestionIsAsked
<1>1. ChatInv => QuestionIsAsked
  BY DEF ChatInv, RequestIsCurrent, SaidIn, SaidOnly, Said, QuestionIsAsked
<1> QED  BY <1>1, ChatInvHolds, PTL

(***************************************************************************)
(* What a message names.  The scan that reads a message's words takes one  *)
(* mention after the other and drops what overlaps with it.  It is a       *)
(* recursive function over sets; its equation has a solution because the   *)
(* sets that a scan goes through are the least that hold the first and,    *)
(* with a set, what the scan leaves of it.                                 *)
(***************************************************************************)

Passed(S, rest, L) ==
    {K \in SUBSET S :
        \A C \in SUBSET SUBSET S : L \in C /\ (\A X \in C : rest[X] \in C) => K \in C}

IsScan(f, S, first, rest) ==
    f = [L \in SUBSET S |-> IF L = {} THEN {} ELSE {first[L]} \cup f[rest[L]]]

-----------------------------------------------------------------------------
(* A scan passes what it starts from, and then what it passes from the rest. *)
LEMMA PassedInSteps ==
    ASSUME NEW S, NEW rest, \A X \in SUBSET S : rest[X] \in SUBSET S, NEW L \in SUBSET S
    PROVE  Passed(S, rest, L) = {L} \cup Passed(S, rest, rest[L])
<1> DEFINE P(K) == Passed(S, rest, K)
           Kept(C) == \A X \in C : rest[X] \in C
<1>1. \A K \in SUBSET S : K \in P(K)
  BY DEF Passed
<1>2. \A K \in SUBSET S : Kept(P(K))
  BY DEF Passed
<1>3. P(rest[L]) \subseteq P(L)
  BY DEF Passed
<1>4. P(L) \subseteq {L} \cup P(rest[L])
  <2> DEFINE C == {L} \cup P(rest[L])
  <2>1. C \in SUBSET SUBSET S /\ L \in C
    BY DEF Passed
  <2>2. Kept(C)
    BY <1>1, <1>2
  <2> QED
    BY <2>1, <2>2 DEF Passed
<1> QED
  BY <1>1, <1>3, <1>4

(* A scan takes the first of every set it passes. *)
LEMMA ScanExists ==
    ASSUME NEW S, NEW first, NEW rest, \A X \in SUBSET S : rest[X] \in SUBSET S, rest[{}] = {}
    PROVE  \E f : IsScan(f, S, first, rest)
<1>0. ASSUME NEW L \in SUBSET S
      PROVE  Passed(S, rest, L) = {L} \cup Passed(S, rest, rest[L])
  BY PassedInSteps
<1> DEFINE f == [L \in SUBSET S |-> {first[K] : K \in Passed(S, rest, L) \ {{}}}]
           g == [L \in SUBSET S |-> IF L = {} THEN {} ELSE {first[L]} \cup f[rest[L]]]
<1>1. ASSUME NEW L \in SUBSET S
      PROVE  f[L] = g[L]
  <2>0. rest[L] \in SUBSET S
    OBVIOUS
  <2>1. Passed(S, rest, L) = {L} \cup Passed(S, rest, rest[L])
    BY <1>0
  <2>2. CASE L = {}
    <3>1. Passed(S, rest, {}) \subseteq {{}}
      <4> DEFINE C == {{}}
      <4>1. C \in SUBSET SUBSET S /\ {} \in C /\ \A X \in C : rest[X] \in C
        OBVIOUS
      <4> QED
        BY <4>1 DEF Passed
    <3> QED
      BY <2>2, <3>1
  <2>3. CASE L # {}
    <3>1. f[L] = {first[L]} \cup {first[K] : K \in Passed(S, rest, rest[L]) \ {{}}}
      BY <2>1, <2>3
    <3> QED
      BY <2>0, <2>3, <3>1
  <2> QED
    BY <2>2, <2>3
<1>2. f = [L \in SUBSET S |-> f[L]] /\ g = [L \in SUBSET S |-> g[L]]
  OBVIOUS
<1>3. f = g
  <2> HIDE DEF f, g
  <2> QED
    BY <1>1, <1>2
<1> QED
  BY <1>3 DEF IsScan

(* What is taken comes first of some mentions that hold all but those that overlap with *)
(* something else that is taken.                                                        *)
ComesFirst(m, L, taken, first) ==
    \E K \in SUBSET L : /\ K # {} /\ m = first[K]
                        /\ \A n \in L \ K : \E p \in taken \ {m} : Overlap(n, p)

(* What a scan takes of a finite set: some, of which no two overlap, and which overlap with all. *)
LEMMA ScanTakes ==
    ASSUME NEW S, IsFiniteSet(S), NEW first, NEW rest, NEW f, IsScan(f, S, first, rest),
           \A m \in S : Overlap(m, m), \A m, n \in S : Overlap(m, n) => Overlap(n, m),
           \A L \in SUBSET S : L # {} =>
               first[L] \in L /\ rest[L] = {m \in L : ~Overlap(m, first[L])},
           NEW L \in SUBSET S
    PROVE  /\ f[L] \subseteq L
           /\ \A m \in L : \E n \in f[L] : Overlap(m, n)
           /\ \A m, n \in f[L] : m # n => ~Overlap(m, n)
           /\ \A m \in f[L] : ComesFirst(m, L, f[L], first)
<1> DEFINE Good(K) == /\ f[K] \subseteq K
                      /\ \A m \in K : \E n \in f[K] : Overlap(m, n)
                      /\ \A m, n \in f[K] : m # n => ~Overlap(m, n)
                      /\ \A m \in f[K] : ComesFirst(m, K, f[K], first)
           B == {K \in SUBSET S : ~Good(K)}
<1> SUFFICES Good(L)
  OBVIOUS
<1>1. SUFFICES ASSUME B # {} PROVE FALSE
  OBVIOUS
<1>2. PICK K \in B : \A U \in B : U \subseteq K => U = K
  <2> B \subseteq SUBSET S
    OBVIOUS
  <2> HIDE DEF B
  <2> QED
    BY <1>1, LeastSubset
<1>3. f[K] = IF K = {} THEN {} ELSE {first[K]} \cup f[rest[K]]
  BY DEF IsScan
<1>4. CASE K = {}
  BY <1>3, <1>4 DEF ComesFirst
<1>5. CASE K # {}
  <2> DEFINE m0 == first[K]
             R == rest[K]
  <2>0. m0 = first[K]
    OBVIOUS
  <2>1. m0 \in K /\ R = {m \in K : ~Overlap(m, m0)}
    BY <1>5
  <2>2. f[K] = {m0} \cup f[R]
    BY <1>3, <1>5
  <2>3. R \subseteq K /\ R # K /\ R \in SUBSET S
    BY <2>1
  <2>4. Good(R)
    <3> HIDE DEF Good
    <3> QED
      BY <1>2, <2>3
  <2> HIDE DEF m0, R
  <2>5. f[R] \subseteq R /\ K \in SUBSET S
    BY <2>4
  <2>6. f[K] \subseteq K
    BY <2>1, <2>2, <2>3, <2>5
  <2>7. \A m \in K : \E n \in f[K] : Overlap(m, n)
    BY <2>1, <2>2, <2>4
  <2>8. \A n \in f[R] : ~Overlap(n, m0) /\ ~Overlap(m0, n)
    BY <2>1, <2>5
  <2>9. \A m, n \in f[K] : m # n => ~Overlap(m, n)
    BY <2>2, <2>4, <2>8
  <2>10. ComesFirst(m0, K, f[K], first)
    BY <2>0, <1>5 DEF ComesFirst
  <2>11. ASSUME NEW m \in f[R]
         PROVE  ComesFirst(m, K, f[K], first)
    <3>1. PICK U \in SUBSET R : /\ U # {} /\ m = first[U]
                               /\ \A n \in R \ U : \E p \in f[R] \ {m} : Overlap(n, p)
      BY <2>4 DEF ComesFirst
    <3>2. m # m0 /\ m0 \in f[K]
      BY <2>1, <2>2, <2>5
    <3>3. ASSUME NEW n \in K \ U
          PROVE  \E p \in f[K] \ {m} : Overlap(n, p)
      <4>1. CASE n \in R
        BY <2>2, <3>1, <4>1
      <4>2. CASE n \notin R
        <5>1. Overlap(n, m0)
          BY <2>1, <4>2
        <5> QED
          BY <3>2, <5>1
      <4> QED
        BY <4>1, <4>2
    <3> QED
      BY <2>3, <3>1, <3>3 DEF ComesFirst
  <2>12. \A m \in f[K] : ComesFirst(m, K, f[K], first)
    BY <2>2, <2>10, <2>11
  <2> QED
    BY <2>6, <2>7, <2>9, <2>12
<1> QED
  BY <1>4, <1>5

-----------------------------------------------------------------------------
(* What is possible: a name at its place in the message, of one profile or of all that share it. *)
IsNameAt(name, at, to, message) ==
    /\ at \in DOMAIN message /\ to \in at .. Len(message)
    /\ name = SubSeq(message, at, to)

IsMention(m, name, message, list) ==
    /\ m = [from |-> m.from, to |-> m.to, owners |-> m.owners, full |-> m.full]
    /\ IsNameAt(name, m.from, m.to, message)
    /\ \/ m.full = TRUE /\ \E i \in DOMAIN list : m.owners = {i} /\ name = WholeLabel(list[i])
       \/ m.full = FALSE /\ m.owners = AliasOwners(name, list) /\ m.owners # {}

(* A name that occurs ends within the message. *)
LEMMA NamesAreWords ==
    ASSUME NEW W, NEW message \in Seq(W), NEW name, NEW at \in DOMAIN message,
           OccursAt(name, message, at)
    PROVE  IsNameAt(name, at, at + Len(name) - 1, message)
<1>1. PICK to \in at .. Len(message) : name = SubSeq(message, at, to)
  BY DEF OccursAt
<1>2. at \in 1 .. Len(message) /\ Len(message) \in Nat
  OBVIOUS
<1>3. Len(name) = to - at + 1
  BY <1>1, <1>2
<1>4. at + Len(name) - 1 = to
  BY <1>1, <1>2, <1>3
<1> QED
  BY <1>1, <1>4 DEF IsNameAt

(* A possible mention has such a name. *)
LEMMA PossibleIsMention ==
    ASSUME NEW W, NEW message \in Seq(W), NEW list, NEW m \in PossibleMentions(message, list)
    PROVE  \E name : IsMention(m, name, message, list)
<1>1. ASSUME NEW i \in DOMAIN list, NEW at \in DOMAIN message,
             OccursAt(WholeLabel(list[i]), message, at),
             m = Mention(WholeLabel(list[i]), at, {i}, TRUE)
      PROVE  \E name : IsMention(m, name, message, list)
  <2> DEFINE name == WholeLabel(list[i])
  <2>1. IsNameAt(name, at, at + Len(name) - 1, message)
    BY <1>1, NamesAreWords
  <2>2. /\ m.from = at /\ m.to = at + Len(name) - 1 /\ m.owners = {i} /\ m.full = TRUE
        /\ m = [from |-> m.from, to |-> m.to, owners |-> m.owners, full |-> m.full]
    BY <1>1 DEF Mention
  <2> QED
    BY <2>1, <2>2 DEF IsMention
<1>2. ASSUME NEW i \in DOMAIN list, NEW name \in Aliases(list[i]),
             NEW at \in DOMAIN message, OccursAt(name, message, at),
             m = Mention(name, at, AliasOwners(name, list), FALSE)
      PROVE  IsMention(m, name, message, list)
  <2>1. IsNameAt(name, at, at + Len(name) - 1, message)
    BY <1>2, NamesAreWords
  <2>2. /\ m.from = at /\ m.to = at + Len(name) - 1
        /\ m.owners = AliasOwners(name, list) /\ m.full = FALSE /\ i \in AliasOwners(name, list)
        /\ m = [from |-> m.from, to |-> m.to, owners |-> m.owners, full |-> m.full]
    BY <1>2 DEF Mention, AliasOwners
  <2> QED
    BY <2>1, <2>2 DEF IsMention
<1> QED
  BY <1>1, <1>2 DEF PossibleMentions

(* Where a mention is and how long: positions in the message. *)
LEMMA MentionSpan ==
    ASSUME NEW W, NEW message \in Seq(W), NEW list, NEW m \in PossibleMentions(message, list)
    PROVE  /\ m.from \in 1 .. Len(message) /\ m.to \in 1 .. Len(message) /\ m.from <= m.to
           /\ Len(message) \in Nat /\ Size(m) \in 0 .. Len(message)
           /\ m.owners \subseteq DOMAIN list /\ m.full \in BOOLEAN
           /\ m = [from |-> m.from, to |-> m.to, owners |-> m.owners, full |-> m.full]
<1>1. PICK name : IsMention(m, name, message, list)
  BY PossibleIsMention
<1>2. m.from \in 1 .. Len(message) /\ m.to \in m.from .. Len(message) /\ Len(message) \in Nat
  BY <1>1 DEF IsMention, IsNameAt
<1>3. m.owners \subseteq DOMAIN list /\ m.full \in BOOLEAN
  BY <1>1 DEF IsMention, AliasOwners
<1>4. m = [from |-> m.from, to |-> m.to, owners |-> m.owners, full |-> m.full]
  BY <1>1 DEF IsMention
<1>5. m.from \in 1 .. Len(message) /\ m.to \in 1 .. Len(message) /\ m.from <= m.to
  BY <1>2
<1>6. Size(m) \in 0 .. Len(message)
  BY <1>2 DEF Size
<1> QED
  BY <1>2, <1>3, <1>4, <1>5, <1>6

(* There are finitely many. *)
LEMMA PossibleIsFinite ==
    ASSUME NEW W, NEW message \in Seq(W), NEW P, NEW list \in Seq(P)
    PROVE  IsFiniteSet(PossibleMentions(message, list))
<1> DEFINE places == 1 .. Len(message)
           all == (places \X places) \X ((SUBSET DOMAIN list) \X BOOLEAN)
           made == [x \in all |-> [from |-> x[1][1], to |-> x[1][2],
                                   owners |-> x[2][1], full |-> x[2][2]]]
<1>1. IsFiniteSet(all)
  <2>1. IsFiniteSet(places)
    BY FS_Interval
  <2>2. IsFiniteSet(DOMAIN list)
    <3>1. DOMAIN list = 1 .. Len(list) /\ Len(list) \in Nat
      OBVIOUS
    <3> QED
      BY <3>1, FS_Interval
  <2>3. IsFiniteSet(BOOLEAN)
    <3>1. IsFiniteSet({TRUE} \cup {FALSE})
      BY FS_Singleton, FS_Union
    <3>2. BOOLEAN = {TRUE} \cup {FALSE}
      OBVIOUS
    <3> QED
      BY <3>1, <3>2
  <2> HIDE DEF places
  <2>4. IsFiniteSet((SUBSET DOMAIN list) \X BOOLEAN)
    BY <2>2, <2>3, FS_SUBSET, FS_Product
  <2> QED
    BY <2>1, <2>4, FS_Product
<1>2. PossibleMentions(message, list) \subseteq {made[x] : x \in all}
  <2> SUFFICES ASSUME NEW m \in PossibleMentions(message, list)
               PROVE  \E x \in all : made[x] = m
    OBVIOUS
  <2> DEFINE x == <<<<m.from, m.to>>, <<m.owners, m.full>>>>
  <2>1. /\ m.from \in places /\ m.to \in places /\ m.owners \in SUBSET DOMAIN list
        /\ m.full \in BOOLEAN
        /\ m = [from |-> m.from, to |-> m.to, owners |-> m.owners, full |-> m.full]
    BY MentionSpan
  <2>2. x \in all
    BY <2>1
  <2>3. made[x] = m
    <3>1. made[x] = [from |-> x[1][1], to |-> x[1][2], owners |-> x[2][1], full |-> x[2][2]]
      <4> HIDE DEF x, all
      <4> QED
        BY <2>2
    <3>2. x[1][1] = m.from /\ x[1][2] = m.to /\ x[2][1] = m.owners /\ x[2][2] = m.full
      OBVIOUS
    <3> HIDE DEF x, made, all
    <3> QED
      BY <2>1, <3>1, <3>2
  <2> HIDE DEF x, made, all
  <2> QED
    BY <2>2, <2>3
<1> HIDE DEF all, made
<1>3. IsFiniteSet({made[x] : x \in all})
  BY <1>1, FiniteImage
<1> QED
  BY <1>2, <1>3, FS_Subset

(* At one place and of one length there is one name, and what it stands for. *)
LEMMA SameMention ==
    ASSUME NEW W, NEW message \in Seq(W), NEW list,
           NEW m \in PossibleMentions(message, list), NEW n \in PossibleMentions(message, list),
           m.from = n.from, Size(m) = Size(n), m.full = n.full, m.full => m.owners = n.owners
    PROVE  m = n
<1>1. m.to = n.to
  BY MentionSpan DEF Size
<1>2. PICK name : IsMention(m, name, message, list)
  BY PossibleIsMention
<1>3. PICK other : IsMention(n, other, message, list)
  BY PossibleIsMention
<1>4. name = other
  BY <1>1, <1>2, <1>3 DEF IsMention, IsNameAt
<1>5. m.owners = n.owners
  BY <1>2, <1>3, <1>4 DEF IsMention
<1> QED
  BY <1>1, <1>2, <1>3, <1>5 DEF IsMention

(* Of some mentions one is to be taken first. *)
LEMMA FirstIsTaken ==
    ASSUME NEW W, NEW message \in Seq(W), NEW P, NEW list \in Seq(P),
           NEW L \in SUBSET PossibleMentions(message, list), L # {}
    PROVE  /\ TakenFirst(L) \in L
           /\ \A n \in L \ {TakenFirst(L)} : TakenBefore(TakenFirst(L), n)
<1> DEFINE First(m) == \A n \in L \ {m} : TakenBefore(m, n)
<1> SUFFICES \E m \in L : First(m)
  BY DEF TakenFirst
<1>0. \A m \in L : /\ m \in PossibleMentions(message, list)
                   /\ m.from \in Nat /\ Size(m) \in Nat /\ Size(m) <= Len(message)
                   /\ m.full \in BOOLEAN /\ Len(message) \in Nat
  BY MentionSpan
<1>1. PICK full \in BOOLEAN :
         /\ \E m \in L : m.full = full
         /\ \A m \in L : m.full # full => full /\ ~m.full
  <2>1. CASE \E m \in L : m.full = TRUE
    BY <1>0, <2>1
  <2>2. CASE \A m \in L : m.full # TRUE
    <3>1. \A m \in L : m.full = FALSE
      BY <1>0, <2>2
    <3> QED
      BY <3>1
  <2> QED
    BY <2>1, <2>2
<1> DEFINE L1 == {m \in L : m.full = full}
           Shortfalls == {Len(message) - Size(m) : m \in L1}
<1>2. PICK z \in L1 : \A m \in L1 : Size(m) <= Size(z)
  <2>1. Shortfalls \subseteq Nat /\ Shortfalls # {}
    BY <1>0, <1>1
  <2>2. PICK d \in Shortfalls : \A e \in Shortfalls : d <= e
    <3> HIDE DEF Shortfalls
    <3> QED
      BY <2>1, LeastNatural
  <2>3. PICK z \in L1 : d = Len(message) - Size(z)
    OBVIOUS
  <2>4. ASSUME NEW m \in L1
        PROVE  Size(m) <= Size(z)
    <3>1. d <= Len(message) - Size(m)
      BY <2>2
    <3>2. Size(m) \in Nat /\ Size(z) \in Nat /\ Len(message) \in Nat
      BY <1>0
    <3> QED
      BY <2>3, <3>1, <3>2
  <2> QED
    BY <2>4
<1> DEFINE L2 == {m \in L1 : Size(m) = Size(z)}
           Starts == {m.from : m \in L2}
<1>3. PICK a \in L2 : \A m \in L2 : a.from <= m.from
  <2>1. Starts \subseteq Nat /\ Starts # {}
    BY <1>0, <1>2
  <2>2. PICK d \in Starts : \A e \in Starts : d <= e
    <3> HIDE DEF Starts
    <3> QED
      BY <2>1, LeastNatural
  <2> QED
    BY <2>2
<1> DEFINE L3 == {m \in L2 : m.from = a.from}
           Indexes == {i \in DOMAIN list : \E m \in L3 : m.owners = {i}}
<1>4. \A m \in L3 : m \in L /\ m.full = full /\ Size(m) = Size(z) /\ m.from = a.from
  OBVIOUS
<1>5. ASSUME NEW m \in L3, NEW n \in L, n \notin L3
      PROVE  TakenBefore(m, n)
  <2>1. CASE n \notin L1
    BY <1>1, <1>4, <2>1 DEF TakenBefore
  <2>2. CASE n \in L1 /\ n \notin L2
    <3>1. Size(n) < Size(z)
      BY <1>0, <1>2, <2>2
    <3> QED
      BY <1>4, <2>2, <3>1 DEF TakenBefore
  <2>3. CASE n \in L2
    <3>1. a.from < n.from
      BY <1>0, <1>3, <1>5, <2>3
    <3> QED
      BY <1>4, <2>3, <3>1 DEF TakenBefore
  <2> QED
    BY <2>1, <2>2, <2>3
<1> HIDE DEF L1, L2, L3
<1>6. a \in L3 /\ L3 \subseteq L
  BY DEF L1, L2, L3
<1>7. CASE full = FALSE
  <2>1. \A n \in L3 : n = a
    BY <1>0, <1>4, <1>6, <1>7, SameMention
  <2> QED
    BY <1>5, <1>6, <2>1
<1>8. CASE full = TRUE
  <2>1. \A m \in L3 : \E i \in Indexes : m.owners = {i}
    <3> SUFFICES ASSUME NEW m \in L3
                 PROVE  \E i \in DOMAIN list : m.owners = {i}
      OBVIOUS
    <3>1. PICK name : IsMention(m, name, message, list)
      BY <1>0, <1>6, PossibleIsMention
    <3> QED
      BY <1>4, <1>8, <3>1 DEF IsMention
  <2>2. Indexes \subseteq Nat /\ Indexes # {}
    BY <1>6, <2>1
  <2>3. PICK i \in Indexes : \A j \in Indexes : i <= j
    <3> HIDE DEF Indexes
    <3> QED
      BY <2>2, LeastNatural
  <2>4. PICK m \in L3 : m.owners = {i}
    OBVIOUS
  <2>5. ASSUME NEW n \in L3, n # m
        PROVE  TakenBefore(m, n)
    <3>1. PICK j \in Indexes : n.owners = {j}
      BY <2>1
    <3>2. j # i
      <4> SUFFICES ASSUME j = i PROVE n = m
        BY <2>5
      <4>1. m.from = n.from /\ Size(m) = Size(n) /\ m.full = n.full /\ m.owners = n.owners
        BY <1>4, <2>4, <3>1
      <4>2. /\ m \in PossibleMentions(message, list)
            /\ n \in PossibleMentions(message, list)
        BY <1>6
      <4> HIDE DEF Indexes, Shortfalls, Starts, First
      <4> QED
        BY <4>1, <4>2, SameMention
    <3>3. i < j
      BY <2>2, <2>3, <3>2
    <3> QED
      BY <1>4, <2>4, <3>1, <3>3 DEF TakenBefore
  <2> QED
    BY <1>5, <1>6, <2>5
<1> QED
  BY <1>7, <1>8

(* A mention has its place because it comes first of all but those that overlap with others. *)
HasItsPlace(m, possible, taken) ==
    \E K \in SUBSET possible : /\ \A n \in K \ {m} : TakenBefore(m, n)
                               /\ \A n \in possible \ K : \E p \in taken \ {m} : Overlap(n, p)

(* What a message mentions: some of what is possible, of which no two read the same word, and *)
(* nothing possible is left out but for a mention it overlaps with.                            *)
LEMMA MentionsTaken ==
    ASSUME NEW W, NEW message \in Seq(W), NEW P, NEW list \in Seq(P)
    PROVE  /\ Mentions(message, list) \subseteq PossibleMentions(message, list)
           /\ \A m \in PossibleMentions(message, list) :
                 \E n \in Mentions(message, list) : Overlap(m, n)
           /\ \A m, n \in Mentions(message, list) : m # n => ~Overlap(m, n)
           /\ \A m \in Mentions(message, list) :
                 HasItsPlace(m, PossibleMentions(message, list), Mentions(message, list))
<1> DEFINE S == PossibleMentions(message, list)
           first == [L \in SUBSET S |-> TakenFirst(L)]
           rest == [L \in SUBSET S |-> StillPossible(L)]
           Scans(f) == f = [L \in SUBSET S |-> IF L = {} THEN {} ELSE {TakenFirst(L)} \cup f[StillPossible(L)]]
<1>1. \A L \in SUBSET S : StillPossible(L) \in SUBSET S /\ StillPossible(L) = {m \in L : ~Overlap(m, TakenFirst(L))}
  BY DEF StillPossible
<1>2. \A f : IsScan(f, S, first, rest) <=> Scans(f)
  <2> SUFFICES ASSUME NEW f
               PROVE  [L \in SUBSET S |-> IF L = {} THEN {} ELSE {first[L]} \cup f[rest[L]]]
                      = [L \in SUBSET S |-> IF L = {} THEN {} ELSE {TakenFirst(L)} \cup f[StillPossible(L)]]
    BY DEF IsScan
  <2> HIDE DEF S
  <2> QED
    OBVIOUS
<1>3. (\A X \in SUBSET S : rest[X] \in SUBSET S) /\ rest[{}] = {}
  <2> HIDE DEF S
  <2> QED
    BY <1>1
<1>4. \E f : IsScan(f, S, first, rest)
  <2> HIDE DEF S, rest, first
  <2> QED
    BY <1>3, ScanExists
<1>5. Mentions(message, list) = (CHOOSE f : Scans(f))[S]
  BY DEF Mentions
<1>6. PICK f : IsScan(f, S, first, rest) /\ Mentions(message, list) = f[S]
  <2> HIDE DEF S, rest, first, Scans
  <2> QED
    BY <1>2, <1>4, <1>5
<1>7. (\A m \in S : Overlap(m, m)) /\ (\A m, n \in S : Overlap(m, n) => Overlap(n, m))
  <2>1. \A m \in S : m.from \in Nat /\ m.to \in Nat /\ m.from <= m.to
    BY MentionSpan
  <2> HIDE DEF S
  <2> QED
    BY <2>1 DEF Overlap
<1>8. \A L \in SUBSET S : L # {} => first[L] \in L /\ rest[L] = {m \in L : ~Overlap(m, first[L])}
  <2>1. \A L \in SUBSET S : L # {} => TakenFirst(L) \in L
    BY FirstIsTaken
  <2> HIDE DEF S
  <2> QED
    BY <1>1, <2>1
<1>9. IsFiniteSet(S)
  BY PossibleIsFinite
<1>10. S \in SUBSET S
  OBVIOUS
<1>11. ASSUME NEW K \in SUBSET S, K # {}
       PROVE  \A n \in K \ {first[K]} : TakenBefore(first[K], n)
  <2>1. \A n \in K \ {TakenFirst(K)} : TakenBefore(TakenFirst(K), n)
    BY <1>11, FirstIsTaken
  <2> HIDE DEF S
  <2> QED
    BY <2>1
<1> HIDE DEF S, first, rest
<1>12. /\ f[S] \subseteq S
       /\ \A m \in S : \E n \in f[S] : Overlap(m, n)
       /\ \A m, n \in f[S] : m # n => ~Overlap(m, n)
       /\ \A m \in f[S] : ComesFirst(m, S, f[S], first)
  BY <1>6, <1>7, <1>8, <1>9, <1>10, ScanTakes
<1>13. ASSUME NEW m \in f[S]
       PROVE  HasItsPlace(m, S, f[S])
  <2>1. ComesFirst(m, S, f[S], first)
    BY <1>12
  <2>2. PICK K \in SUBSET S : /\ K # {} /\ m = first[K]
                              /\ \A n \in S \ K : \E p \in f[S] \ {m} : Overlap(n, p)
    BY <2>1 DEF ComesFirst
  <2>3. \A n \in K \ {m} : TakenBefore(m, n)
    BY <1>11, <2>2
  <2> QED
    BY <2>2, <2>3 DEF HasItsPlace
<1>14. PossibleMentions(message, list) = S
  BY DEF S
<1>15. PICK taken : taken = f[S] /\ taken = Mentions(message, list)
  BY <1>6
<1> QED
  BY <1>12, <1>13, <1>14, <1>15

-----------------------------------------------------------------------------
(* Among finitely many that are told apart by a number, one has k - 1 before it. *)
LEMMA RanksAreTaken ==
    ASSUME NEW S, IsFiniteSet(S), NEW place, \A i \in S : place[i] \in Nat,
           \A i, j \in S : place[i] = place[j] => i = j,
           NEW k \in 1 .. Cardinality(S)
    PROVE  \E i \in S : Cardinality({j \in S : place[j] < place[i]}) = k - 1
<1> DEFINE Before(i) == {j \in S : place[j] < place[i]}
           n == Cardinality(S)
           T == 0 .. (n - 1)
           rank == [i \in S |-> Cardinality(Before(i))]
<1>1. n \in Nat /\ k \in 1 .. n
  BY FS_CardinalityType
<1>2. \A i \in S : IsFiniteSet(Before(i)) /\ Cardinality(Before(i)) \in T
  <2> SUFFICES ASSUME NEW i \in S PROVE IsFiniteSet(Before(i)) /\ Cardinality(Before(i)) \in T
    OBVIOUS
  <2>1. Before(i) \subseteq S /\ Before(i) # S
    OBVIOUS
  <2> HIDE DEF Before
  <2>2. /\ IsFiniteSet(Before(i)) /\ Cardinality(Before(i)) <= Cardinality(S)
        /\ Cardinality(Before(i)) # Cardinality(S)
    BY <2>1, FS_Subset
  <2>3. Cardinality(Before(i)) \in Nat
    BY <2>2, FS_CardinalityType
  <2> QED
    BY <1>1, <2>2, <2>3
<1>3. \A i, j \in S : place[i] < place[j] => Cardinality(Before(i)) < Cardinality(Before(j))
  <2> SUFFICES ASSUME NEW i \in S, NEW j \in S, place[i] < place[j]
               PROVE  Cardinality(Before(i)) < Cardinality(Before(j))
    OBVIOUS
  <2>1. Before(i) \subseteq Before(j) /\ Before(i) # Before(j)
    <3>1. i \in Before(j) /\ i \notin Before(i)
      OBVIOUS
    <3>2. Before(i) \subseteq Before(j)
      OBVIOUS
    <3> QED
      BY <3>1, <3>2
  <2> HIDE DEF Before
  <2>2. /\ Cardinality(Before(i)) <= Cardinality(Before(j))
        /\ Cardinality(Before(i)) # Cardinality(Before(j))
    BY <1>2, <2>1, FS_Subset
  <2>3. Cardinality(Before(i)) \in Nat /\ Cardinality(Before(j)) \in Nat
    BY <1>2, FS_CardinalityType
  <2> QED
    BY <2>2, <2>3
<1>4. rank \in Injection(S, T)
  <2>1. rank \in [S -> T]
    <3> HIDE DEF Before, T
    <3> QED
      BY <1>2
  <2>2. \A i, j \in S : rank[i] = rank[j] => i = j
    <3> SUFFICES ASSUME NEW i \in S, NEW j \in S, Cardinality(Before(i)) = Cardinality(Before(j))
                 PROVE  i = j
      BY DEF rank
    <3>1. ~(place[i] < place[j]) /\ ~(place[j] < place[i])
      <4>1. Cardinality(Before(i)) \in Nat /\ Cardinality(Before(j)) \in Nat
        BY <1>2, FS_CardinalityType
      <4> HIDE DEF Before
      <4> QED
        BY <1>3, <4>1
    <3> QED
      BY <3>1
  <2> HIDE DEF rank, T
  <2> QED
    BY <2>1, <2>2 DEF Injection, IsInjective
<1>5. IsFiniteSet(T) /\ Cardinality(T) = n
  <2>1. 0 \in Int /\ n - 1 \in Int
    BY <1>1
  <2>2. IsFiniteSet(T) /\ Cardinality(T) = IF 0 > n - 1 THEN 0 ELSE n - 1 - 0 + 1
    BY <2>1, FS_Interval
  <2> QED
    BY <1>1, <2>2
<1>6. rank \in Surjection(S, T)
  <2> HIDE DEF rank, T
  <2> QED
    BY <1>4, <1>5, FS_Injection
<1>7. PICK i \in S : rank[i] = k - 1
  <2>1. k - 1 \in T
    BY <1>1
  <2> HIDE DEF rank, T
  <2> QED
    BY <1>6, <2>1 DEF Surjection
<1> QED
  BY <1>7

(* Where a profile is mentioned alone. *)
LEMMA InPlaces ==
    ASSUME NEW mentions, NEW i
    PROVE  /\ \A m \in mentions : m.owners = {i} => m.from \in Places(i, mentions)
           /\ \A x \in Places(i, mentions) : \E m \in mentions : m.owners = {i} /\ m.from = x
BY DEF Places

(* In the order in which they are named: nobody but the profiles that are asked for. *)
LEMMA InOrderNames ==
    ASSUME NEW list, NEW mentions, NEW owners, IsFiniteSet(owners),
           \A m \in mentions : m.from \in Nat,
           \A m, n \in mentions : m.from = n.from => m = n,
           \A i \in owners : \E m \in mentions : m.owners = {i},
           NEW account \in ToSet(InOrder(owners, mentions, list))
    PROVE  \E i \in owners : account = list[i].account
<1> DEFINE earlier(i) == {j \in owners : \E at \in Places(j, mentions) : \A from \in Places(i, mentions) : at < from}
           nth(k) == CHOOSE i \in owners : Cardinality(earlier(i)) = k - 1
           place == [i \in owners |-> CHOOSE p \in Places(i, mentions) : \A q \in Places(i, mentions) : p <= q]
<1>1. ASSUME NEW i \in owners
      PROVE  /\ Places(i, mentions) \subseteq Nat /\ place[i] \in Places(i, mentions) /\ place[i] \in Nat
             /\ \A q \in Places(i, mentions) : place[i] <= q
  <2>2. PICK m \in mentions : m.owners = {i}
    OBVIOUS
  <2>3. Places(i, mentions) # {}
    BY <2>2, InPlaces
  <2>4. Places(i, mentions) \subseteq Nat
    BY InPlaces
  <2>5. \E p \in Places(i, mentions) : \A q \in Places(i, mentions) : p <= q
    BY <2>3, <2>4, LeastNatural
  <2> QED
    BY <2>3, <2>4, <2>5
<1>2. ASSUME NEW i \in owners, NEW j \in owners, place[i] = place[j]
      PROVE  i = j
  <2>0. PICK p \in Places(i, mentions), q \in Places(j, mentions) : p = place[i] /\ q = place[j]
    BY <1>1
  <2>1. PICK m \in mentions : m.owners = {i} /\ m.from = p
    BY InPlaces
  <2>2. PICK n \in mentions : n.owners = {j} /\ n.from = q
    BY InPlaces
  <2>3. m = n
    BY <1>2, <2>0, <2>1, <2>2
  <2> QED
    BY <2>1, <2>2, <2>3
<1>3. ASSUME NEW i \in owners
      PROVE  earlier(i) = {j \in owners : place[j] < place[i]}
  <2> SUFFICES ASSUME NEW j \in owners
               PROVE  (\E at \in Places(j, mentions) : \A from \in Places(i, mentions) : at < from) <=> place[j] < place[i]
    OBVIOUS
  <2>1. /\ Places(i, mentions) \subseteq Nat /\ place[i] \in Places(i, mentions) /\ \A q \in Places(i, mentions) : place[i] <= q
        /\ Places(j, mentions) \subseteq Nat /\ place[j] \in Places(j, mentions) /\ \A q \in Places(j, mentions) : place[j] <= q
    BY <1>1
  <2> HIDE DEF place
  <2> QED
    BY <2>1
<1>5. InOrder(owners, mentions, list) = [k \in 1 .. Cardinality(owners) |-> list[nth(k)].account]
  BY DEF InOrder
<1> HIDE DEF nth
<1>6. PICK k \in 1 .. Cardinality(owners) : account = list[nth(k)].account
  BY <1>5 DEF ToSet
<1>7. nth(k) \in owners
  <2>1. \E i \in owners : Cardinality({j \in owners : place[j] < place[i]}) = k - 1
    <3>1. /\ \A i \in owners : place[i] \in Nat
          /\ \A i, j \in owners : place[i] = place[j] => i = j
      BY <1>1, <1>2
    <3> HIDE DEF place, earlier
    <3> QED
      BY <3>1, RanksAreTaken
  <2>2. \E i \in owners : Cardinality(earlier(i)) = k - 1
    <3> HIDE DEF place, earlier
    <3> QED
      BY <1>3, <2>1
  <2> HIDE DEF earlier
  <2> QED
    BY <2>2 DEF nth
<1> QED
  BY <1>6, <1>7

(* There are finitely many profiles. *)
LEMMA ProfilesAreFinite ==
    ASSUME NEW P, NEW list \in Seq(P)
    PROVE  IsFiniteSet(DOMAIN list)
<1>1. DOMAIN list = 1 .. Len(list) /\ Len(list) \in Int
  OBVIOUS
<1> QED
  BY <1>1, FS_Interval

IsWeighed(result, named, excluded, list, wanted) ==
    /\ ToSet(result.matched) \cap result.excluded = {}
    /\ result.excluded = {list[i].account : i \in excluded}
    /\ \A account \in ToSet(result.matched) : \E i \in DOMAIN list : account = list[i].account
    /\ result.status = "matched" =>
          /\ \A i \in DOMAIN list :
                list[i].account \in ToSet(result.matched) => \E m \in named : m.owners = {i}
          /\ \A m \in named : Cardinality(m.owners) > 1 => m.owners \subseteq excluded
    /\ result.status # "matched" /\ ToSet(result.matched) # {} =>
          wanted /\ \E i \in DOMAIN list : /\ ToSet(result.matched) = {list[i].account}
                                          /\ (DOMAIN list) \ excluded = {i}

LEMMA OneIsInIt ==
    ASSUME NEW x PROVE ToSet(<<x>>) = {x}
BY DEF ToSet

(* What the mentions that name come to: no account that is excluded; and if the matter is      *)
(* settled, only profiles that a mention stands for alone, and no mention stands for several   *)
(* unless they are excluded; or, if one is wanted, the only profile that is not excluded.      *)
LEMMA WeighAuthorizes ==
    ASSUME NEW list, IsFiniteSet(DOMAIN list),
           \A i, j \in DOMAIN list : list[i].account = list[j].account => i = j,
           NEW excluded \in SUBSET DOMAIN list, NEW wanted,
           NEW named, \A m \in named : m.from \in Nat /\ m.owners \subseteq DOMAIN list,
           \A m, n \in named : m.from = n.from => m = n,
           NEW result, result = Weigh(named, excluded, list, wanted)
    PROVE  IsWeighed(result, named, excluded, list, wanted)
<1> DEFINE selected == Owners({m \in named : Cardinality(m.owners) = 1}) \ excluded
           shared == Owners({m \in named : Cardinality(m.owners) > 1}) \ excluded
           remaining == (DOMAIN list) \ excluded
           accounts(owners) == {list[i].account : i \in owners}
           found == [Resolution EXCEPT !.excluded = accounts(excluded), !.request = TRUE]
           unclear(owners) == [found EXCEPT !.status = "clarification_required",
                                            !.ambiguous = accounts(owners)]
           verdict == Judge(selected, shared)
           sole == CHOOSE i \in remaining : TRUE
<1>1. result =
         CASE verdict = "ambiguous" -> [unclear(selected \cup shared) EXCEPT !.explicit = TRUE]
           [] verdict = "matched" ->
                 [found EXCEPT !.status = "matched", !.explicit = TRUE,
                               !.matched = InOrder(selected, named, list)]
           [] verdict = "unnamed" /\ ~wanted ->
                 [found EXCEPT !.status = "not_account_request", !.request = FALSE]
           [] verdict = "unnamed" /\ wanted /\ Cardinality(remaining) = 1 ->
                 [found EXCEPT !.status = "sole_profile", !.matched = <<list[sole].account>>]
           [] OTHER -> unclear(remaining)
  BY DEF Weigh
<1>2. \/ verdict = "ambiguous"
      \/ verdict = "matched" /\ shared = {}
      \/ verdict = "unnamed"
  BY DEF Judge
<1> DEFINE fields == {"status", "matched", "excluded", "ambiguous", "explicit", "request"}
<1>3. /\ DOMAIN found = fields /\ found.matched = <<>> /\ found.excluded = accounts(excluded)
      /\ \A owners : /\ DOMAIN unclear(owners) = fields /\ unclear(owners).matched = <<>>
                     /\ unclear(owners).excluded = accounts(excluded)
                     /\ unclear(owners).status = "clarification_required"
  <2> HIDE DEF accounts
  <2>1. DOMAIN found = fields /\ found.matched = <<>> /\ found.excluded = accounts(excluded)
    BY DEF Resolution
  <2> HIDE DEF found
  <2> QED
    BY <2>1
<1>4. /\ accounts(excluded) = {list[i].account : i \in excluded}
      /\ \A i \in DOMAIN list : list[i].account \in accounts(excluded) => i \in excluded
  OBVIOUS
<1>5. \A i \in selected : i \in DOMAIN list /\ i \notin excluded /\ \E m \in named : m.owners = {i}
  <2> SUFFICES ASSUME NEW i \in selected
               PROVE  i \in DOMAIN list /\ i \notin excluded /\ \E m \in named : m.owners = {i}
    OBVIOUS
  <2>1. PICK m \in named : Cardinality(m.owners) = 1 /\ i \in m.owners
    BY DEF Owners
  <2>2. IsFiniteSet(m.owners)
    BY FS_Subset
  <2>3. PICK x : m.owners = {x}
    BY <2>1, <2>2, FS_Singleton
  <2> QED
    BY <2>1, <2>3
<1>6. \A m \in named : Cardinality(m.owners) > 1 => m.owners \subseteq shared \cup excluded
  BY DEF Owners
<1>7. IsFiniteSet(selected)
  <2>1. selected \subseteq DOMAIN list
    BY <1>5
  <2> HIDE DEF selected
  <2> QED
    BY <2>1, FS_Subset
<1>8. \A account \in ToSet(InOrder(selected, named, list)) : \E i \in selected : account = list[i].account
  <2> HIDE DEF selected
  <2> QED
    BY <1>5, <1>7, InOrderNames
<1>9. Cardinality(remaining) = 1 => remaining = {sole}
  <2>1. IsFiniteSet(remaining)
    BY FS_Difference
  <2> HIDE DEF remaining
  <2>2. Cardinality(remaining) = 1 => \E i : remaining = {i}
    BY <2>1, FS_Singleton
  <2> QED
    BY <2>2
<1> HIDE DEF selected, shared, remaining, accounts, found, unclear, verdict, sole, fields
<1>10. \/ result.matched = <<>> /\ result.status # "matched" /\ result.excluded = accounts(excluded)
       \/ /\ result.status = "matched" /\ shared = {} /\ result.excluded = accounts(excluded)
          /\ result.matched = InOrder(selected, named, list)
       \/ /\ result.status = "sole_profile" /\ result.excluded = accounts(excluded) /\ wanted
          /\ result.matched = <<list[sole].account>> /\ remaining = {sole}
  <2>1. CASE verdict = "ambiguous"
    <3>1. result = [unclear(selected \cup shared) EXCEPT !.explicit = TRUE]
      BY <1>1, <2>1
    <3> QED
      BY <1>3, <3>1 DEF fields
  <2>2. CASE verdict = "matched" /\ shared = {}
    <3>1. result = [found EXCEPT !.status = "matched", !.explicit = TRUE,
                                 !.matched = InOrder(selected, named, list)]
      BY <1>1, <2>2
    <3> QED
      BY <1>3, <2>2, <3>1 DEF fields
  <2>3. CASE verdict = "unnamed" /\ ~wanted
    <3>1. result = [found EXCEPT !.status = "not_account_request", !.request = FALSE]
      BY <1>1, <2>3
    <3> QED
      BY <1>3, <3>1 DEF fields
  <2>4. CASE verdict = "unnamed" /\ wanted /\ Cardinality(remaining) = 1
    <3>1. result = [found EXCEPT !.status = "sole_profile", !.matched = <<list[sole].account>>]
      BY <1>1, <2>4
    <3> QED
      BY <1>3, <1>9, <2>4, <3>1 DEF fields
  <2>5. CASE verdict = "unnamed" /\ wanted /\ Cardinality(remaining) # 1
    <3>1. result = unclear(remaining)
      BY <1>1, <2>5
    <3> QED
      BY <1>3, <3>1 DEF fields
  <2> QED
    BY <1>2, <2>1, <2>2, <2>3, <2>4, <2>5
<1>11. CASE result.matched = <<>> /\ result.status # "matched" /\ result.excluded = accounts(excluded)
  BY <1>4, <1>11 DEF ToSet, IsWeighed
<1>12. CASE /\ result.status = "matched" /\ shared = {} /\ result.excluded = accounts(excluded)
            /\ result.matched = InOrder(selected, named, list)
  <2>1. \A account \in ToSet(result.matched) : account \notin result.excluded
    BY <1>4, <1>5, <1>8, <1>12
  <2>2. ASSUME NEW i \in DOMAIN list, list[i].account \in ToSet(result.matched)
        PROVE  \E m \in named : m.owners = {i}
    <3>1. PICK j \in selected : list[i].account = list[j].account
      BY <1>8, <1>12, <2>2
    <3>2. i = j
      BY <1>5, <3>1
    <3> QED
      BY <1>5, <3>2
  <2>3. \A m \in named : Cardinality(m.owners) > 1 => m.owners \subseteq excluded
    BY <1>6, <1>12
  <2>4. \A account \in ToSet(result.matched) : \E i \in DOMAIN list : account = list[i].account
    BY <1>5, <1>8, <1>12
  <2> QED
    BY <1>4, <1>12, <2>1, <2>2, <2>3, <2>4 DEF IsWeighed
<1>13. CASE /\ result.status = "sole_profile" /\ result.excluded = accounts(excluded) /\ wanted
            /\ result.matched = <<list[sole].account>> /\ remaining = {sole}
  <2>1. ToSet(result.matched) = {list[sole].account}
    BY <1>13, OneIsInIt
  <2>2. (DOMAIN list) \ excluded = {sole}
    BY <1>13 DEF remaining
  <2>3. sole \in DOMAIN list /\ sole \notin excluded
    BY <2>2
  <2>4. ToSet(result.matched) \cap result.excluded = {}
    BY <1>4, <1>13, <2>1, <2>3
  <2>5. wanted /\ \E i \in DOMAIN list : /\ ToSet(result.matched) = {list[i].account}
                                        /\ (DOMAIN list) \ excluded = {i}
    BY <1>13, <2>1, <2>2, <2>3
  <2>6. \A account \in ToSet(result.matched) : \E i \in DOMAIN list : account = list[i].account
    BY <2>1, <2>3
  <2>7. result.status # "matched"
    BY <1>13
  <2>8. result.excluded = {list[i].account : i \in excluded}
    BY <1>4, <1>13
  <2> QED
    BY <2>4, <2>5, <2>6, <2>7, <2>8 DEF IsWeighed
<1> QED
  BY <1>10, <1>11, <1>12, <1>13

(* The name that a mention takes its place with. *)
LEMMA NameOfMention ==
    ASSUME NEW W, NEW message \in Seq(W), NEW list, NEW m, NEW name,
           IsMention(m, name, message, list)
    PROVE  /\ m.from \in DOMAIN message /\ OccursAt(name, message, m.from)
           /\ Len(name) = m.to - m.from + 1
           /\ m.from \in Nat /\ m.to \in Nat /\ m.from <= m.to
           /\ \E j \in DOMAIN list : j \in m.owners
           /\ \A j \in m.owners : j \in DOMAIN list /\ name \in Names(list[j])
<1>1. /\ m.from \in DOMAIN message /\ m.to \in m.from .. Len(message)
      /\ name = SubSeq(message, m.from, m.to)
  BY DEF IsMention, IsNameAt
<1>2. /\ m.from \in Nat /\ m.to \in Nat /\ m.from <= m.to /\ Len(name) = m.to - m.from + 1
  BY <1>1
<1>3. OccursAt(name, message, m.from)
  BY <1>1 DEF OccursAt
<1>4. /\ \E j \in DOMAIN list : j \in m.owners
      /\ \A j \in m.owners : j \in DOMAIN list /\ name \in Names(list[j])
  BY DEF IsMention, AliasOwners, Names
<1> QED
  BY <1>1, <1>2, <1>3, <1>4

(* Wherever a word or a component of a label stands, it may be meant. *)
LEMMA AliasesArePossible ==
    ASSUME NEW message, NEW list, NEW i \in DOMAIN list, NEW alias \in Aliases(list[i]),
           NEW at \in DOMAIN message, OccursAt(alias, message, at)
    PROVE  Mention(alias, at, AliasOwners(alias, list), FALSE) \in PossibleMentions(message, list)
<1> DEFINE aliases == UNION {Aliases(list[j]) : j \in DOMAIN list}
           found(name, owners, full) ==
               {Mention(name, from, owners, full) : from \in {from \in DOMAIN message : OccursAt(name, message, from)}}
           all == {found(name, AliasOwners(name, list), FALSE) : name \in aliases}
<1>1. alias \in aliases
  OBVIOUS
<1>2. Mention(alias, at, AliasOwners(alias, list), FALSE) \in found(alias, AliasOwners(alias, list), FALSE)
  OBVIOUS
<1>3. UNION all \subseteq PossibleMentions(message, list)
  BY DEF PossibleMentions
<1>4. found(alias, AliasOwners(alias, list), FALSE) \in all
  BY <1>1
<1> HIDE DEF found, all
<1> QED
  BY <1>2, <1>3, <1>4

(* And so is a label wherever it stands. *)
LEMMA LabelsArePossible ==
    ASSUME NEW message, NEW list, NEW i \in DOMAIN list,
           NEW at \in DOMAIN message, OccursAt(WholeLabel(list[i]), message, at)
    PROVE  Mention(WholeLabel(list[i]), at, {i}, TRUE) \in PossibleMentions(message, list)
<1> DEFINE found(name, owners, full) ==
               {Mention(name, from, owners, full) : from \in {from \in DOMAIN message : OccursAt(name, message, from)}}
           all == {found(WholeLabel(list[j]), {j}, TRUE) : j \in DOMAIN list}
<1>1. Mention(WholeLabel(list[i]), at, {i}, TRUE) \in found(WholeLabel(list[i]), {i}, TRUE)
  OBVIOUS
<1>2. UNION all \subseteq PossibleMentions(message, list)
  BY DEF PossibleMentions
<1>3. found(WholeLabel(list[i]), {i}, TRUE) \in all
  OBVIOUS
<1> HIDE DEF found, all
<1> QED
  BY <1>1, <1>2, <1>3

(* A mention that is taken as a label stands for the first profile with that label. *)
LEMMA FirstOfItsLabel ==
    ASSUME NEW W, NEW message \in Seq(W), NEW P, NEW list \in Seq(P),
           NEW m \in Mentions(message, list), NEW name, IsMention(m, name, message, list),
           m.full = TRUE, NEW i \in DOMAIN list, m.owners = {i}, NEW j \in 1 .. (i - 1)
    PROVE  name # WholeLabel(list[j])
<1> SUFFICES ASSUME name = WholeLabel(list[j]) PROVE FALSE
  OBVIOUS
<1> DEFINE n == Mention(name, m.from, {j}, TRUE)
<1>1. i \in 1 .. Len(list) /\ j \in DOMAIN list /\ j < i /\ DOMAIN list \subseteq Int
  OBVIOUS
<1>2. /\ m.from \in DOMAIN message /\ OccursAt(name, message, m.from)
      /\ Len(name) = m.to - m.from + 1
      /\ m.from \in Nat /\ m.to \in Nat /\ m.from <= m.to
  BY NameOfMention
<1>3. n \in PossibleMentions(message, list)
  BY <1>1, <1>2, LabelsArePossible
<1>4. n.from = m.from /\ n.to = m.to /\ n.owners = {j} /\ n.full = TRUE
  BY <1>2 DEF Mention
<1>5. HasItsPlace(m, PossibleMentions(message, list), Mentions(message, list))
  BY MentionsTaken
<1> HIDE DEF n
<1>6. PICK K \in SUBSET PossibleMentions(message, list) :
         /\ \A k \in K \ {m} : TakenBefore(m, k)
         /\ \A k \in PossibleMentions(message, list) \ K :
               \E p \in Mentions(message, list) \ {m} : Overlap(k, p)
  BY <1>5 DEF HasItsPlace
<1>7. n # m
  <2>1. n.owners # m.owners
    <3>1. j # i
      BY <1>1
    <3> QED
      BY <1>4, <3>1
  <2> QED
    BY <2>1
<1>8. CASE n \in K
  <2>1. TakenBefore(m, n)
    BY <1>6, <1>7, <1>8
  <2> QED
    BY <1>1, <1>2, <1>4, <2>1 DEF TakenBefore, Size
<1>9. CASE n \notin K
  <2>1. PICK p \in Mentions(message, list) \ {m} : Overlap(n, p)
    BY <1>3, <1>6, <1>9
  <2>2. Overlap(m, p)
    BY <1>4, <2>1 DEF Overlap
  <2> QED
    BY <2>1, <2>2, MentionsTaken
<1> QED
  BY <1>8, <1>9

(* Where a word stands that several profiles have in common, and no longer name takes it in,   *)
(* it is mentioned for all of them.                                                            *)
LEMMA SharedWordIsMentioned ==
    ASSUME NEW W, NEW message \in Seq(W), NEW P, NEW list \in Seq(P), NEW at \in DOMAIN message,
           IsShared(<<message[at]>>, list), LongNamesOver(message, list, at) = {}
    PROVE  \E m \in Mentions(message, list) :
              m.from = at /\ m.owners = AliasOwners(<<message[at]>>, list)
<1> DEFINE word == <<message[at]>>
           owners == AliasOwners(word, list)
           m == Mention(word, at, owners, FALSE)
<1>1. at \in 1 .. Len(message) /\ Len(message) \in Nat /\ at \in Nat
  OBVIOUS
<1>2. word = SubSeq(message, at, at) /\ Len(word) = 1
  BY <1>1
<1>3. OccursAt(word, message, at)
  BY <1>1, <1>2 DEF OccursAt
<1>4. PICK i \in DOMAIN list : i \in owners
  <2>1. Cardinality(owners) > 1 /\ Cardinality({}) = 0
    BY FS_EmptySet DEF IsShared
  <2>2. owners \subseteq DOMAIN list
    BY DEF AliasOwners
  <2> HIDE DEF owners
  <2>3. owners # {}
    <3> SUFFICES ASSUME owners = {} PROVE FALSE
      OBVIOUS
    <3>1. Cardinality(owners) = 0
      BY <2>1
    <3> QED
      BY <2>1, <3>1
  <2> QED
    BY <2>2, <2>3
<1> HIDE DEF word
<1>5. m \in PossibleMentions(message, list)
  <2>1. word \in Aliases(list[i])
    BY <1>4 DEF AliasOwners
  <2> QED
    BY <1>3, <2>1, AliasesArePossible
<1>6. m.from = at /\ m.to = at
  BY <1>1, <1>2 DEF Mention
<1> HIDE DEF m
<1>7. PICK n \in Mentions(message, list) : Overlap(m, n)
  BY <1>5, MentionsTaken
<1>8. PICK name : IsMention(n, name, message, list)
  BY MentionsTaken, PossibleIsMention
<1>9. /\ n.from \in DOMAIN message /\ OccursAt(name, message, n.from)
      /\ Len(name) = n.to - n.from + 1
      /\ n.from \in Nat /\ n.to \in Nat /\ n.from <= n.to
      /\ \E j \in DOMAIN list : name \in Names(list[j])
  BY <1>8, NameOfMention
<1>10. n.from <= at /\ at <= n.to
  BY <1>6, <1>7 DEF Overlap
<1>11. n.from = at /\ n.to = at
  <2>0. CASE n.from = n.to
    BY <1>1, <1>9, <1>10, <2>0
  <2> SUFFICES ASSUME n.from # n.to PROVE FALSE
    BY <2>0
  <2>1. Len(name) > 1 /\ at < n.from + Len(name) /\ n.from \in 1 .. at
    BY <1>1, <1>9, <1>10
  <2>2. name \in NamesAt(message, list, n.from)
    BY <1>9 DEF NamesAt
  <2>3. name \in LongNamesOver(message, list, at)
    BY <1>9, <2>1, <2>2 DEF LongNamesOver
  <2> QED
    BY <2>3
<1>12. name = word
  BY <1>2, <1>8, <1>11 DEF IsMention, IsNameAt
<1>13. n.owners = owners
  BY <1>8, <1>12 DEF IsMention, IsShared, word
<1> QED
  BY <1>11, <1>13 DEF word

(* Whatever is said to whichever profiles. *)
LEMMA ResolveAuthorizes ==
    ASSUME NEW W, NEW message \in Seq(W), NEW P, NEW list \in Seq(P),
           \A i, j \in DOMAIN list : list[i].account = list[j].account => i = j,
           NEW required
    PROVE  ResolutionIsAuthorized(message, list, required)
<1> DEFINE mentions == Mentions(message, list)
           left == {m \in mentions : IsExcluded(message, m)}
           named == mentions \ left
           excluded == Owners(left)
           wanted == required = "unknown" => IsAccountRequest(message)
           result == Resolve(message, list, required)
           chosen == {i \in DOMAIN list : list[i].account \in ToSet(result.matched)}
           out == {i \in DOMAIN list : list[i].account \in result.excluded}
<1>1. CASE message \in CancelMessages \/ list = <<>>
  <2>1. result.matched = <<>> /\ result.excluded = {} /\ result.status # "matched"
    BY <1>1 DEF Resolve, Resolution
  <2> HIDE DEF result
  <2>2. ToSet(result.matched) = {}
    BY <2>1 DEF ToSet
  <2>3. chosen = {} /\ out = {}
    BY <2>1, <2>2
  <2> QED
    BY <2>1, <2>2, <2>3 DEF ResolutionIsAuthorized, result
<1>2. CASE message \notin CancelMessages /\ list # <<>>
  <2>1. result = Weigh(named, excluded, list, wanted)
    BY <1>2 DEF Resolve
  <2>2. /\ \A m \in mentions : m.from \in Nat /\ m.to \in Nat /\ m.from <= m.to
        /\ \A m \in mentions : m.owners \subseteq DOMAIN list
        /\ \A m \in mentions : m \in PossibleMentions(message, list)
    BY MentionsTaken, MentionSpan
  <2>3. \A m, n \in mentions : m.from = n.from => m = n
    <3>1. \A m, n \in mentions : m # n => ~Overlap(m, n)
      BY MentionsTaken
    <3> HIDE DEF mentions
    <3> QED
      BY <2>2, <3>1 DEF Overlap
  <2>4. excluded \in SUBSET DOMAIN list
    <3> HIDE DEF mentions
    <3> QED
      BY <2>2 DEF Owners
  <2>5. /\ \A m \in named : m.from \in Nat /\ m.owners \subseteq DOMAIN list
        /\ \A m, n \in named : m.from = n.from => m = n
    <3> HIDE DEF mentions
    <3> QED
      BY <2>2, <2>3
  <2>6. wanted \in BOOLEAN
    OBVIOUS
  <2>7. PICK asked \in BOOLEAN : asked = wanted
    BY <2>6
  <2>8. IsWeighed(result, named, excluded, list, asked)
    <3>1. result = Weigh(named, excluded, list, asked)
      BY <2>1, <2>7
    <3> HIDE DEF named, excluded, wanted, result, mentions
    <3> QED
      BY <2>4, <2>5, <3>1, ProfilesAreFinite, WeighAuthorizes
  <2>9. \A m \in mentions : /\ (m \in named <=> ~InExclusion(message, m.from))
                            /\ (m \in left <=> InExclusion(message, m.from))
    <3> HIDE DEF mentions
    <3> QED
      BY DEF IsExcluded, InExclusion
  <2>10. named \subseteq mentions /\ left \subseteq mentions
    OBVIOUS
  <2> HIDE DEF named, wanted, result
  <2>11. out = excluded
    <3>1. result.excluded = {list[i].account : i \in excluded}
      BY <2>8 DEF IsWeighed
    <3> HIDE DEF excluded
    <3> QED
      BY <2>4, <3>1
  <2>12. /\ ToSet(result.matched) = {list[i].account : i \in chosen}
         /\ chosen \cap out = {}
    BY <2>8 DEF IsWeighed
  <2>13. ASSUME NEW i \in out
         PROVE  IsNamedAsExcluded(i, message, list)
    <3> HIDE DEF left, mentions, out
    <3>1. PICK m \in left : i \in m.owners
      BY <2>11, <2>13 DEF Owners
    <3>2. PICK name : IsMention(m, name, message, list)
      BY <2>2, <2>10, PossibleIsMention
    <3>3. /\ m.from \in DOMAIN message /\ OccursAt(name, message, m.from)
          /\ name \in Names(list[i])
      BY <3>1, <3>2, NameOfMention
    <3>4. InExclusion(message, m.from)
      <4>1. m \in mentions
        BY <2>10
      <4> QED
        BY <2>9, <4>1
    <3> QED
      BY <3>3, <3>4 DEF IsNamedAsExcluded
  <2> HIDE DEF left, excluded
  <2>14. ASSUME result.status = "matched", NEW i \in chosen
         PROVE  IsNamedFreely(i, message, list)
    <3>1. PICK m \in named : m.owners = {i}
      BY <2>8, <2>14 DEF IsWeighed
    <3>2. PICK name : IsMention(m, name, message, list)
      BY <2>2, <2>10, PossibleIsMention
    <3>3. /\ m.from \in DOMAIN message /\ OccursAt(name, message, m.from)
          /\ name \in Names(list[i])
      BY <3>1, <3>2, NameOfMention
    <3>4. IsNamedBy(i, name, list)
      <4>1. CASE m.full = TRUE
        <5>1. name = WholeLabel(list[i]) \/ AliasOwners(name, list) = {i}
          BY <3>1, <3>2 DEF IsMention
        <5>2. m \in Mentions(message, list) /\ i \in DOMAIN list
          BY <2>10
        <5>3. \A j \in 1 .. (i - 1) : name # WholeLabel(list[j])
          BY <3>1, <3>2, <4>1, <5>2, FirstOfItsLabel
        <5> QED
          BY <5>1, <5>3 DEF IsNamedBy
      <4>2. CASE m.full # TRUE
        BY <3>1, <3>2, <4>2 DEF IsMention, IsNamedBy
      <4> QED
        BY <4>1, <4>2
    <3>5. ~InExclusion(message, m.from)
      BY <2>9, <2>10
    <3> QED
      BY <3>3, <3>4, <3>5 DEF IsNamedFreely
  <2>15. ASSUME result.status = "matched", NEW at \in DOMAIN message, IsShared(<<message[at]>>, list),
                ~InExclusion(message, at), LongNamesOver(message, list, at) = {}
         PROVE  AliasOwners(<<message[at]>>, list) \subseteq out
    <3>1. PICK m \in Mentions(message, list) : m.from = at /\ m.owners = AliasOwners(<<message[at]>>, list)
      <4>1. IsShared(<<message[at]>>, list) /\ LongNamesOver(message, list, at) = {}
        BY <2>15
      <4> HIDE DEF mentions, out, chosen
      <4> QED
        BY <4>1, SharedWordIsMentioned
    <3>2. m \in named /\ Cardinality(m.owners) > 1
      BY <2>9, <2>15, <3>1 DEF IsShared
    <3>3. m.owners \subseteq excluded
      BY <2>8, <2>15, <3>2 DEF IsWeighed
    <3> QED
      BY <2>11, <3>1, <3>3
  <2>16. ASSUME result.status # "matched", chosen # {}
         PROVE  /\ required = "unknown" => IsAccountRequest(message)
                /\ \E i \in chosen : chosen = {i} /\ out = (DOMAIN list) \ {i}
    <3>1. ToSet(result.matched) # {}
      BY <2>16
    <3>2. asked /\ \E i \in DOMAIN list : /\ ToSet(result.matched) = {list[i].account}
                                         /\ (DOMAIN list) \ excluded = {i}
      BY <2>8, <2>16, <3>1 DEF IsWeighed
    <3>3. PICK i \in DOMAIN list : /\ ToSet(result.matched) = {list[i].account}
                                   /\ (DOMAIN list) \ excluded = {i}
      BY <3>2
    <3>4. chosen = {i}
      BY <3>3
    <3>5. out = (DOMAIN list) \ {i}
      BY <2>4, <2>11, <3>3
    <3>6. required = "unknown" => IsAccountRequest(message)
      BY <2>7, <3>2 DEF wanted
    <3> QED
      BY <3>4, <3>5, <3>6
  <2>17. result.status = "matched" => NothingIsOpen(message, list, out)
    BY <2>15 DEF NothingIsOpen
  <2> QED
    BY <2>12, <2>13, <2>14, <2>16, <2>17 DEF ResolutionIsAuthorized, result
<1> QED
  BY <1>1, <1>2

(* What is routed was said by a user, and is held against profiles of the setup. *)
SaidOfSetup(doing) ==
    /\ doing.at \in {"reading", "routing"} => doing.message \in Messages
    /\ doing.at = "routing" => doing.profiles \in Setups

RoutingInv ==
    /\ profiles \in Setups
    /\ \A r \in ChatRequests : SaidOfSetup(chat[r])

(* One request moves on to doing. *)
LEMMA RoutingMoves ==
    ASSUME ChatInv, RoutingInv, NEW r \in ChatRequests, NEW doing,
           chat' = [chat EXCEPT ![r] = doing], profiles' = profiles, SaidOfSetup(doing)
    PROVE  RoutingInv'
<1>1. DOMAIN chat = ChatRequests
  BY DEF ChatInv
<1>2. chat'[r] = doing /\ \A q \in ChatRequests : q # r => chat'[q] = chat[q]
  BY <1>1
<1> QED
  BY <1>2 DEF RoutingInv

(* A request at rest has nothing to route. *)
LEMMA NothingIsRouted == SaidOfSetup(NoChat)
BY DEF SaidOfSetup, NoChat

(* It is routed. *)
LEMMA RoutedIsSaid ==
    ASSUME ChatInv, RoutingInv, NEW r \in ChatRequests, NEW place, NEW message, place \notin {"reading", "routing"},
           Routed(r, place, message), profiles' = profiles
    PROVE  RoutingInv'
<1> DEFINE doing == [NoChat EXCEPT !.at = place, !.message = message, !.asks = chat[r].asks,
                                   !.voice = chat[r].voice, !.turn = chat[r].turn]
<1>1. chat' = [chat EXCEPT ![r] = doing]
  BY DEF Routed, Goes
<1>2. doing.at = place
  BY DEF NoChat
<1> HIDE DEF doing
<1>3. SaidOfSetup(doing)
  BY <1>2 DEF SaidOfSetup
<1> QED
  BY <1>1, <1>3, RoutingMoves

(* A request that is neither waiting to be routed nor being routed. *)
LEMMA MovesOn ==
    ASSUME ChatInv, RoutingInv, NEW r \in ChatRequests, NEW place, place \notin {"reading", "routing"},
           At(r, place), profiles' = profiles
    PROVE  RoutingInv'
<1> DEFINE doing == [chat[r] EXCEPT !.at = place]
<1>1. chat' = [chat EXCEPT ![r] = doing]
  BY DEF At, Goes
<1>2. DOMAIN chat[r] = RequestFields
  BY RequestShapes
<1>3. doing.at = place
  BY <1>2 DEF RequestFields
<1> HIDE DEF doing
<1>4. SaidOfSetup(doing)
  BY <1>3 DEF SaidOfSetup
<1> QED
  BY <1>1, <1>4, RoutingMoves

(* It ends. *)
LEMMA EndsUnsaid ==
    ASSUME ChatInv, RoutingInv, NEW r \in ChatRequests, Ends(r), profiles' = profiles
    PROVE  RoutingInv'
BY NothingIsRouted, RoutingMoves DEF Ends, Goes

(* Every step of a request keeps the invariant. *)
LEMMA ChatStepKeepsRouting ==
    ASSUME ChatInv, RoutingInv, NEW r \in ChatRequests, ChatStep(r)
    PROVE  RoutingInv'
<1>0. DOMAIN chat[r] = RequestFields /\ SaidOfSetup(chat[r]) /\ profiles \in Setups
  BY RequestShapes DEF RoutingInv
<1>1. ASSUME NEW message \in Messages, Types(r, message) PROVE RoutingInv'
  <2> DEFINE doing == [NoChat EXCEPT !.at = "reading", !.message = message]
  <2>1. chat' = [chat EXCEPT ![r] = doing] /\ profiles' = profiles
    BY <1>1 DEF Types, Goes, World
  <2>2. doing.at = "reading" /\ doing.message = message
    BY DEF NoChat
  <2> HIDE DEF doing
  <2>3. SaidOfSetup(doing)
    BY <2>2 DEF SaidOfSetup
  <2> QED
    BY <2>1, <2>3, RoutingMoves
<1>2. ASSUME NEW message \in Messages, Transcribes(r, message) PROVE RoutingInv'
  <2>1. profiles' = profiles
    BY <1>2 DEF Transcribes, World
  <2>2. CASE Ends(r)
    BY <2>1, <2>2, EndsUnsaid
  <2>3. CASE Goes(r, [chat[r] EXCEPT !.at = "reading", !.message = message])
    <3> DEFINE doing == [chat[r] EXCEPT !.at = "reading", !.message = message]
    <3>1. chat' = [chat EXCEPT ![r] = doing]
      BY <2>3 DEF Goes
    <3>2. doing.at = "reading" /\ doing.message = message
      BY <1>0 DEF RequestFields
    <3> HIDE DEF doing
    <3>3. SaidOfSetup(doing)
      BY <3>2 DEF SaidOfSetup
    <3> QED
      BY <2>1, <3>1, <3>3, RoutingMoves
  <2> QED
    BY <1>2, <2>2, <2>3 DEF Transcribes
<1>3. ASSUME Records(r) PROVE RoutingInv'
  <2> DEFINE doing == [NoChat EXCEPT !.at = "recording", !.voice = TRUE, !.turn = chatTurns + 1]
  <2>1. chat' = [chat EXCEPT ![r] = doing] /\ profiles' = profiles
    BY <1>3 DEF Records, Goes, World
  <2>2. doing.at = "recording"
    BY DEF NoChat
  <2> HIDE DEF doing
  <2>3. SaidOfSetup(doing)
    BY <2>2 DEF SaidOfSetup
  <2> QED
    BY <2>1, <2>3, RoutingMoves
<1>4. ASSUME RouteReads(r) PROVE RoutingInv'
  <2> DEFINE asks == IF question = NoMessage THEN chat[r].message ELSE question
             doing == [chat[r] EXCEPT !.at = "routing", !.profiles = profiles, !.context = context,
                                      !.question = question, !.asks = asks]
  <2>1. chat' = [chat EXCEPT ![r] = doing] /\ profiles' = profiles /\ chat[r].at = "reading"
    BY <1>4 DEF RouteReads, Goes, World
  <2>2. doing.at = "routing" /\ doing.message = chat[r].message /\ doing.profiles = profiles
    BY <1>0 DEF RequestFields
  <2> HIDE DEF doing
  <2>3. SaidOfSetup(doing)
    BY <1>0, <2>1, <2>2 DEF SaidOfSetup
  <2> QED
    BY <2>1, <2>3, RoutingMoves
<1>5. ASSUME RouteClarification(r) PROVE RoutingInv'
  <2>1. profiles' = profiles
    BY <1>5 DEF RouteClarification, World
  <2>2. \/ Routed(r, "telling", chat[r].message) \/ Routed(r, "restored", chat[r].question) \/ Ends(r)
    BY <1>5 DEF RouteClarification, Tells, Restores
  <2> QED
    BY <2>1, <2>2, RoutedIsSaid, EndsUnsaid
<1>6. ASSUME RouteMessage(r) PROVE RoutingInv'
  <2>1. profiles' = profiles
    BY <1>6 DEF RouteMessage, World
  <2>2. \/ Routed(r, "telling", chat[r].message) \/ Routed(r, "beginning", chat[r].message) \/ Ends(r)
    BY <1>6 DEF RouteMessage, Tells, Passes
  <2> QED
    BY <2>1, <2>2, RoutedIsSaid, EndsUnsaid
<1>7. ASSUME Begins(r) PROVE RoutingInv'
  <2> DEFINE next == IF chat[r].at = "telling" THEN "replying" ELSE "choosing"
             doing == [chat[r] EXCEPT !.at = next, !.turn = chatTurns + 1]
  <2>1. profiles' = profiles
    BY <1>7 DEF Begins, World
  <2>2. At(r, next) \/ Goes(r, doing) \/ Ends(r)
    BY <1>7 DEF Begins
  <2>3. next \notin {"reading", "routing"}
    OBVIOUS
  <2> HIDE DEF next
  <2>4. CASE At(r, next)
    BY <2>1, <2>3, <2>4, MovesOn
  <2>5. CASE Goes(r, doing)
    <3>1. doing.at = next
      BY <1>0 DEF RequestFields
    <3>2. chat' = [chat EXCEPT ![r] = doing]
      BY <2>5 DEF Goes
    <3> HIDE DEF doing
    <3>3. SaidOfSetup(doing)
      BY <2>3, <3>1 DEF SaidOfSetup
    <3> QED
      BY <2>1, <3>2, <3>3, RoutingMoves
  <2>6. CASE Ends(r)
    BY <2>1, <2>6, EndsUnsaid
  <2> QED
    BY <2>2, <2>4, <2>5, <2>6
<1>8. ASSUME \/ Replies(r) \/ AnswersItself(r) \/ ModelAnswers(r) \/ RefusesRequest(r)
             \/ FindsNothing(r) \/ CutShort(r) \/ ModelFails(r)
      PROVE  RoutingInv'
  <2>1. Ends(r) /\ profiles' = profiles
    BY <1>8 DEF Replies, AnswersItself, ModelAnswers, RefusesRequest, FindsNothing, CutShort, ModelFails,
                Finishes, Fails, Raises, World
  <2> QED
    BY <2>1, EndsUnsaid
<1>9. ASSUME AsksModel(r) PROVE RoutingInv'
  BY <1>9, MovesOn DEF AsksModel, World
<1>10. ASSUME Assembles(r) PROVE RoutingInv'
  <2> DEFINE offered == IF context = <<>> THEN connected ELSE connected \cap ToSet(context)
             doing == [chat[r] EXCEPT !.at = "dispatching", !.given = chatHistory,
                                      !.offered = offered]
  <2>1. chat' = [chat EXCEPT ![r] = doing] /\ profiles' = profiles
    BY <1>10 DEF Assembles, Goes, World
  <2>2. doing.at = "dispatching"
    BY <1>0 DEF RequestFields
  <2> HIDE DEF doing
  <2>3. SaidOfSetup(doing)
    BY <2>2 DEF SaidOfSetup
  <2> QED
    BY <2>1, <2>3, RoutingMoves
<1>11. ASSUME Dispatches(r) PROVE RoutingInv'
  <2> DEFINE offered == chat[r].offered
             sole == {account \in offered : offered = {account} /\ Len(context) # 1}
             under == IF sole = {} THEN context ELSE <<CHOOSE account \in sole : TRUE>>
             doing == [chat[r] EXCEPT !.at = "answering", !.under = under]
  <2>1. chat' = [chat EXCEPT ![r] = doing] /\ profiles' = profiles
    BY <1>11 DEF Dispatches, Goes, World
  <2>2. doing.at = "answering"
    BY <1>0 DEF RequestFields
  <2> HIDE DEF doing
  <2>3. SaidOfSetup(doing)
    BY <2>2 DEF SaidOfSetup
  <2> QED
    BY <2>1, <2>3, RoutingMoves
<1> QED
  BY <1>1, <1>2, <1>3, <1>4, <1>5, <1>6, <1>7, <1>8, <1>9, <1>10, <1>11 DEF ChatStep

(* So do all others. *)
LEMMA RoutingInvHolds == ChatSpec => []RoutingInv
<1>1. ChatInit => RoutingInv
  <2> SUFFICES ASSUME ChatInit PROVE RoutingInv
    OBVIOUS
  <2>1. profiles \in Setups /\ \A r \in ChatRequests : chat[r] = NoChat
    BY DEF ChatInit
  <2> QED
    BY <2>1, NothingIsRouted DEF RoutingInv
<1>2. ChatInv /\ RoutingInv /\ [ChatNext]_chatVars => RoutingInv'
  <2> SUFFICES ASSUME ChatInv, RoutingInv, [ChatNext]_chatVars PROVE RoutingInv'
    OBVIOUS
  <2>1. CASE \E r \in ChatRequests : ChatStep(r)
    BY <2>1, ChatStepKeepsRouting
  <2>2. CASE chat' = chat /\ profiles' \in Setups
    BY <2>2 DEF RoutingInv
  <2>3. CASE UNCHANGED chatVars
    BY <2>3 DEF RoutingInv, chatVars
  <2>4. CASE CancelsTurn \/ ChangesSetup
    BY <2>2, <2>4 DEF CancelsTurn, ChangesSetup, RoutingInv
  <2>5. CASE \E account \in MailAccounts : ChangesConnection(account) \/ SelectsContext(<<account>>)
    BY <2>2, <2>5 DEF ChangesConnection, SelectsContext, RoutingInv
  <2> QED
    BY <2>1, <2>3, <2>4, <2>5 DEF ChatNext
<1> QED
  BY <1>1, <1>2, ChatInvHolds, PTL DEF ChatSpec

(* RoutingIsAuthorized: whatever a user says and whichever profiles the setup has, what      *)
(* resolve_account_labels matches the message names, by a label or an alias of one profile   *)
(* alone, outside every exclusion, and none while a shared word is open; one it does not     *)
(* name is chosen only where an account is asked for and all other profiles are excluded.    *)
(* Of profiles with one label the first has it.                                              *)
THEOREM RoutingIsAuthorizedHolds == ChatSpec => []RoutingIsAuthorized
<1>1. ASSUME RoutingInv PROVE RoutingIsAuthorized
  <2> SUFFICES ASSUME NEW r \in ChatRequests, chat[r].at = "routing"
               PROVE  \A required : ResolutionIsAuthorized(chat[r].message, chat[r].profiles, required)
    BY DEF RoutingIsAuthorized
  <2>1. chat[r].message \in Messages /\ chat[r].profiles \in Setups
    BY <1>1 DEF RoutingInv, SaidOfSetup
  <2> DEFINE message == chat[r].message
             list == chat[r].profiles
  <2>2. /\ message \in Seq(Words(message)) /\ list \in Seq(ToSet(list))
        /\ \A i, j \in DOMAIN list : list[i].account = list[j].account => i = j
    BY <2>1, RoutingAssumption
  <2> HIDE DEF message, list
  <2>3. \A required : ResolutionIsAuthorized(message, list, required)
    BY <2>2, ResolveAuthorizes
  <2> QED
    BY <2>3 DEF message, list
<1> QED
  BY <1>1, RoutingInvHolds, PTL

(***************************************************************************)
(* Reads of the connected servers.  The control is looked at before every  *)
(* read, so at most the read in hand ends after it was turned off, and     *)
(* data read in a turn is never older than the turn.                       *)
(***************************************************************************)

Statuses == {"blocked", "read_only_complete", "read_error", "transport_error"}

ChatFields == {"at", "control", "intents", "parts", "since", "data", "oldest", "label"}

(* What a chat has of a server, and what it has told. *)
ReadIsFresh(asked) ==
    /\ DOMAIN asked = ChatFields
    /\ asked.since \in Nat /\ asked.data \in Nat
    /\ asked.at \in {"returned", "storing"} => asked.data <= asked.since
    /\ asked.parts \in Seq([status: Statuses, age: Nat])
    /\ \A k \in 1 .. Len(asked.parts) : IsComplete(asked.parts[k]) => asked.parts[k].age <= CacheLifetime
    /\ asked.label = "sourced" => \A k \in 1 .. Len(asked.parts) : IsComplete(asked.parts[k])

(* A cached answer is at least as old as what it says. *)
CacheIsHonest ==
    \A entry \in cache :
        /\ DOMAIN entry = {"key", "age", "data"}
        /\ entry.age \in Nat /\ entry.data \in Nat
        /\ entry.data <= entry.age

FreshInv ==
    /\ DOMAIN chats = Chats
    /\ \A c \in Chats : ReadIsFresh(chats[c])
    /\ CacheIsHonest
-----------------------------------------------------------------------------
LEMMA OlderIsMonotone ==
    ASSUME NEW a \in Nat, NEW b \in Nat, a <= b
    PROVE  Older(a) \in Nat /\ Older(a) <= Older(b)
BY McpReadsAssumption DEF Older

(* A part that is complete only with fresh data keeps the answer fresh. *)
LEMMA WithPartIsFresh ==
    ASSUME NEW asked, ReadIsFresh(asked), NEW verdict \in Statuses, NEW age \in Nat,
           verdict = "read_only_complete" => age <= CacheLifetime
    PROVE  ReadIsFresh(WithPart(asked, Part(verdict, age)))
<1> DEFINE part == Part(verdict, age)
           parts == Append(asked.parts, part)
           res == WithPart(asked, part)
           P == [status: Statuses, age: Nat]
<1>1. part \in P /\ part.status = verdict /\ part.age = age
  BY DEF Part
<1>2. /\ parts \in Seq(P) /\ Len(parts) = Len(asked.parts) + 1 /\ Len(asked.parts) \in Nat
      /\ parts[Len(parts)] = part
      /\ \A k \in 1 .. Len(asked.parts) : parts[k] = asked.parts[k]
  <2> asked.parts \in Seq(P)
    BY DEF ReadIsFresh
  <2> HIDE DEF part, P
  <2> QED  BY <1>1, AppendProperties, LenProperties
<1>3. \A k \in 1 .. Len(parts) : IsComplete(parts[k]) => parts[k].age <= CacheLifetime
  <2> TAKE k \in 1 .. Len(parts)
  <2>1. CASE k = Len(parts)
    BY <1>1, <1>2, <2>1 DEF IsComplete
  <2>2. CASE k # Len(parts)
    <3>1. k \in 1 .. Len(asked.parts)
      BY <1>2, <2>2
    <3> QED  BY <1>2, <3>1 DEF ReadIsFresh
  <2> QED  BY <2>1, <2>2
<1>4. Label(parts) = "sourced" => \A k \in 1 .. Len(parts) : IsComplete(parts[k])
  <2> HIDE DEF parts
  <2> SUFFICES ASSUME Label(parts) = "sourced" PROVE \A k \in 1 .. Len(parts) : IsComplete(parts[k])
    OBVIOUS
  <2>1. {k \in 1 .. Len(parts) : IsComplete(parts[k])} = 1 .. Len(parts)
    BY DEF Label
  <2> QED  BY <2>1
<1>5. NoAge \in Nat
  BY McpReadsAssumption DEF NoAge
<1> DEFINE place == IF Len(parts) = Len(asked.intents) THEN "answered" ELSE "routing"
           label == IF Len(parts) = Len(asked.intents) THEN Label(parts) ELSE "none"
<1>6. res = [asked EXCEPT !.parts = parts, !.since = 0, !.data = NoAge, !.oldest = {},
                         !.at = place, !.label = label]
  BY DEF WithPart
<1>7. /\ place \notin {"returned", "storing"}
      /\ label = "sourced" => Label(parts) = "sourced"
  OBVIOUS
<1> HIDE DEF parts, part, place, label
<1>8. /\ DOMAIN res = ChatFields
      /\ res.parts = parts /\ res.since = 0 /\ res.data = NoAge /\ res.at = place /\ res.label = label
  BY <1>6 DEF ReadIsFresh, ChatFields
<1> HIDE DEF res
<1>9. ReadIsFresh(res)
  BY <1>2, <1>3, <1>4, <1>5, <1>7, <1>8 DEF ReadIsFresh
<1> USE DEF res, part
<1> QED  BY <1>9

LEMMA PartIsAdded ==
    ASSUME FreshInv, NEW c \in Chats, NEW verdict \in Statuses, NEW age \in Nat,
           verdict = "read_only_complete" => age <= CacheLifetime,
           chats' = [chats EXCEPT ![c] = WithPart(@, Part(verdict, age))]
    PROVE  DOMAIN chats' = Chats /\ \A d \in Chats : ReadIsFresh(chats'[d])
<1>1. ReadIsFresh(WithPart(chats[c], Part(verdict, age)))
  BY WithPartIsFresh DEF FreshInv
<1> QED  BY <1>1 DEF FreshInv

(* Only the place of a chat, its controls and its intents change. *)
LEMMA PlaceIsChanged ==
    ASSUME NEW asked, ReadIsFresh(asked), NEW place, place \notin {"returned", "storing"}
    PROVE  ReadIsFresh([asked EXCEPT !.at = place])
<1> DEFINE res == [asked EXCEPT !.at = place]
<1>1. /\ DOMAIN res = ChatFields /\ res.at = place
      /\ res.since = asked.since /\ res.data = asked.data /\ res.parts = asked.parts /\ res.label = asked.label
  BY DEF ReadIsFresh, ChatFields
<1> HIDE DEF res
<1>2. ReadIsFresh(res)
  BY <1>1 DEF ReadIsFresh
<1> USE DEF res
<1> QED  BY <1>2

LEMMA McpStepKeepsInv ==
    ASSUME FreshInv, [McpNext]_mcpVars
    PROVE  FreshInv'
<1>0. /\ DOMAIN chats = Chats
      /\ \A c \in Chats : ReadIsFresh(chats[c]) /\ DOMAIN chats[c] = ChatFields
      /\ CacheIsHonest /\ NoAge \in Nat
  <2>1. NoAge \in Nat
    BY McpReadsAssumption DEF NoAge
  <2>2. \A c \in Chats : ReadIsFresh(chats[c])
    BY DEF FreshInv
  <2>3. \A c \in Chats : DOMAIN chats[c] = ChatFields
    BY <2>2 DEF ReadIsFresh
  <2> QED  BY <2>1, <2>2, <2>3 DEF FreshInv
<1>1. ASSUME UNCHANGED <<chats, cache>> PROVE FreshInv'
  BY <1>1 DEF FreshInv, CacheIsHonest
<1>2. CASE Tick
  <2>1. /\ cache' = {[entry EXCEPT !.age = Older(@), !.data = Older(@)] : entry \in cache}
        /\ chats' = [c \in Chats |->
                        IF chats[c].at \in {"idle", "routing", "answered"} THEN chats[c]
                        ELSE [chats[c] EXCEPT !.since = Older(@), !.data = Older(@)]]
    BY <1>2 DEF Tick
  <2>2. CacheIsHonest'
    <3> SUFFICES ASSUME NEW entry \in cache'
                 PROVE  /\ DOMAIN entry = {"key", "age", "data"}
                        /\ entry.age \in Nat /\ entry.data \in Nat /\ entry.data <= entry.age
      BY DEF CacheIsHonest
    <3>1. PICK e \in cache : entry = [e EXCEPT !.age = Older(@), !.data = Older(@)]
      BY <2>1
    <3>2. /\ DOMAIN e = {"key", "age", "data"} /\ e.age \in Nat /\ e.data \in Nat /\ e.data <= e.age
      BY <1>0 DEF CacheIsHonest
    <3>3. DOMAIN entry = DOMAIN e /\ entry.age = Older(e.age) /\ entry.data = Older(e.data)
      BY <3>1, <3>2
    <3> QED  BY <3>2, <3>3, OlderIsMonotone
  <2>3. ASSUME NEW c \in Chats PROVE ReadIsFresh(chats'[c])
    <3>1. CASE chats[c].at \in {"idle", "routing", "answered"}
      BY <1>0, <2>1, <3>1
    <3>2. CASE chats[c].at \notin {"idle", "routing", "answered"}
      <4> DEFINE asked == chats[c]
                 res == chats'[c]
      <4>1. /\ DOMAIN res = ChatFields /\ res.at = asked.at
            /\ res.since = Older(asked.since) /\ res.data = Older(asked.data)
            /\ res.parts = asked.parts /\ res.label = asked.label
        BY <1>0, <2>1, <3>2 DEF ChatFields
      <4>2. /\ asked.since \in Nat /\ asked.data \in Nat
            /\ Older(asked.since) \in Nat /\ Older(asked.data) \in Nat
            /\ asked.data <= asked.since => Older(asked.data) <= Older(asked.since)
        BY <1>0, OlderIsMonotone DEF ReadIsFresh
      <4>3. ReadIsFresh(asked)
        BY <1>0
      <4> HIDE DEF asked, res
      <4>4. ReadIsFresh(res)
        BY <4>1, <4>2, <4>3 DEF ReadIsFresh
      <4> USE DEF res
      <4> QED  BY <4>4
    <3> QED  BY <3>1, <3>2
  <2> QED  BY <2>1, <2>2, <2>3 DEF FreshInv
<1>3. ASSUME NEW c \in Chats, NEW message, Routes(c, message) PROVE FreshInv'
  <2> DEFINE asked == chats[c]
             res == chats'[c]
  <2>1. /\ chats' = [chats EXCEPT ![c].at = "routing", ![c].control = modes, ![c].intents = Intents(message)]
        /\ cache' = cache
    BY <1>3 DEF Routes
  <2>2. /\ DOMAIN res = ChatFields /\ res.at = "routing" /\ res.since = asked.since /\ res.data = asked.data
        /\ res.parts = asked.parts /\ res.label = asked.label
    BY <1>0, <2>1 DEF ChatFields
  <2>3. ReadIsFresh(asked)
    BY <1>0
  <2>4. DOMAIN chats' = Chats /\ \A d \in Chats : d # c => chats'[d] = chats[d]
    BY <1>0, <2>1
  <2> HIDE DEF asked, res
  <2>5. ReadIsFresh(res)
    BY <2>2, <2>3 DEF ReadIsFresh
  <2> USE DEF res
  <2> QED  BY <1>0, <2>1, <2>4, <2>5 DEF FreshInv, CacheIsHonest
<1>4. ASSUME NEW c \in Chats, Blocks(c) PROVE FreshInv'
  <2>1. /\ chats' = [chats EXCEPT ![c] = WithPart(@, Part("blocked", NoAge))] /\ cache' = cache
    BY <1>4 DEF Blocks
  <2>2. DOMAIN chats' = Chats /\ \A d \in Chats : ReadIsFresh(chats'[d])
    BY <1>0, <2>1, PartIsAdded DEF Statuses
  <2> QED  BY <1>0, <2>1, <2>2 DEF FreshInv, CacheIsHonest
<1>5. ASSUME NEW c \in Chats, IsServed(c) PROVE FreshInv'
  <2>1. PICK entry \in Cached(c) :
            /\ entry.age <= CacheLifetime
            /\ chats' = [chats EXCEPT ![c] = WithPart(@, Part("read_only_complete", entry.data))]
    BY <1>5 DEF IsServed
  <2>2. entry.data \in Nat /\ entry.data <= CacheLifetime /\ cache' = cache
    BY <1>0, <1>5, <2>1, McpReadsAssumption DEF CacheIsHonest, Cached, IsServed
  <2>3. DOMAIN chats' = Chats /\ \A d \in Chats : ReadIsFresh(chats'[d])
    <3> "read_only_complete" \in Statuses
      BY DEF Statuses
    <3> QED  BY <2>1, <2>2, PartIsAdded
  <2> QED  BY <1>0, <2>2, <2>3 DEF FreshInv, CacheIsHonest
<1>6. ASSUME NEW c \in Chats, Misses(c) \/ Lists(c) PROVE FreshInv'
  <2>1. /\ \E place \in {"listing", "calling"} : chats' = [chats EXCEPT ![c].at = place]
        /\ cache' \subseteq cache
    BY <1>6 DEF Misses, Lists
  <2>2. PICK place \in {"listing", "calling"} : chats' = [chats EXCEPT ![c] = [chats[c] EXCEPT !.at = place]]
    BY <2>1
  <2>3. ReadIsFresh([chats[c] EXCEPT !.at = place])
    BY <1>0, PlaceIsChanged
  <2> QED  BY <1>0, <2>1, <2>2, <2>3 DEF FreshInv, CacheIsHonest
<1>7. ASSUME NEW c \in Chats, CallFails(c) PROVE FreshInv'
  <2>1. PICK verdict \in {"read_error", "transport_error"} :
            chats' = [chats EXCEPT ![c] = WithPart(@, Part(verdict, NoAge))]
    BY <1>7 DEF CallFails
  <2>2. DOMAIN chats' = Chats /\ \A d \in Chats : ReadIsFresh(chats'[d])
    <3> verdict \in Statuses /\ verdict # "read_only_complete"
      BY DEF Statuses
    <3> QED  BY <1>0, <2>1, PartIsAdded
  <2> QED  BY <1>0, <1>7, <2>2 DEF CallFails, FreshInv, CacheIsHonest
<1>8. ASSUME NEW c \in Chats, CallReturns(c) \/ FindsOldest(c) PROVE FreshInv'
  <2> DEFINE asked == chats[c]
             res == chats'[c]
  <2>1. /\ DOMAIN chats' = Chats /\ \A d \in Chats : d # c => chats'[d] = chats[d]
        /\ cache' = cache
        /\ DOMAIN res = ChatFields /\ res.since = asked.since
        /\ res.data = 0 \/ (res.data = asked.data /\ asked.at = "returned")
        /\ res.parts = asked.parts /\ res.label = asked.label
    <3>1. CASE CallReturns(c)
      BY <1>0, <3>1 DEF CallReturns, ChatFields
    <3>2. CASE FindsOldest(c)
      BY <1>0, <3>2 DEF FindsOldest, ChatFields
    <3> QED  BY <1>8, <3>1, <3>2
  <2>2. ReadIsFresh(asked)
    BY <1>0
  <2> HIDE DEF asked, res
  <2>3. ReadIsFresh(res)
    BY <2>1, <2>2 DEF ReadIsFresh
  <2> USE DEF res
  <2> QED  BY <1>0, <2>1, <2>3 DEF FreshInv, CacheIsHonest
<1>9. ASSUME NEW c \in Chats, Remembers(c) PROVE FreshInv'
  <2>1. /\ chats' = [chats EXCEPT ![c] = WithPart(@, Part("read_only_complete", 0))]
        /\ cache' = {entry \in cache : entry.key \notin chats[c].oldest \cup {Key(c)}}
                    \cup {[key |-> Key(c), age |-> chats[c].since, data |-> chats[c].data]}
        /\ chats[c].at = "storing"
    BY <1>9 DEF Remembers
  <2>2. DOMAIN chats' = Chats /\ \A d \in Chats : ReadIsFresh(chats'[d])
    <3> "read_only_complete" \in Statuses /\ 0 <= CacheLifetime
      BY McpReadsAssumption DEF Statuses
    <3> QED  BY <2>1, PartIsAdded
  <2>3. chats[c].since \in Nat /\ chats[c].data \in Nat /\ chats[c].data <= chats[c].since
    BY <1>0, <2>1 DEF ReadIsFresh
  <2>4. CacheIsHonest'
    BY <1>0, <2>1, <2>3 DEF CacheIsHonest
  <2> QED  BY <2>2, <2>4 DEF FreshInv
<1>10. ASSUME NEW c \in Chats, Forgets(c) PROVE FreshInv'
  <2>1. chats' = [chats EXCEPT ![c] = NoRead] /\ cache' = cache
    BY <1>10 DEF Forgets
  <2>2. ReadIsFresh(NoRead)
    BY <1>0 DEF ReadIsFresh, NoRead, ChatFields
  <2> QED  BY <1>0, <2>1, <2>2 DEF FreshInv, CacheIsHonest
<1> QED
  BY <1>1, <1>2, <1>3, <1>4, <1>5, <1>6, <1>7, <1>8, <1>9, <1>10
     DEF McpNext, mcpVars, SetsMode, ChatReads, RunReads, Composes, Asks, Calls, FindsProject, AtlasReturns, RunFinishes

(* An answer of the chat bridge that is labelled sourced is made of data no older than a *)
(* cached answer may live, whatever the messages, the servers and the gates.             *)
THEOREM SourcedDataStaysFresh == McpSpec => []SourcedDataIsFresh
<1>1. McpInit => FreshInv
  <2> SUFFICES ASSUME McpInit PROVE FreshInv
    OBVIOUS
  <2>1. NoAge \in Nat
    BY McpReadsAssumption DEF NoAge
  <2>2. ReadIsFresh(NoRead)
    BY <2>1 DEF ReadIsFresh, NoRead, ChatFields
  <2> QED  BY <2>2 DEF McpInit, FreshInv, CacheIsHonest
<1>2. FreshInv /\ [McpNext]_mcpVars => FreshInv'
  BY McpStepKeepsInv
<1>3. FreshInv => SourcedDataIsFresh
  BY DEF FreshInv, ReadIsFresh, SourcedDataIsFresh
<1> QED  BY <1>1, <1>2, <1>3, PTL DEF McpSpec
-----------------------------------------------------------------------------
(* A run that was just cleared has made no late call. *)
CallsAreCleared ==
    /\ DOMAIN runs = Runs
    /\ \A g \in Runs :
          /\ DOMAIN runs[g] = {"at", "tool", "late"}
          /\ runs[g].late \in {0, 1}
          /\ runs[g].at = "cleared" => runs[g].late = 0

(* However many tools a run calls, and whenever the operator turns reading off: at most *)
(* one call goes out after that.                                                         *)
THEOREM OneReadAfterOffHolds == McpSpec => []OneReadAfterOff
<1>1. McpInit => CallsAreCleared
  BY DEF McpInit, NoRun, CallsAreCleared
<1>2. CallsAreCleared /\ [McpNext]_mcpVars => CallsAreCleared'
  <2> SUFFICES ASSUME CallsAreCleared, [McpNext]_mcpVars PROVE CallsAreCleared'
    OBVIOUS
  <2>1. ASSUME UNCHANGED runs PROVE CallsAreCleared'
    BY <2>1 DEF CallsAreCleared
  <2>2. ASSUME NEW g \in Runs, RunReads(g) PROVE CallsAreCleared'
    <3>1. CASE Composes(g)
      BY <3>1 DEF Composes, CallsAreCleared
    <3>2. CASE Asks(g)
      BY <3>2 DEF Asks, Clears, CallsAreCleared
    <3>3. CASE Calls(g)
      BY <3>3 DEF Calls, CallsAreCleared
    <3>4. CASE FindsProject(g)
      BY <3>4 DEF FindsProject, Clears, CallsAreCleared
    <3>5. CASE AtlasReturns(g)
      BY <3>5 DEF AtlasReturns, CallsAreCleared
    <3>6. CASE RunFinishes(g)
      BY <3>6 DEF RunFinishes, NoRun, CallsAreCleared
    <3> QED  BY <2>2, <3>1, <3>2, <3>3, <3>4, <3>5, <3>6 DEF RunReads
  <2> QED
    BY <2>1, <2>2
       DEF McpNext, mcpVars, SetsMode, Tick, ChatReads, Routes, Blocks, IsServed, Misses, Lists, CallFails,
           CallReturns, FindsOldest, Remembers, Forgets
<1>3. CallsAreCleared => OneReadAfterOff
  BY DEF CallsAreCleared, OneReadAfterOff
<1> QED  BY <1>1, <1>2, <1>3, PTL DEF McpSpec

(***************************************************************************)
(* The BOH link.  Its events are a chain that leads to its state, and      *)
(* evidence is there while an answer is called sourced.                    *)
(***************************************************************************)

LinkTransitions == [from: LinkStates, to: LinkStates]

(* The events are a chain of changes that leads to the present state. *)
ChainOfEvents(l) ==
    /\ l.events \in Seq(LinkTransitions)
    /\ Len(l.events) <= EventLimit
    /\ l.events = <<>> \/ l.events[Len(l.events)].to = l.state
    /\ \A i \in 2 .. Len(l.events) : l.events[i].from = l.events[i - 1].to
    /\ \A i \in DOMAIN l.events : l.events[i].from # l.events[i].to

IsLink(l) ==
    /\ DOMAIN l = {"enabled", "state", "error", "health", "events"}
    /\ l = [f \in DOMAIN l |-> l[f]]
    /\ l.state \in LinkStates
    /\ l.error \in BOOLEAN /\ l.health \in BOOLEAN
    /\ ChainOfEvents(l)

FlagsOfState(state, error, health) ==
    /\ state \in {"degraded", "disconnected", "auth_failed"} => error
    /\ state = "connected" => ~error /\ health

(* What a poller on its way knows of the flags it has set. *)
PollerIsRight(m) ==
    /\ poller[m].at \in {"status", "probe"} => link.health
    /\ poller[m].at = "settling" =>
          /\ poller[m].next \in LinkStates
          /\ FlagsOfState(poller[m].next, link.error, link.health)

PollerPlaces == {"new", "resting", "ended", "health", "status", "probe", "settling"}

AtRest(m) == poller[m].at \in {"new", "resting", "ended"}

BohInv ==
    /\ IsLink(link)
    /\ poller \in [Managers -> [at: PollerPlaces, next: LinkStates \cup {"none"}]]
    /\ \A m \in Managers : poller[m].at = "settling" => poller[m].next \in LinkStates
    /\ lone =>
          /\ \A m, n \in Managers : Running(m) /\ Running(n) => m = n
          /\ \A m \in Managers : PollerIsRight(m)
          /\ (\A m \in Managers : AtRest(m)) => FlagsOfState(link.state, link.error, link.health)
-----------------------------------------------------------------------------
LEMMA ChainGrows ==
    ASSUME NEW l, IsLink(l), NEW new \in LinkStates
    PROVE  /\ IsLink(InState(l, new))
           /\ InState(l, new).state = new
           /\ InState(l, new).error = l.error
           /\ InState(l, new).health = l.health
<1>1. CASE l.state = new
  BY <1>1 DEF InState
<1>2. CASE l.state # new
  <2> DEFINE event == [from |-> l.state, to |-> new]
             grown == Append(l.events, event)
             kept == IF Len(grown) > EventLimit THEN Tail(grown) ELSE grown
             res == [l EXCEPT !.state = new, !.events = kept]
  <2>1. InState(l, new) = res
    BY <1>2 DEF InState
  <2>2. /\ l.events \in Seq(LinkTransitions) /\ event \in LinkTransitions
        /\ Len(l.events) \in Nat /\ EventLimit \in Nat \ {0}
        /\ Len(l.events) <= EventLimit
        /\ DOMAIN l.events = 1 .. Len(l.events)
    BY BohLinkAssumption, LenProperties DEF IsLink, ChainOfEvents, LinkTransitions
  <2>3. /\ grown \in Seq(LinkTransitions) /\ Len(grown) = Len(l.events) + 1
        /\ grown[Len(grown)] = event
        /\ \A i \in 1 .. Len(l.events) : grown[i] = l.events[i]
    <3> HIDE DEF event
    <3> QED  BY <2>2, AppendProperties
  <2> HIDE DEF event, grown
  <2>4. /\ event.from = l.state /\ event.to = new
    BY DEF event
  <2>5. /\ \A i \in 2 .. Len(grown) : grown[i].from = grown[i - 1].to
        /\ \A i \in 1 .. Len(grown) : grown[i].from # grown[i].to
    <3>1. /\ l.events = <<>> \/ l.events[Len(l.events)].to = l.state
          /\ \A i \in 2 .. Len(l.events) : l.events[i].from = l.events[i - 1].to
          /\ \A i \in 1 .. Len(l.events) : l.events[i].from # l.events[i].to
      BY <2>2 DEF IsLink, ChainOfEvents
    <3>2. ASSUME NEW i \in 2 .. Len(grown) PROVE grown[i].from = grown[i - 1].to
      <4>1. CASE i = Len(grown)
        <5>1. l.events # <<>> /\ i - 1 = Len(l.events) /\ i - 1 \in 1 .. Len(l.events)
          BY <2>2, <2>3, <4>1
        <5> QED  BY <2>2, <2>3, <2>4, <3>1, <4>1, <5>1
      <4>2. CASE i # Len(grown)
        <5>1. i \in 2 .. Len(l.events) /\ i - 1 \in 1 .. Len(l.events) /\ i \in 1 .. Len(l.events)
          BY <2>2, <2>3, <4>2
        <5>2. grown[i] = l.events[i] /\ grown[i - 1] = l.events[i - 1]
          BY <2>3, <5>1
        <5> QED  BY <3>1, <5>1, <5>2
      <4> QED  BY <4>1, <4>2
    <3>3. ASSUME NEW i \in 1 .. Len(grown) PROVE grown[i].from # grown[i].to
      BY <1>2, <2>2, <2>3, <2>4, <3>1
    <3> QED  BY <3>2, <3>3
  <2>6. /\ kept \in Seq(LinkTransitions)
        /\ Len(kept) <= EventLimit
        /\ kept[Len(kept)].to = new
        /\ \A i \in 2 .. Len(kept) : kept[i].from = kept[i - 1].to
        /\ \A i \in 1 .. Len(kept) : kept[i].from # kept[i].to
        /\ DOMAIN kept = 1 .. Len(kept)
    <3>1. CASE Len(grown) > EventLimit
      <4>1. kept = Tail(grown) /\ grown # <<>>
        BY <2>2, <2>3, <3>1
      <4>2. /\ Tail(grown) \in Seq(LinkTransitions) /\ Len(Tail(grown)) = Len(grown) - 1
            /\ \A i \in 1 .. Len(Tail(grown)) : Tail(grown)[i] = grown[i + 1]
        BY <2>2, <2>3, <4>1, HeadTailProperties
      <4> HIDE DEF kept
      <4>3. DOMAIN kept = 1 .. Len(kept)
        BY <4>1, <4>2, LenProperties
      <4>4. Len(kept) \in 1 .. EventLimit
        BY <2>2, <2>3, <3>1, <4>1, <4>2
      <4>5. ASSUME NEW i \in 2 .. Len(kept) PROVE kept[i].from = kept[i - 1].to
        <5>1. kept[i] = grown[i + 1] /\ kept[i - 1] = grown[(i + 1) - 1] /\ i + 1 \in 2 .. Len(grown)
          BY <2>2, <2>3, <4>1, <4>2, <4>4
        <5> QED  BY <2>5, <5>1
      <4>6. ASSUME NEW i \in 1 .. Len(kept) PROVE kept[i].from # kept[i].to
        <5>1. kept[i] = grown[i + 1] /\ i + 1 \in 1 .. Len(grown)
          BY <2>2, <2>3, <4>1, <4>2, <4>4
        <5> QED  BY <2>5, <5>1
      <4>7. kept[Len(kept)] = grown[Len(grown)]
        BY <2>2, <2>3, <4>1, <4>2, <4>4
      <4> QED  BY <2>3, <2>4, <4>1, <4>2, <4>3, <4>4, <4>5, <4>6, <4>7
    <3>2. CASE ~(Len(grown) > EventLimit)
      <4>1. kept = grown
        BY <3>2
      <4> QED  BY <2>2, <2>3, <2>4, <2>5, <3>2, <4>1, LenProperties
    <3> QED  BY <3>1, <3>2
  <2> HIDE DEF kept
  <2>7. /\ res.state = new /\ res.events = kept
        /\ res.error = l.error /\ res.health = l.health
        /\ DOMAIN res = {"enabled", "state", "error", "health", "events"}
        /\ res = [f \in DOMAIN res |-> res[f]]
    BY DEF IsLink
  <2> HIDE DEF res
  <2>8. IsLink(res)
    BY <2>6, <2>7 DEF IsLink, ChainOfEvents
  <2> QED  BY <2>1, <2>7, <2>8
<1> QED  BY <1>1, <1>2

(* The flags and the switch have no part in the events. *)
LEMMA FlagsAreApart ==
    ASSUME NEW l, IsLink(l), NEW k,
           DOMAIN k = DOMAIN l, k = [f \in DOMAIN l |-> k[f]],
           k.state = l.state, k.events = l.events, k.error \in BOOLEAN, k.health \in BOOLEAN
    PROVE  IsLink(k)
BY DEF IsLink, ChainOfEvents

(* A step of one poller that leaves the record and its own place right. *)
LEMMA PollerMoves ==
    ASSUME BohInv, NEW m \in Managers, NEW place \in PollerPlaces, NEW next \in LinkStates \cup {"none"},
           Running(m) \/ lone' = (lone /\ \A other \in Managers : ~Running(other)),
           lone' => lone,
           poller' = [poller EXCEPT ![m] = [at |-> place, next |-> next]],
           place = "settling" => next \in LinkStates,
           IsLink(link'),
           lone' /\ (\A other \in Managers : other # m => AtRest(other)) /\ PollerIsRight(m)
               /\ (AtRest(m) => FlagsOfState(link.state, link.error, link.health)) =>
              /\ PollerIsRight(m)'
              /\ place \in {"new", "resting", "ended"} => FlagsOfState(link'.state, link'.error, link'.health)
    PROVE  BohInv'
<1>1. /\ poller' \in [Managers -> [at: PollerPlaces, next: LinkStates \cup {"none"}]]
      /\ \A n \in Managers : n # m => poller'[n] = poller[n]
      /\ poller'[m] = [at |-> place, next |-> next]
  BY DEF BohInv
<1>2. \A n \in Managers : poller'[n].at = "settling" => poller'[n].next \in LinkStates
  BY <1>1 DEF BohInv
<1>3. ASSUME lone'
      PROVE  /\ \A n, o \in Managers : Running(n)' /\ Running(o)' => n = o
             /\ \A n \in Managers : PollerIsRight(n)'
             /\ (\A n \in Managers : AtRest(n)') => FlagsOfState(link.state, link.error, link.health)'
  <2>1. lone
    BY <1>3
  <2>2. \A n \in Managers : n # m => ~Running(n)
    BY <1>3, <2>1 DEF BohInv
  <2>2a. \A n \in Managers : n # m => AtRest(n) /\ poller[n].at \in {"new", "ended"}
    BY <2>2 DEF Running, AtRest
  <2>3. \A n \in Managers : n # m => ~Running(n)' /\ PollerIsRight(n)'
    BY <1>1, <2>2a DEF Running, PollerIsRight
  <2>4. PollerIsRight(m) /\ (AtRest(m) => FlagsOfState(link.state, link.error, link.health))
    <3>1. AtRest(m) => \A n \in Managers : AtRest(n)
      BY <2>2a
    <3> QED  BY <2>1, <3>1 DEF BohInv
  <2>5. /\ PollerIsRight(m)'
        /\ place \in {"new", "resting", "ended"} => FlagsOfState(link'.state, link'.error, link'.health)
    BY <1>3, <2>2a, <2>4
  <2>6. AtRest(m)' => place \in {"new", "resting", "ended"}
    BY <1>1 DEF AtRest
  <2>7. FlagsOfState(link'.state, link'.error, link'.health) = FlagsOfState(link.state, link.error, link.health)'
    BY DEF FlagsOfState
  <2> QED  BY <2>3, <2>5, <2>6, <2>7
<1> QED  BY <1>1, <1>2, <1>3 DEF BohInv

(* A poller that finds something out sets the flags and goes on. *)
LEMMA PollerFinds ==
    ASSUME BohInv, NEW m \in Managers, NEW place, NEW next \in LinkStates \cup {"none"}, Running(m), OnlyPoller,
           Goto(m, place, next),
           place \in {"health", "status", "probe", "settling"},
           place = "settling" => next \in LinkStates,
           DOMAIN link' = DOMAIN link, link' = [f \in DOMAIN link |-> link'[f]],
           link'.state = link.state, link'.events = link.events,
           link'.error \in BOOLEAN, link'.health \in BOOLEAN,
           PollerIsRight(m) =>
              /\ place \in {"status", "probe"} => link'.health
              /\ place = "settling" => FlagsOfState(next, link'.error, link'.health)
    PROVE  BohInv'
<1>1. IsLink(link')
  BY FlagsAreApart DEF BohInv
<1>2. poller' = [poller EXCEPT ![m] = [at |-> place, next |-> next]] /\ lone' = lone
  BY DEF Goto, OnlyPoller
<1>3. PollerIsRight(m) => PollerIsRight(m)'
  <2>1. poller'[m] = [at |-> place, next |-> next]
    BY <1>2 DEF BohInv
  <2> QED  BY <2>1 DEF PollerIsRight
<1>4. place \notin {"new", "resting", "ended"} /\ place \in PollerPlaces
  BY DEF PollerPlaces
<1> QED  BY <1>1, <1>2, <1>3, <1>4, PollerMoves

LEMMA BohStepKeepsInv ==
    ASSUME BohInv, [BohNext]_bohVars
    PROVE  BohInv'
<1>0. /\ IsLink(link)
      /\ DOMAIN link = {"enabled", "state", "error", "health", "events"}
      /\ link = [f \in DOMAIN link |-> link[f]]
      /\ link.error \in BOOLEAN /\ link.health \in BOOLEAN
  BY DEF BohInv, IsLink
<1>1. ASSUME NEW m \in Managers, NEW from, NEW next \in {"degraded", "disconnected", "auth_failed"},
             NEW health \in BOOLEAN, from \in {"health", "status", "probe"}, Concludes(m, from, next, health)
      PROVE  BohInv'
  <2>1. /\ link' = [link EXCEPT !.error = TRUE, !.health = health]
        /\ Goto(m, "settling", next) /\ OnlyPoller /\ Running(m)
    BY <1>1 DEF Concludes, Running
  <2>2. /\ DOMAIN link' = DOMAIN link /\ link' = [f \in DOMAIN link |-> link'[f]]
        /\ link'.state = link.state /\ link'.events = link.events
        /\ link'.error = TRUE /\ link'.health = health
    BY <1>0, <2>1
  <2>3. FlagsOfState(next, link'.error, link'.health) /\ next \in LinkStates
    BY <2>2 DEF FlagsOfState, LinkStates
  <2> QED  BY <2>1, <2>2, <2>3, PollerFinds
<1>2. ASSUME NEW m \in Managers, NEW from, NEW to \in {"status", "probe"},
             NEW health \in BOOLEAN, from \in {"health", "status", "probe"}, Proceeds(m, from, to, health),
             PollerIsRight(m) => health
      PROVE  BohInv'
  <2>1. /\ link' = [link EXCEPT !.health = health]
        /\ Goto(m, to, "none") /\ OnlyPoller /\ Running(m)
    BY <1>2 DEF Proceeds, Running
  <2>2. /\ DOMAIN link' = DOMAIN link /\ link' = [f \in DOMAIN link |-> link'[f]]
        /\ link'.state = link.state /\ link'.events = link.events
        /\ link'.error = link.error /\ link'.health = health
    BY <1>0, <2>1
  <2> QED  BY <1>0, <1>2, <2>1, <2>2, PollerFinds
<1>3. CASE StartDisabled
  <2> DEFINE l == InState(link, "disabled")
  <2>1. IsLink(l) /\ l.state = "disabled"
    BY <1>0, ChainGrows DEF LinkStates
  <2>2. link' = [l EXCEPT !.enabled = FALSE] /\ UNCHANGED <<poller, lone>>
    BY <1>3 DEF StartDisabled
  <2> HIDE DEF l
  <2>3. /\ DOMAIN l = {"enabled", "state", "error", "health", "events"}
        /\ l.error \in BOOLEAN /\ l.health \in BOOLEAN
    BY <2>1 DEF IsLink
  <2>4. /\ DOMAIN link' = DOMAIN l /\ link' = [f \in DOMAIN l |-> link'[f]]
        /\ link'.state = l.state /\ link'.events = l.events
        /\ link'.error = l.error /\ link'.health = l.health
    BY <2>2, <2>3
  <2>5. IsLink(link')
    BY <2>1, <2>3, <2>4, FlagsAreApart
  <2>6. link'.error = link.error /\ link'.health = link.health
    <3> USE DEF l
    <3>1. l.error = link.error /\ l.health = link.health
      BY <1>0, ChainGrows DEF LinkStates
    <3> HIDE DEF l
    <3> QED  BY <2>4, <3>1
  <2> QED  BY <2>1, <2>2, <2>4, <2>5, <2>6
           DEF BohInv, PollerIsRight, AtRest, Running, FlagsOfState
<1>4. ASSUME NEW m \in Managers, StartLink(m) PROVE BohInv'
  <2> DEFINE l == InState(link, "connecting")
  <2>1. IsLink(l) /\ l.state = "connecting"
    BY <1>0, ChainGrows DEF LinkStates
  <2>2. /\ link' = [l EXCEPT !.enabled = TRUE]
        /\ poller' = [poller EXCEPT ![m].at = "resting"]
        /\ lone' = (lone /\ \A other \in Managers : ~Running(other))
    BY <1>4 DEF StartLink
  <2> HIDE DEF l
  <2>3. /\ DOMAIN l = {"enabled", "state", "error", "health", "events"}
        /\ l.error \in BOOLEAN /\ l.health \in BOOLEAN
    BY <2>1 DEF IsLink
  <2>4. /\ DOMAIN link' = DOMAIN l /\ link' = [f \in DOMAIN l |-> link'[f]]
        /\ link'.state = l.state /\ link'.events = l.events
        /\ link'.error = l.error /\ link'.health = l.health
    BY <2>2, <2>3
  <2>5. IsLink(link')
    BY <2>1, <2>3, <2>4, FlagsAreApart
  <2>6. FlagsOfState(link'.state, link'.error, link'.health)
    BY <2>1, <2>4 DEF FlagsOfState
  <2>7. /\ poller' \in [Managers -> [at: PollerPlaces, next: LinkStates \cup {"none"}]]
        /\ \A n \in Managers : n # m => poller'[n] = poller[n]
        /\ poller'[m].at = "resting"
    BY <2>2 DEF BohInv, PollerPlaces
  <2>8. lone' => \A n \in Managers : ~Running(n)
    BY <2>2
  <2> QED  BY <2>2, <2>5, <2>6, <2>7, <2>8
           DEF BohInv, PollerIsRight, AtRest, Running, FlagsOfState
<1>5. CASE StopLink
  BY <1>5 DEF StopLink, BohInv, PollerIsRight, AtRest, Running, FlagsOfState, IsLink, ChainOfEvents
<1>6. CASE Retrieves
  BY <1>6 DEF Retrieves, BohInv, PollerIsRight, AtRest, Running, FlagsOfState, IsLink, ChainOfEvents
<1>7. ASSUME NEW m \in Managers, PollerEnds(m) PROVE BohInv'
  <2>1. /\ poller[m].at = "resting" /\ link' = link /\ lone' = lone
        /\ poller' = [poller EXCEPT ![m] = [at |-> "ended", next |-> "none"]]
    BY <1>7 DEF PollerEnds, Goto, OnlyPoller
  <2>2. Running(m) /\ AtRest(m) /\ "ended" \in PollerPlaces /\ IsLink(link')
    BY <1>0, <2>1 DEF Running, AtRest, PollerPlaces
  <2>3. PollerIsRight(m)'
    <3>1. poller'[m].at = "ended"
      BY <2>1 DEF BohInv
    <3> QED  BY <3>1 DEF PollerIsRight
  <2> QED  BY <1>0, <2>1, <2>2, <2>3, PollerMoves
<1>8. ASSUME NEW m \in Managers, Probes(m) PROVE BohInv'
  <2>1. Running(m) /\ OnlyPoller
    BY <1>8 DEF Probes, Running
  <2>2. CASE link' = [link EXCEPT !.enabled = TRUE] /\ Goto(m, "health", "none")
    <3>1. /\ DOMAIN link' = DOMAIN link /\ link' = [f \in DOMAIN link |-> link'[f]]
          /\ link'.state = link.state /\ link'.events = link.events
          /\ link'.error = link.error /\ link'.health = link.health
      BY <1>0, <2>2
    <3> QED  BY <1>0, <2>1, <2>2, <3>1, PollerFinds
  <2>3. CASE link' = [link EXCEPT !.enabled = TRUE, !.error = TRUE] /\ Goto(m, "settling", "auth_failed")
    <3>1. /\ DOMAIN link' = DOMAIN link /\ link' = [f \in DOMAIN link |-> link'[f]]
          /\ link'.state = link.state /\ link'.events = link.events
          /\ link'.error = TRUE /\ link'.health = link.health
      BY <1>0, <2>3
    <3>2. "auth_failed" \in LinkStates /\ FlagsOfState("auth_failed", link'.error, link'.health)
      BY <3>1 DEF LinkStates, FlagsOfState
    <3> QED  BY <1>0, <2>1, <2>3, <3>1, <3>2, PollerFinds
  <2> QED  BY <1>8, <2>2, <2>3 DEF Probes
<1>9. ASSUME NEW m \in Managers, Health(m) PROVE BohInv'
  BY <1>1, <1>2, <1>9 DEF Health
<1>10. ASSUME NEW m \in Managers, Status(m) PROVE BohInv'
  <2>1. CASE Concludes(m, "status", "auth_failed", link.health)
    BY <1>0, <1>1, <2>1
  <2>2. CASE Proceeds(m, "status", "probe", link.health)
    <3>1. PollerIsRight(m) => link.health
      BY <2>2 DEF Proceeds, PollerIsRight
    <3> QED  BY <1>0, <1>2, <2>2, <3>1
  <2> QED  BY <1>10, <2>1, <2>2 DEF Status
<1>11. ASSUME NEW m \in Managers, Probe(m) PROVE BohInv'
  <2>1. CASE /\ poller[m].at = "probe" /\ link' = [link EXCEPT !.error = FALSE]
             /\ Goto(m, "settling", "connected") /\ OnlyPoller
    <3>1. /\ DOMAIN link' = DOMAIN link /\ link' = [f \in DOMAIN link |-> link'[f]]
          /\ link'.state = link.state /\ link'.events = link.events
          /\ link'.error = FALSE /\ link'.health = link.health
      BY <1>0, <2>1
    <3>2. PollerIsRight(m) => FlagsOfState("connected", link'.error, link'.health)
      BY <2>1, <3>1 DEF FlagsOfState, PollerIsRight
    <3>3. Running(m) /\ "connected" \in LinkStates
      BY <2>1 DEF Running, LinkStates
    <3> QED  BY <1>0, <2>1, <3>1, <3>2, <3>3, PollerFinds
  <2> QED  BY <1>0, <1>1, <1>11, <2>1 DEF Probe
<1>12. ASSUME NEW m \in Managers, ProbeRaises(m) PROVE BohInv'
  BY <1>0, <1>1, <1>12 DEF ProbeRaises
<1>13. ASSUME NEW m \in Managers, Settles(m) PROVE BohInv'
  <2>1. /\ poller[m].at = "settling" /\ link' = InState(link, poller[m].next) /\ lone' = lone
        /\ poller' = [poller EXCEPT ![m] = [at |-> "resting", next |-> "none"]]
    BY <1>13 DEF Settles, Goto, OnlyPoller
  <2>2. poller[m].next \in LinkStates /\ Running(m)
    BY <2>1 DEF BohInv, Running
  <2>3. /\ IsLink(link') /\ link'.state = poller[m].next
        /\ link'.error = link.error /\ link'.health = link.health
    BY <1>0, <2>1, <2>2, ChainGrows
  <2>4. PollerIsRight(m)'
    <3>1. poller'[m].at = "resting"
      BY <2>1 DEF BohInv
    <3> QED  BY <3>1 DEF PollerIsRight
  <2>5. PollerIsRight(m) => FlagsOfState(link'.state, link'.error, link'.health)
    BY <2>1, <2>3 DEF PollerIsRight
  <2>6. "resting" \in PollerPlaces
    BY DEF PollerPlaces
  <2> QED  BY <2>1, <2>2, <2>3, <2>4, <2>5, <2>6, PollerMoves
<1>14. CASE UNCHANGED bohVars
  BY <1>14 DEF bohVars, BohInv, PollerIsRight, AtRest, Running, FlagsOfState, IsLink, ChainOfEvents
<1> QED
  BY <1>3, <1>4, <1>5, <1>6, <1>7, <1>8, <1>9, <1>10, <1>11, <1>12, <1>13, <1>14 DEF BohNext, PollerStep

(* While no two pollers have run at once, the record of the link is consistent whenever no *)
(* poller is on its way: for any number of pollers and any limit of the events.            *)
THEOREM LinkIsConsistentHolds == BohSpec => []LinkIsConsistent
<1>1. BohInit => BohInv
  <2> SUFFICES ASSUME BohInit PROVE BohInv
    OBVIOUS
  <2>1. IsLink(link)
    BY BohLinkAssumption DEF BohInit, Link, IsLink, ChainOfEvents, LinkStates
  <2> QED  BY <2>1 DEF BohInit, BohInv, NoPoller, PollerPlaces, Link, PollerIsRight, Running, AtRest, FlagsOfState
<1>2. BohInv /\ [BohNext]_bohVars => BohInv'
  BY BohStepKeepsInv
<1>3. BohInv => LinkIsConsistent
  BY LenProperties DEF BohInv, LinkIsConsistent, IsLink, ChainOfEvents, AtRest, FlagsOfState
<1> QED  BY <1>1, <1>2, <1>3, PTL DEF BohSpec

(* Whatever a retrieval reports, an answer is called sourced only if there was evidence. *)
THEOREM SourcedHasEvidenceHolds == BohSpec => []SourcedHasEvidence
<1>1. BohInit => SourcedHasEvidence
  BY DEF BohInit, NoAnswer, SourcedHasEvidence
<1>2. SourcedHasEvidence /\ [BohNext]_bohVars => SourcedHasEvidence'
  <2> SUFFICES ASSUME SourcedHasEvidence, [BohNext]_bohVars PROVE SourcedHasEvidence'
    OBVIOUS
  <2>1. CASE Retrieves
    BY <2>1 DEF Retrieves, SourceLabel, SourcedHasEvidence
  <2>2. CASE UNCHANGED answers
    BY <2>2 DEF SourcedHasEvidence
  <2> QED
    BY <2>1, <2>2
       DEF BohNext, bohVars, StartDisabled, StartLink, StopLink, PollerStep, OnlyPoller, PollerEnds, Probes,
           Health, Status, Probe, ProbeRaises, Settles, Concludes, Proceeds
<1> QED  BY <1>1, <1>2, PTL DEF BohSpec

(* An answer called sourced has its source: what BOH returned with the     *)
(* evidence asked for, or data a server answered within the lifetime of    *)
(* the cache.                                                              *)
THEOREM SourcedIsEarnedHolds == BohSpec /\ McpSpec => []SourcedIsEarned
<1>1. SourcedHasEvidence /\ SourcedDataIsFresh => SourcedIsEarned
  BY DEF SourcedIsEarned
<1> QED  BY <1>1, SourcedHasEvidenceHolds, SourcedDataStaysFresh, PTL

=============================================================================
