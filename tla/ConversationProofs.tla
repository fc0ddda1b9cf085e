------------------------- MODULE ConversationProofs -------------------------
(***************************************************************************)
(* Proofs about Conversation, for any sessions, clients, threads and       *)
(* bounds: the handlers use the playback queue only in the ways that       *)
(* PlaybackQueue allows, and what store, queue, handlers and browser know  *)
(* of each other agrees.                                                   *)
(*                                                                         *)
(* The queue's own invariant comes from PlaybackQueueProofs, instantiated  *)
(* here as Conversation instantiates PlaybackQueue (QP beside Queue); the  *)
(* store's from SessionStoreProofs.  What is added is about the requests:  *)
(* a token is worked on by one thread, an item that was handed to a        *)
(* browser is the active one or over, and an item whose end is being       *)
(* reported is not what the browser has now.                               *)
(***************************************************************************)
EXTENDS Conversation, SessionStoreProofs, FiniteSetTheorems

QP == INSTANCE PlaybackQueueProofs WITH
            Sessions   <- SessionIds,
            TokenLimit <- TurnLimit,
            current    <- {tok \in tokens : Accepts(tok)},
            issued     <- tokens

Current == {tok \in tokens : Accepts(tok)}

(* The assumptions of PlaybackQueue hold of the instance. *)
LEMMA QueueIsBounded ==
    /\ MaxQueued \in Nat \ {0} /\ MaxTerminal \in Nat \ {0}
    /\ MaxCommands \in Nat \ {0} /\ MaxTombstones \in Nat \ {0}
    /\ ItemLimit \in Nat /\ TurnLimit \in Nat /\ GenerationLimit \in Nat
BY QueueHasBounds, BoundsArePositive
-----------------------------------------------------------------------------
(***************************************************************************)
(* Queue and QP are the same                                               *)
(***************************************************************************)
LEMMA SameOperators ==
    /\ Queue!NoItem = 0 /\ QP!NoItem = 0
    /\ QP!LiveItems = Queue!LiveItems
    /\ \A seq : QP!ElementsOf(seq) = Queue!ElementsOf(seq)
    /\ \A s : QP!Tombstone(s) = Queue!Tombstone(s)
    /\ \A s : QP!InferredFloor(s) = Queue!InferredFloor(s)
    /\ QP!TerminalStates = Queue!TerminalStates
    /\ QP!TypeOK <=> Queue!TypeOK
BY DEF Queue!NoItem, QP!NoItem, QP!LiveItems, Queue!LiveItems, QP!TerminalStates, Queue!TerminalStates,
       QP!ElementsOf, Queue!ElementsOf, QP!Tombstone, Queue!Tombstone, QP!InferredFloor, Queue!InferredFloor,
       QP!TypeOK, Queue!TypeOK, QP!PlaybackItem, Queue!PlaybackItem, QP!PlaybackState, Queue!PlaybackState,
       QP!TurnToken, Queue!TurnToken

LEMMA SameEnqueue ==
    ASSUME NEW c, NEW tok PROVE Queue!Enqueue(c, tok) <=> QP!Enqueue(c, tok)
BY SameOperators DEF Queue!Enqueue, QP!Enqueue

LEMMA SameStopCommand ==
    ASSUME NEW c PROVE Queue!StopCommand(c) <=> QP!StopCommand(c)
BY DEF Queue!StopCommand, QP!StopCommand

LEMMA SameDiscard ==
    ASSUME NEW c, NEW n PROVE Queue!Discard(c, n) <=> QP!Discard(c, n)
BY DEF Queue!Discard, QP!Discard, Queue!Playable, QP!Playable, Queue!SetTerminal, QP!SetTerminal,
       Queue!Only, QP!Only, Queue!Newest, QP!Newest, Queue!ElementsOf, QP!ElementsOf,
       Queue!InState, QP!InState

LEMMA SamePlayCommand ==
    ASSUME NEW c PROVE Queue!PlayCommand(c) <=> QP!PlayCommand(c)
BY SameDiscard DEF Queue!PlayCommand, QP!PlayCommand, Queue!Playable, QP!Playable, Queue!NoItem, QP!NoItem

LEMMA SameNoCommand ==
    ASSUME NEW c PROVE Queue!NoCommand(c) <=> QP!NoCommand(c)
BY SameDiscard DEF Queue!NoCommand, QP!NoCommand, Queue!NoItem, QP!NoItem

LEMMA SameAckStarted ==
    ASSUME NEW c, NEW p PROVE Queue!AckStarted(c, p) <=> QP!AckStarted(c, p)
BY DEF Queue!AckStarted, QP!AckStarted, Queue!CanStart, QP!CanStart, Queue!Playable, QP!Playable

LEMMA SameAckFinished ==
    ASSUME NEW c, NEW p, NEW state
    PROVE  Queue!AckFinished(c, p, state) <=> QP!AckFinished(c, p, state)
BY DEF Queue!AckFinished, QP!AckFinished, Queue!CanFinish, QP!CanFinish,
       Queue!SetTerminal, QP!SetTerminal, Queue!Newest, QP!Newest, Queue!ElementsOf, QP!ElementsOf,
       Queue!LiveItems, QP!LiveItems, Queue!TerminalStates, QP!TerminalStates, Queue!NoItem, QP!NoItem

LEMMA SameCancelSession ==
    ASSUME NEW s, NEW floor PROVE Queue!CancelSession(s, floor) <=> QP!CancelSession(s, floor)
BY DEF Queue!CancelSession, QP!CancelSession, Queue!Remember, QP!Remember, Queue!Only, QP!Only,
       Queue!InState, QP!InState, Queue!SetTerminal, QP!SetTerminal,
       Queue!InCreationOrder, QP!InCreationOrder, Queue!Cardinality, QP!Cardinality,
       Queue!WithStop, QP!WithStop, Queue!Newest, QP!Newest, Queue!ElementsOf, QP!ElementsOf,
       Queue!Tombstone, QP!Tombstone, Queue!LiveItems, QP!LiveItems,
       Queue!TerminalStates, QP!TerminalStates, Queue!NoItem, QP!NoItem

LEMMA SameStore == Queue!Store <=> QP!Store
<1>1. ASSUME NEW s, NEW g PROVE Queue!HandOut(s, g) <=> QP!HandOut(s, g)
  BY DEF Queue!HandOut, QP!HandOut, Queue!queue_vars, QP!queue_vars, Queue!Cardinality, QP!Cardinality
<1>2. ASSUME NEW tok PROVE Queue!GoStale(tok) <=> QP!GoStale(tok)
  BY DEF Queue!GoStale, QP!GoStale, Queue!queue_vars, QP!queue_vars
<1> QED  BY <1>1, <1>2 DEF Queue!Store, QP!Store

LEMMA SameNext ==
    /\ Queue!QueueCall <=> QP!QueueCall
    /\ Queue!Next <=> QP!Next
    /\ Queue!vars = QP!vars
    /\ Queue!Init <=> QP!Init
<1>1. Queue!QueueCall <=> QP!QueueCall
  BY SameOperators, SameEnqueue, SameStopCommand, SamePlayCommand, SameNoCommand, SameAckStarted,
     SameAckFinished, SameCancelSession
     DEF Queue!QueueCall, QP!QueueCall, Queue!NextCommand, QP!NextCommand
<1>2. Queue!vars = QP!vars /\ (Queue!Init <=> QP!Init)
  BY DEF Queue!vars, QP!vars, Queue!queue_vars, QP!queue_vars, Queue!Init, QP!Init,
         Queue!NoItem, QP!NoItem
<1> QED  BY <1>1, <1>2, SameStore DEF Queue!Next, QP!Next


LEMMA SameSteps ==
    [Queue!Next]_Queue!vars <=> [QP!Next]_QP!vars
<1>1. UNCHANGED Queue!vars <=> UNCHANGED QP!vars
  BY DEF Queue!vars, QP!vars, Queue!queue_vars, QP!queue_vars
<1> QED  BY <1>1, SameNext
-----------------------------------------------------------------------------
(***************************************************************************)
(* What the store's calls do to the tokens                                 *)
(***************************************************************************)

(* A current token is that of the newest turn of its session.              *)
CurrentTurnsAreNewest ==
    \A tok \in tokens :
       Accepts(tok) =>
          /\ tok.session \in SessionIds
          /\ Len(turns[tok.session]) \in LiveTurns(tok.session)
          /\ turns[tok.session][Len(turns[tok.session])].id = tok.turn
          /\ StageOf(tok) = turns[tok.session][Len(turns[tok.session])].stage
          /\ StageOf(tok) \in LiveStages
          /\ \A i \in LiveTurns(tok.session) : i = Len(turns[tok.session])

LEMMA CurrentTurn ==
    IInv => CurrentTurnsAreNewest
<1> SUFFICES ASSUME IInv, NEW tok \in tokens, Accepts(tok)
             PROVE  /\ tok.session \in SessionIds
                    /\ Len(turns[tok.session]) \in LiveTurns(tok.session)
                    /\ turns[tok.session][Len(turns[tok.session])].id = tok.turn
                    /\ StageOf(tok) = turns[tok.session][Len(turns[tok.session])].stage
                    /\ StageOf(tok) \in LiveStages
                    /\ \A i \in LiveTurns(tok.session) : i = Len(turns[tok.session])
  BY DEF CurrentTurnsAreNewest
<1> DEFINE s == tok.session
           n == Len(turns[s])
<1>1. s \in SessionIds
  BY DEF IInv, TypeOK, TurnToken
<1>2. \A i \in LiveTurns(s) : i = n
  BY <1>1 DEF IInv, UnfinishedTurnIsCurrent
<1>3. PICK i \in LiveTurns(s) : turns[s][i].id = tok.turn
  BY DEF Accepts
<1>4. i = n
  BY <1>2, <1>3
<1>5. n \in LiveTurns(s) /\ turns[s][n].id = tok.turn /\ turns[s][n].stage \in LiveStages
  BY <1>3, <1>4 DEF LiveTurns
<1>6. StageOf(tok) = turns[s][n].stage
  <2>1. (CHOOSE k \in LiveTurns(s) : turns[s][k].id = tok.turn) = n
    <3> HIDE DEF n, s
    <3> QED  BY <1>2, <1>5
  <2> QED  BY <2>1 DEF StageOf
<1> QED  BY <1>1, <1>2, <1>5, <1>6

LEMMA CurrentTurnNext ==
    IInv' => CurrentTurnsAreNewest'
BY CurrentTurn, PTL

LEMMA OneCurrentToken ==
    ASSUME IInv, NEW a \in tokens, NEW b \in tokens, Accepts(a), Accepts(b), a.session = b.session
    PROVE  a = b
<1>1. a.turn = b.turn
  BY CurrentTurn DEF CurrentTurnsAreNewest
<1> QED  BY <1>1 DEF IInv, TokensAreDistinct

(* A token that is as current as before, at the same stage, or stale.      *)
Undisturbed(tok) == Accepts(tok)' => Accepts(tok) /\ StageOf(tok)' = StageOf(tok)

LEMMA SameTurnsUndisturbed ==
    ASSUME IInv, Next, NEW tok \in tokens, turns'[tok.session] = turns[tok.session]
    PROVE  Undisturbed(tok)
<1>1. StageOf(tok)' = StageOf(tok)
  BY DEF StageOf, LiveTurns
<1> QED  BY <1>1, StepRevivesNothing DEF Undisturbed

LEMMA TransitionIsNext ==
    ASSUME NEW tok \in tokens, NEW stage \in TurnStage, Transition(tok, stage)
    PROVE  Next
BY DEF Next, TokenCall

LEMMA TransitionDisturbs ==
    ASSUME FenceInv, FenceInv', NEW tok \in tokens, NEW stage \in TurnStage, Transition(tok, stage)
    PROVE  /\ \A other \in tokens \ {tok} : Undisturbed(other)
           /\ Accepts(tok)' => StageOf(tok)' = stage
<1>1. Next /\ IInv /\ IInv' /\ Accepts(tok)
  BY TransitionIsNext DEF FenceInv, Transition
<1>2. ASSUME NEW other \in tokens \ {tok} PROVE Undisturbed(other)
  <2>1. CASE other.session = tok.session
    <3>1. ~Accepts(other)
      BY <1>1, <2>1, OneCurrentToken
    <3> QED  BY <1>1, <3>1, StepRevivesNothing DEF Undisturbed
  <2>2. CASE other.session # tok.session
    <3>1. other.session \in SessionIds
      BY <1>1 DEF IInv, TypeOK, TurnToken
    <3>2. turns'[other.session] = turns[other.session]
      BY <2>2, <3>1, TransitionFacts
    <3> QED  BY <1>1, <3>2, SameTurnsUndisturbed
  <2> QED  BY <2>1, <2>2
<1>3. ASSUME Accepts(tok)' PROVE StageOf(tok)' = stage
  <2> DEFINE s == tok.session
  <2>1. tok \in tokens'
    BY TransitionFacts
  <2>2. /\ StageOf(tok)' = turns'[s][Len(turns'[s])].stage
        /\ \A i \in LiveTurns(s) : i = Len(turns[s])
    BY <1>1, <1>3, <2>1, CurrentTurn, CurrentTurnNext DEF CurrentTurnsAreNewest
  <2>3. PICK i \in LiveTurns(s) : Len(turns'[s]) = Len(turns[s]) /\ turns'[s][i].stage = stage
    BY TransitionFacts
  <2> QED  BY <2>2, <2>3
<1> QED  BY <1>2, <1>3

LEMMA AppendDisturbs ==
    ASSUME IInv, NEW tok \in tokens, NEW role \in Roles, AppendMessage(tok, role)
    PROVE  Next /\ \A other \in tokens : Undisturbed(other)
<1>1. Next
  BY DEF Next, TokenCall, SetTranscript, CommitAssistantText, Roles
<1>2. turns' = turns
  BY DEF AppendMessage
<1> QED  BY <1>1, <1>2, SameTurnsUndisturbed

LEMMA CreateDisturbs ==
    ASSUME IInv, NEW s \in SessionIds, CreateSession(s)
    PROVE  Next /\ \A other \in tokens : Undisturbed(other)
<1>1. Next
  BY DEF Next, SessionCall
<1>2. turns' = turns
  BY DEF CreateSession
<1> QED  BY <1>1, <1>2, SameTurnsUndisturbed

LEMMA StopDisturbs ==
    ASSUME IInv, NEW s \in SessionIds, Cancel(s) \/ CloseSession(s)
    PROVE  Next /\ \A other \in tokens : Undisturbed(other)
<1>1. Next
  BY DEF Next, SessionCall
<1>2. /\ generation' = [generation EXCEPT ![s] = @ + 1]
      /\ \A other \in SessionIds \ {s} : turns'[other] = turns[other]
  BY DEF Cancel, CloseSession, IInv, TypeOK
<1>3. ASSUME NEW other \in tokens PROVE Undisturbed(other)
  <2>1. other.session \in SessionIds
    BY DEF IInv, TypeOK, TurnToken
  <2>2. CASE other.session = s
    BY <1>2, <2>2, RaisedGeneration DEF Undisturbed
  <2>3. CASE other.session # s
    BY <1>1, <1>2, <2>1, <2>3, SameTurnsUndisturbed
  <2> QED  BY <2>2, <2>3
<1> QED  BY <1>1, <1>3

(* begin_turn hands out a token of its own, the only current one of its    *)
(* session.                                                                *)
Began(s) == [session |-> s, turn |-> turn_ids + 1, generation |-> generation[s]]

LEMMA BeginDisturbs ==
    ASSUME FenceInv, FenceInv', NEW s \in SessionIds, NEW stage \in LiveStages,
           NEW with_text \in BOOLEAN, BeginTurn(s, stage, with_text)
    PROVE  /\ Next
           /\ \A other \in tokens : Undisturbed(other)
           /\ \E tok :
                 /\ tok = Began(s) /\ tok \notin tokens /\ tokens' = tokens \cup {tok}
                 /\ (CHOOSE new \in tokens' : new.turn = turn_ids') = tok
                 /\ Accepts(tok)' /\ StageOf(tok)' = stage
           /\ \A other \in tokens :
                 other.session = s => ~Accepts(other) /\ other.generation <= generation[s]
<1> DEFINE turn == [id |-> turn_ids + 1, generation |-> generation[s], stage |-> stage]
<1>0. PICK tok : tok = Began(s)
  OBVIOUS
<1>1. Next /\ IInv /\ IInv'
  BY DEF Next, SessionCall, FenceInv
<1>2. /\ turn_ids \in Nat /\ generation[s] \in Nat /\ turns[s] \in Seq(TurnSnapshot)
      /\ \A other \in tokens : other.turn \in Nat /\ other.turn <= turn_ids /\ other.session \in SessionIds
  BY <1>1 DEF IInv, TypeOK, TokensAreDistinct, TurnToken
<1>3. tok.turn = turn_ids + 1 /\ tok.session = s /\ tok.generation = generation[s]
  BY <1>0 DEF Began
<1>4. /\ turn \in TurnSnapshot
      /\ turn.id = turn_ids + 1 /\ turn.generation = generation[s] /\ turn.stage = stage
  BY <1>2 DEF TurnSnapshot, TurnStage
<1>5. /\ status[s] = "active" /\ LiveTurns(s) = {}
      /\ tokens' = tokens \cup {tok}
      /\ turns' = [turns EXCEPT ![s] = Push(@, turn, MaxTurns)]
      /\ turn_ids' = turn_ids + 1 /\ UNCHANGED <<status, generation>>
  BY <1>0 DEF BeginTurn, TokenOf, Began
<1> HIDE DEF turn
<1>6. tok \notin tokens
  BY <1>2, <1>3
<1>7. ASSUME NEW other \in tokens PROVE Undisturbed(other)
  <2>1. CASE other.session = s
    <3>1. ~Accepts(other)
      BY <1>5, <2>1 DEF Accepts
    <3> QED  BY <1>1, <3>1, StepRevivesNothing DEF Undisturbed
  <2>2. CASE other.session # s
    <3>1. turns'[other.session] = turns[other.session]
      BY <1>2, <1>5, <2>2
    <3> QED  BY <1>1, <3>1, SameTurnsUndisturbed
  <2> QED  BY <2>1, <2>2
<1>8. (CHOOSE t \in tokens' : t.turn = turn_ids') = tok
  <2>1. \A t \in tokens' : t.turn = turn_ids' <=> t = tok
    BY <1>2, <1>3, <1>5
  <2> QED  BY <1>5, <2>1
<1>9. LET n == Len(turns'[s])
      IN  n \in LiveTurns(s)' /\ turns'[s][n] = turn
  <2> DEFINE pushed == Push(turns[s], turn, MaxTurns)
  <2>1. turns'[s] = pushed
    BY <1>1, <1>5 DEF IInv, TypeOK
  <2>2. /\ pushed \in Seq(TurnSnapshot) /\ pushed[Len(pushed)] = turn
        /\ \E d \in {0, 1} : Len(pushed) = Len(turns[s]) + 1 - d /\ d <= Len(turns[s])
    BY <1>2, <1>4, PushFacts, BoundsArePositive
  <2>3. Len(turns[s]) \in Nat
    BY <1>2, LenProperties
  <2> HIDE DEF pushed
  <2>4. Len(pushed) \in Nat \ {0} /\ DOMAIN pushed = 1 .. Len(pushed)
    BY <2>2, <2>3, LenProperties
  <2>5. Len(pushed) \in DOMAIN pushed
    BY <2>4
  <2> QED  BY <1>4, <2>1, <2>2, <2>5 DEF LiveTurns
<1>10. Accepts(tok)'
  BY <1>3, <1>4, <1>5, <1>9 DEF Accepts
<1>11. StageOf(tok)' = stage
  <2>1. tok \in tokens'
    BY <1>5
  <2>2. StageOf(tok)' = turns'[s][Len(turns'[s])].stage
    BY <1>1, <1>3, <1>10, <2>1, CurrentTurnNext DEF CurrentTurnsAreNewest
  <2> QED  BY <1>4, <1>9, <2>2
<1>12. \A other \in tokens :
          other.session = s => ~Accepts(other) /\ other.generation <= generation[s]
  BY <1>1, <1>5 DEF Accepts, IInv, TokensAreDistinct
<1> QED  BY <1>0, <1>1, <1>5, <1>6, <1>7, <1>8, <1>10, <1>11, <1>12

-----------------------------------------------------------------------------
(***************************************************************************)
(* The inductive invariant                                                 *)
(***************************************************************************)
TokenPlaces == {"transcribing", "transcribed", "thinking", "answered", "synthesizing", "queued",
                "escaped"}
StopPlaces == {"stopping", "closing"}
ReportPlaces == {"reported", "found", "acknowledged"}
Reports == {"started", "completed", "failed"}
PlayingPhases == {"none", "loading", "confirming", "started"}

(* What a request carries, wherever it stands. *)
IsRequest(r) ==
    \/ r = Idle
    \/ /\ r \in [at: TokenPlaces, kind: {"typed", "spoken", "preview"}, tok: TurnToken]
       /\ r.tok \in tokens
    \/ r \in [at: {"stopping"}, session: SessionIds, floor: 0 .. GenerationLimit]
    \/ r \in [at: {"closing"}, session: SessionIds]
    \/ r \in [at: {"reported"}, client: Clients, item: Nat, state: Reports]
    \/ r \in [at: {"found", "acknowledged"}, client: Clients, item: Nat, state: Reports,
              before: Queue!PlaybackState]

WorksOn(t, tok) == request[t].at \in TokenPlaces /\ request[t].tok = tok

RequestsAreShaped ==
    /\ request = [t \in Threads |-> request[t]]
    /\ \A t \in Threads : IsRequest(request[t])
    /\ \A t, u \in Threads : \A tok \in tokens : WorksOn(t, tok) /\ WorksOn(u, tok) => t = u

(* The stage in which a request at this place has left its turn.           *)
StageAt(place) ==
    CASE place = "transcribed" -> "transcribing"
      [] place \in {"answered", "escaped"} -> "thinking"
      [] place = "queued"      -> "synthesizing"
      [] OTHER                 -> place

KnowsItsStage(r) == r.at \in TokenPlaces /\ Accepts(r.tok) => StageOf(r.tok) = StageAt(r.at)

RequestsKnowTheirStage == \A t \in Threads : KnowsItsStage(request[t])

StoreIsCounted ==
    /\ \A s \in SessionIds : generation[s] <= GenerationLimit
    /\ IsFiniteSet(tokens) /\ Cardinality(tokens) = turn_ids

(* An item that was handed to client c: it left the queue for good. *)
HandedOut(c, p) ==
    /\ p \in 1 .. playback_ids
    /\ p = active[c] \/ p \notin Queue!LiveItems

(* A report is about an item that was handed out, and of its end only when *)
(* the browser has put it aside.                                           *)
ReportFits(t) ==
    request[t].at \in ReportPlaces =>
       /\ HandedOut(request[t].client, request[t].item)
       /\ request[t].state # "started" => playing[request[t].client].item # request[t].item

BrowserKnowsItsItems ==
    /\ playing \in [Clients -> [item: Nat, phase: PlayingPhases]]
    /\ \A c \in Clients :
          /\ playing[c].phase = "none" <=> playing[c].item = Queue!NoItem
          /\ playing[c] # Silent => HandedOut(c, playing[c].item)
    /\ \A t \in Threads : ReportFits(t)

ConversationInv ==
    /\ FenceInv /\ StoreIsCounted /\ QP!QueueInv
    /\ RequestsAreShaped /\ RequestsKnowTheirStage
    /\ CancelledSpeechIsBeingStopped
    /\ BrowserKnowsItsItems /\ BrowserIsTold

-----------------------------------------------------------------------------
(***************************************************************************)
(* The store's steps, as PlaybackQueue sees them                           *)
(***************************************************************************)
LEMMA SameCardinality ==
    \A S : Queue!Cardinality(S) = Cardinality(S)
BY DEF Queue!Cardinality, Cardinality

(* What happens within one session makes at most its one current token     *)
(* stale.                                                                  *)
LEMMA ShowsAsStore ==
    ASSUME IInv, Next, NEW s \in SessionIds, UNCHANGED <<tokens, queue_vars>>,
           \A tok \in tokens : tok.session # s /\ Accepts(tok) => Accepts(tok)'
    PROVE  [Queue!Next]_Queue!vars
<1>1. \A tok \in tokens : Accepts(tok)' => Accepts(tok)
  BY StepRevivesNothing
<1>2. Current' = {tok \in tokens : Accepts(tok)'}
  BY DEF Current
<1>3. CASE \E tok \in tokens : Accepts(tok) /\ ~Accepts(tok)'
  <2>1. PICK tok \in tokens : Accepts(tok) /\ ~Accepts(tok)'
    BY <1>3
  <2>2. tok.session = s
    BY <2>1
  <2>3. \A other \in tokens : other # tok /\ Accepts(other) => Accepts(other)'
    BY <2>1, <2>2, OneCurrentToken
  <2>4. tok \in Current /\ Current' = Current \ {tok}
    BY <1>1, <1>2, <2>1, <2>3 DEF Current
  <2>5. Queue!GoStale(tok)
    BY <2>4 DEF Queue!GoStale, Current, Queue!queue_vars, queue_vars
  <2> QED  BY <2>4, <2>5 DEF Queue!Next, Queue!Store, Current
<1>4. CASE \A tok \in tokens : Accepts(tok) => Accepts(tok)'
  <2>1. Current' = Current
    BY <1>1, <1>2, <1>4 DEF Current
  <2> QED  BY <2>1 DEF Queue!vars, Queue!queue_vars, queue_vars, Current
<1> QED  BY <1>3, <1>4

LEMMA BeginHandsOut ==
    ASSUME FenceInv, FenceInv', StoreIsCounted, UNCHANGED queue_vars, NEW s \in SessionIds,
           NEW stage \in LiveStages, NEW with_text \in BOOLEAN, BeginTurn(s, stage, with_text)
    PROVE  [Queue!Next]_Queue!vars /\ StoreIsCounted'
<1>1. /\ \A other \in tokens : Undisturbed(other)
      /\ \A other \in tokens :
            other.session = s => ~Accepts(other) /\ other.generation <= generation[s]
  BY BeginDisturbs
<1>2. PICK tok :
         /\ tok = Began(s) /\ tok \notin tokens /\ tokens' = tokens \cup {tok} /\ Accepts(tok)'
  BY BeginDisturbs
<1>3. /\ turn_ids < TurnLimit /\ turn_ids' = turn_ids + 1 /\ UNCHANGED <<status, generation>>
      /\ turns' = [turns EXCEPT ![s] = Push(@, [id |-> turn_ids + 1, generation |-> generation[s],
                                                stage |-> stage], MaxTurns)]
  BY DEF BeginTurn
<1>4. /\ IsFiniteSet(tokens) /\ Cardinality(tokens) = turn_ids
      /\ generation[s] \in 0 .. GenerationLimit
      /\ \A other \in tokens : other.session \in SessionIds
      /\ turns \in [SessionIds -> Seq(TurnSnapshot)]
  BY BoundsArePositive DEF StoreIsCounted, FenceInv, IInv, TypeOK, TurnToken
<1>5. \A other \in tokens : Accepts(other)' <=> Accepts(other)
  <2> SUFFICES ASSUME NEW other \in tokens, Accepts(other) PROVE Accepts(other)'
    BY <1>1 DEF Undisturbed
  <2>1. other.session # s
    BY <1>1
  <2>2. turns'[other.session] = turns[other.session]
    BY <1>3, <1>4, <2>1
  <2> QED  BY <1>3, <2>2 DEF Accepts, LiveTurns
<1>6. Current' = Current \cup {tok}
  <2>1. Current' = {other \in tokens' : Accepts(other)'}
    BY DEF Current
  <2> QED  BY <1>2, <1>5, <2>1 DEF Current
<1>7. tok = [session |-> s, turn |-> Queue!Cardinality(tokens) + 1, generation |-> generation[s]]
  BY <1>2, <1>4, SameCardinality DEF Began
<1>8. Queue!HandOut(s, generation[s])
  <2>1. \A other \in tokens :
           other.session = s => other \notin Current /\ other.generation <= generation[s]
    BY <1>1 DEF Current
  <2>2. Queue!Cardinality(tokens) < TurnLimit
    BY <1>3, <1>4, SameCardinality
  <2> QED  BY <1>2, <1>6, <1>7, <2>1, <2>2 DEF Queue!HandOut, Current, Queue!queue_vars, queue_vars
<1>9. Queue!Next
  BY <1>4, <1>8 DEF Queue!Next, Queue!Store
<1>10. StoreIsCounted'
  <2>1. IsFiniteSet(tokens') /\ Cardinality(tokens') = turn_ids'
    BY <1>2, <1>3, <1>4, FS_AddElement
  <2> QED  BY <1>3, <2>1 DEF StoreIsCounted
<1> QED  BY <1>9, <1>10

(* The calls of the store that Conversation makes, but for begin_turn.     *)
StoreCall ==
    \/ \E s \in SessionIds : CreateSession(s) \/ Cancel(s) \/ CloseSession(s)
    \/ \E tok \in tokens :
          \/ \E stage \in TurnStage : Transition(tok, stage)
          \/ \E role \in Roles : AppendMessage(tok, role)

LEMMA StoreCallShows ==
    ASSUME IInv, StoreIsCounted, StoreCall, UNCHANGED queue_vars
    PROVE  /\ Next /\ UNCHANGED tokens
           /\ [Queue!Next]_Queue!vars /\ StoreIsCounted'
<1>0. \A tok \in tokens : tok.session \in SessionIds /\ status[tok.session] # "unused"
  BY DEF IInv, TypeOK, TokensAreDistinct, TurnToken
<1>1. ASSUME NEW s \in SessionIds, CreateSession(s) PROVE
         /\ Next /\ UNCHANGED tokens /\ [Queue!Next]_Queue!vars /\ StoreIsCounted'
  <2>1. /\ status' = [status EXCEPT ![s] = "active"] /\ status[s] = "unused"
        /\ UNCHANGED <<generation, turns, tokens, turn_ids>>
    BY <1>1 DEF CreateSession
  <2>2. Next
    BY <1>1, CreateDisturbs
  <2>3. \A tok \in tokens : Accepts(tok) => Accepts(tok)'
    BY <1>0, <2>1 DEF Accepts, LiveTurns, IInv, TypeOK
  <2>4. StoreIsCounted'
    BY <2>1 DEF StoreIsCounted
  <2> QED  BY <2>1, <2>2, <2>3, <2>4, ShowsAsStore
<1>2. ASSUME NEW s \in SessionIds, Cancel(s) \/ CloseSession(s) PROVE
         /\ Next /\ UNCHANGED tokens /\ [Queue!Next]_Queue!vars /\ StoreIsCounted'
  <2>1. /\ generation' = [generation EXCEPT ![s] = @ + 1] /\ generation[s] < GenerationLimit
        /\ \A other \in SessionIds \ {s} : turns'[other] = turns[other] /\ status'[other] = status[other]
        /\ UNCHANGED <<tokens, turn_ids>>
    BY <1>2 DEF Cancel, CloseSession, IInv, TypeOK
  <2>2. Next
    BY <1>2, StopDisturbs
  <2>3. generation \in [SessionIds -> Nat] /\ GenerationLimit \in Nat
    BY BoundsArePositive DEF IInv, TypeOK
  <2>4. \A tok \in tokens : tok.session # s /\ Accepts(tok) => Accepts(tok)'
    BY <1>0, <2>1, <2>3 DEF Accepts, LiveTurns
  <2>5. StoreIsCounted'
    <3>1. \A other \in SessionIds : generation'[other] <= GenerationLimit
      BY <2>1, <2>3 DEF StoreIsCounted
    <3> QED  BY <2>1, <3>1 DEF StoreIsCounted
  <2> QED  BY <2>1, <2>2, <2>4, <2>5, ShowsAsStore
<1>3. ASSUME NEW tok \in tokens, NEW stage \in TurnStage, Transition(tok, stage) PROVE
         /\ Next /\ UNCHANGED tokens /\ [Queue!Next]_Queue!vars /\ StoreIsCounted'
  <2>1. UNCHANGED <<status, generation, tokens, turn_ids>>
    BY <1>3 DEF Transition
  <2>2. \A other \in SessionIds \ {tok.session} : turns'[other] = turns[other]
    BY <1>3 DEF Transition, IInv, TypeOK
  <2>3. \A other \in tokens : other.session # tok.session /\ Accepts(other) => Accepts(other)'
    BY <1>0, <2>1, <2>2 DEF Accepts, LiveTurns
  <2>4. StoreIsCounted'
    BY <2>1 DEF StoreIsCounted
  <2> QED  BY <1>0, <1>3, <2>1, <2>3, <2>4, ShowsAsStore, TransitionIsNext
<1>4. ASSUME NEW tok \in tokens, NEW role \in Roles, AppendMessage(tok, role) PROVE
         /\ Next /\ UNCHANGED tokens /\ [Queue!Next]_Queue!vars /\ StoreIsCounted'
  <2>1. UNCHANGED <<status, generation, turns, tokens, turn_ids>>
    BY <1>4 DEF AppendMessage
  <2>2. Next
    BY <1>4, AppendDisturbs
  <2>3. \A other \in tokens : Accepts(other) => Accepts(other)'
    BY <2>1 DEF Accepts, LiveTurns
  <2>4. StoreIsCounted'
    BY <2>1 DEF StoreIsCounted
  <2> QED  BY <1>0, <2>1, <2>2, <2>3, <2>4, ShowsAsStore
<1> QED  BY <1>1, <1>2, <1>3, <1>4 DEF StoreCall

-----------------------------------------------------------------------------
(***************************************************************************)
(* What a step leaves as it was                                            *)
(***************************************************************************)
LEMMA QueueFacts ==
    ASSUME QP!QueueInv
    PROVE  /\ playback_ids \in Nat
           /\ active \in [Clients -> Nat] /\ commands \in [Clients -> Seq(Nat)]
           /\ Queue!TypeOK
           /\ \A p \in Queue!LiveItems :
                 /\ p \in 1 .. playback_ids
                 /\ items[p].token.session \in SessionIds
                 /\ items[p].token.generation \in Nat
           /\ \A c \in Clients :
                 commands[c] # <<>> => Len(commands[c]) = 1 /\ active[c] = 0
           /\ \A c \in Clients : \A i \in DOMAIN queued[c] :
                 queued[c][i] \in Queue!LiveItems /\ queued[c][i] # active[c]
<1>1. QP!TypeOK /\ QP!EveryLiveItemHasOnePlace /\ QP!StopComesFirst
  BY DEF QP!QueueInv, QP!QueueIsConsistent
<1> QED  BY <1>1, SameOperators
            DEF QP!TypeOK, QP!PlaybackItem, QP!TurnToken, QP!EveryLiveItemHasOnePlace, QP!StopComesFirst,
                QP!LiveItems

LEMMA QueueCallShows ==
    ASSUME QP!QueueInv, Queue!QueueCall, UNCHANGED vars
    PROVE  [Queue!Next]_Queue!vars /\ QP!QueueInv' /\ QP!QueueMovesOn
<1>1. Current' = Current /\ tokens' = tokens
  BY DEF vars, Current, Accepts, LiveTurns
<1>2. Queue!Next
  BY <1>1 DEF Queue!Next, Current
<1>3. QP!Next /\ QP!QueueCall
  BY <1>2, SameNext
<1>4. [QP!Next]_QP!vars
  BY <1>3
<1>5. QP!QueueInv'
  BY <1>4, QueueIsBounded, QP!QueueNext
<1>6. QP!QueueMovesOn
  <2>1. UNCHANGED <<{tok \in tokens : Accepts(tok)}, tokens>>
    BY <1>1 DEF Current
  <2> QED  BY <1>3, <2>1, QueueIsBounded, QP!QueueCallMovesOn
<1> QED  BY <1>2, <1>5, <1>6

LEMMA HandedOutStays ==
    ASSUME QP!QueueInv, QP!QueueMovesOn, NEW c \in Clients, NEW p, HandedOut(c, p)
    PROVE  HandedOut(c, p)'
<1>1. QP!LiveItems = Queue!LiveItems /\ QP!LiveItems' = Queue!LiveItems'
  BY DEF QP!LiveItems, Queue!LiveItems, QP!TerminalStates, Queue!TerminalStates
<1>2. /\ playback_ids \in Nat /\ playback_ids' \in Nat /\ playback_ids' >= playback_ids
      /\ \A q \in Queue!LiveItems' : q \in Queue!LiveItems \/ q > playback_ids
      /\ active'[c] = active[c] \/ active[c] \notin Queue!LiveItems'
  BY <1>1, QueueFacts DEF QP!QueueMovesOn
<1> QED  BY <1>2 DEF HandedOut

LEMMA HandedOutUntouched ==
    ASSUME UNCHANGED queue_vars, NEW c, NEW p, HandedOut(c, p)
    PROVE  HandedOut(c, p)'
BY DEF HandedOut, queue_vars, Queue!LiveItems

(* Speech under way keeps the stop that is after it.                       *)
LEMMA StopsStayOnTheirWay ==
    ASSUME IInv, QP!QueueInv, QP!QueueMovesOn, UNCHANGED vars, CancelledSpeechIsBeingStopped,
           \A u \in Threads : request[u].at \in StopPlaces => request'[u] = request[u]
    PROVE  CancelledSpeechIsBeingStopped'
<1>1. QP!LiveItems = Queue!LiveItems /\ QP!LiveItems' = Queue!LiveItems'
  BY DEF QP!LiveItems, Queue!LiveItems, QP!TerminalStates, Queue!TerminalStates
<1> SUFFICES ASSUME NEW p \in Queue!LiveItems',
                    items'[p].token.generation < generation'[items'[p].token.session]
             PROVE  \E u \in Threads : /\ request'[u].at \in {"stopping", "closing"}
                                       /\ request'[u].session = items'[p].token.session
  BY DEF CancelledSpeechIsBeingStopped
<1>2. generation' = generation
  BY DEF vars
<1>3. CASE p \in Queue!LiveItems /\ items'[p].token = items[p].token
  <2>1. PICK u \in Threads : /\ request[u].at \in {"stopping", "closing"}
                             /\ request[u].session = items[p].token.session
    BY <1>2, <1>3 DEF CancelledSpeechIsBeingStopped
  <2>2. request'[u] = request[u]
    BY <2>1 DEF StopPlaces
  <2> QED  BY <1>3, <2>1, <2>2
<1>4. CASE items'[p].token \in Current
  <2>1. PICK tok \in tokens : tok = items'[p].token /\ Accepts(tok)
    BY <1>4 DEF Current
  <2>2. generation[tok.session] = tok.generation
    BY <2>1 DEF Accepts
  <2>3. tok.generation \in Nat /\ tok.generation < tok.generation
    BY <1>2, <2>1, <2>2 DEF IInv, TypeOK, TurnToken
  <2> QED  BY <2>3
<1> QED  BY <1>1, <1>3, <1>4 DEF QP!QueueMovesOn, Current

(* A generation rises where a request that will stop the speech comes in.  *)
LEMMA StopsAreAnnounced ==
    ASSUME QP!QueueInv, UNCHANGED queue_vars, CancelledSpeechIsBeingStopped,
           NEW t \in Threads, request[t].at \notin StopPlaces,
           \A u \in Threads \ {t} : request'[u] = request[u],
           \A s \in SessionIds :
              \/ generation'[s] = generation[s]
              \/ request'[t].at \in StopPlaces /\ request'[t].session = s
    PROVE  CancelledSpeechIsBeingStopped'
<1>1. Queue!LiveItems' = Queue!LiveItems /\ items' = items
  BY DEF queue_vars, Queue!LiveItems
<1> SUFFICES ASSUME NEW p \in Queue!LiveItems,
                    items[p].token.generation < generation'[items[p].token.session]
             PROVE  \E u \in Threads : /\ request'[u].at \in {"stopping", "closing"}
                                       /\ request'[u].session = items[p].token.session
  BY <1>1 DEF CancelledSpeechIsBeingStopped
<1>2. items[p].token.session \in SessionIds
  BY QueueFacts
<1>3. CASE generation'[items[p].token.session] = generation[items[p].token.session]
  <2>1. PICK u \in Threads : /\ request[u].at \in {"stopping", "closing"}
                             /\ request[u].session = items[p].token.session
    BY <1>3 DEF CancelledSpeechIsBeingStopped
  <2>2. u # t
    BY <2>1 DEF StopPlaces
  <2> QED  BY <2>1, <2>2
<1>4. CASE request'[t].at \in StopPlaces /\ request'[t].session = items[p].token.session
  BY <1>4 DEF StopPlaces
<1> QED  BY <1>2, <1>3, <1>4

(* A request, by the place where it stands. *)
LEMMA RequestFacts ==
    ASSUME NEW r, IsRequest(r)
    PROVE  /\ r.at \in {"idle"} \cup TokenPlaces \cup StopPlaces \cup ReportPlaces
           /\ "tok" \in DOMAIN r <=> r.at \in TokenPlaces
           /\ r.at \in TokenPlaces =>
                 /\ r \in [at: TokenPlaces, kind: {"typed", "spoken", "preview"}, tok: TurnToken]
                 /\ r.tok \in tokens
           /\ r.at \in StopPlaces => r.session \in SessionIds
           /\ r.at = "stopping" => r.floor \in 0 .. GenerationLimit
           /\ r.at \in ReportPlaces => r.client \in Clients /\ r.item \in Nat /\ r.state \in Reports
           /\ r.at \in {"found", "acknowledged"} =>
                 r \in [at: {"found", "acknowledged"}, client: Clients, item: Nat, state: Reports,
                        before: Queue!PlaybackState]
<1> USE DEF TokenPlaces, StopPlaces, ReportPlaces
<1>1. CASE r = Idle
  BY <1>1 DEF Idle
<1>2. CASE r \in [at: TokenPlaces, kind: {"typed", "spoken", "preview"}, tok: TurnToken] /\ r.tok \in tokens
  BY <1>2
<1>3. CASE r \in [at: {"stopping"}, session: SessionIds, floor: 0 .. GenerationLimit]
  BY <1>3
<1>4. CASE r \in [at: {"closing"}, session: SessionIds]
  BY <1>4
<1>5. CASE r \in [at: {"reported"}, client: Clients, item: Nat, state: Reports]
  BY <1>5
<1>6. CASE r \in [at: {"found", "acknowledged"}, client: Clients, item: Nat, state: Reports,
                  before: Queue!PlaybackState]
  BY <1>6
<1> QED  BY <1>1, <1>2, <1>3, <1>4, <1>5, <1>6 DEF IsRequest

LEMMA RequestMoves ==
    ASSUME NEW r, IsRequest(r), r.at \in TokenPlaces, NEW place \in TokenPlaces
    PROVE  /\ IsRequest([r EXCEPT !.at = place])
           /\ [r EXCEPT !.at = place].at = place /\ [r EXCEPT !.at = place].tok = r.tok
<1>1. r \in [at: TokenPlaces, kind: {"typed", "spoken", "preview"}, tok: TurnToken] /\ r.tok \in tokens
  BY RequestFacts
<1>2. /\ [r EXCEPT !.at = place] \in [at: TokenPlaces, kind: {"typed", "spoken", "preview"}, tok: TurnToken]
      /\ [r EXCEPT !.at = place].at = place /\ [r EXCEPT !.at = place].tok = r.tok
  BY <1>1
<1> QED  BY <1>1, <1>2 DEF IsRequest

LEMMA IdleFacts ==
    IsRequest(Idle) /\ Idle.at = "idle" /\ "idle" \notin TokenPlaces \cup StopPlaces \cup ReportPlaces
BY DEF IsRequest, Idle, TokenPlaces, StopPlaces, ReportPlaces

LEMMA RequestsStayShaped ==
    ASSUME RequestsAreShaped, tokens \subseteq tokens', NEW t \in Threads, NEW r,
           request' = [request EXCEPT ![t] = r], IsRequest(r)',
           \A tok \in tokens' : r.at \in TokenPlaces /\ r.tok = tok => WorksOn(t, tok) \/ tok \notin tokens
    PROVE  /\ RequestsAreShaped'
           /\ request'[t] = r /\ \A u \in Threads \ {t} : request'[u] = request[u]
<1>1. /\ request' = [u \in Threads |-> request'[u]]
      /\ request'[t] = r /\ \A u \in Threads \ {t} : request'[u] = request[u]
  BY DEF RequestsAreShaped
<1>2. \A u \in Threads : IsRequest(request[u])
  BY DEF RequestsAreShaped
<1>3. ASSUME NEW u \in Threads \ {t}
      PROVE  IsRequest(request[u])'
  <2>1. IsRequest(request[u]) /\ request'[u] = request[u]
    BY <1>1, <1>2
  <2>2. PICK q : q = request[u] /\ q = request'[u] /\ IsRequest(q)
    BY <2>1
  <2>3. IsRequest(q)'
    BY <2>2 DEF IsRequest
  <2> QED  BY <2>2, <2>3
<1>4. IsRequest(request[t])'
  BY <1>1
<1>5. \A u \in Threads : \A tok : WorksOn(u, tok) => tok \in tokens
  BY <1>2, RequestFacts DEF WorksOn
<1>6. ASSUME NEW tok \in tokens', NEW u \in Threads, NEW v \in Threads,
             request'[u].at \in TokenPlaces /\ request'[u].tok = tok,
             request'[v].at \in TokenPlaces /\ request'[v].tok = tok
      PROVE  u = v
  <2>1. \A w \in Threads \ {t} :
           request'[w].at \in TokenPlaces /\ request'[w].tok = tok => WorksOn(w, tok) /\ tok \in tokens
    BY <1>1, <1>5 DEF WorksOn
  <2>2. request'[t].at \in TokenPlaces /\ request'[t].tok = tok => WorksOn(t, tok) \/ tok \notin tokens
    BY <1>1
  <2>3. \A w, x \in Threads : tok \in tokens /\ WorksOn(w, tok) /\ WorksOn(x, tok) => w = x
    BY DEF RequestsAreShaped
  <2> QED  BY <1>6, <2>1, <2>2, <2>3
<1> QED  BY <1>1, <1>3, <1>4, <1>6 DEF RequestsAreShaped, WorksOn

LEMMA StagesStayKnown ==
    ASSUME RequestsAreShaped, RequestsKnowTheirStage, NEW t \in Threads, NEW r,
           request'[t] = r, \A u \in Threads \ {t} : request'[u] = request[u],
           KnowsItsStage(r)',
           \A u \in Threads \ {t} : \A tok \in tokens : WorksOn(u, tok) => Undisturbed(tok)
    PROVE  RequestsKnowTheirStage'
<1>1. ASSUME NEW u \in Threads \ {t}
      PROVE  KnowsItsStage(request[u])'
  <2>1. request'[u] = request[u]
    OBVIOUS
  <2>2. PICK q : q = request[u] /\ q = request'[u]
    BY <2>1
  <2>3. IsRequest(q) /\ KnowsItsStage(q)
    BY <2>2 DEF RequestsAreShaped, RequestsKnowTheirStage
  <2>4. ASSUME q.at \in TokenPlaces, Accepts(q.tok)'
        PROVE  StageOf(q.tok)' = StageAt(q.at)
    <3>1. q.tok \in tokens /\ WorksOn(u, q.tok)
      BY <2>2, <2>3, <2>4, RequestFacts DEF WorksOn
    <3> QED  BY <2>3, <2>4, <3>1 DEF Undisturbed, KnowsItsStage
  <2>5. KnowsItsStage(q)'
    BY <2>4 DEF KnowsItsStage
  <2> QED  BY <2>2, <2>5
<1>2. KnowsItsStage(request[t])'
  OBVIOUS
<1> QED  BY <1>1, <1>2 DEF RequestsKnowTheirStage


-----------------------------------------------------------------------------
(***************************************************************************)
(* What the browser keeps                                                  *)
(***************************************************************************)

(* The browser of c goes on with what it has, or falls silent.             *)
GoesOnOrStops(c) ==
    \/ playing'[c] = Silent
    \/ playing[c] # Silent /\ playing'[c].item = playing[c].item /\ playing'[c].phase # "none"

(* A report that is under way was so before.                               *)
NoNewReport(t) ==
    request'[t].at \in ReportPlaces =>
       /\ request[t].at \in ReportPlaces
       /\ request'[t].client = request[t].client
       /\ request'[t].item = request[t].item
       /\ request'[t].state = request[t].state

LEMMA SilenceFacts ==
    ASSUME BrowserKnowsItsItems, NEW c \in Clients
    PROVE  /\ playing[c] \in [item: Nat, phase: PlayingPhases]
           /\ Silent.item = 0 /\ Silent.phase = "none"
           /\ Silent \in [item: Nat, phase: PlayingPhases]
           /\ playing[c] = Silent <=> playing[c].item = 0
           /\ playing[c] = Silent <=> playing[c].phase = "none"
<1>1. Silent.item = 0 /\ Silent.phase = "none" /\ Silent \in [item: Nat, phase: PlayingPhases]
  BY SameOperators DEF Silent, PlayingPhases
<1>2. playing[c] \in [item: Nat, phase: PlayingPhases] /\ (playing[c].phase = "none" <=> playing[c].item = 0)
  BY SameOperators DEF BrowserKnowsItsItems
<1>3. ASSUME playing[c].item = 0, playing[c].phase = "none" PROVE playing[c] = Silent
  BY <1>2, <1>3, SameOperators DEF Silent
<1> QED  BY <1>1, <1>2, <1>3

LEMMA BrowserUntouched ==
    ASSUME BrowserKnowsItsItems, UNCHANGED playing
    PROVE  \A c \in Clients : GoesOnOrStops(c)
BY SilenceFacts DEF GoesOnOrStops

LEMMA BrowserStays ==
    ASSUME BrowserKnowsItsItems, RequestsAreShaped,
           playing' \in [Clients -> [item: Nat, phase: PlayingPhases]],
           \A c \in Clients : GoesOnOrStops(c),
           \A t \in Threads : NoNewReport(t) \/ ReportFits(t)',
           \A c \in Clients, p \in Nat : HandedOut(c, p) => HandedOut(c, p)'
    PROVE  BrowserKnowsItsItems'
<1>1. ASSUME NEW c \in Clients
      PROVE  /\ playing'[c].phase = "none" <=> playing'[c].item = 0
             /\ playing'[c] # Silent => /\ playing[c] # Silent /\ playing'[c].item = playing[c].item
                                        /\ playing[c].item \in Nat /\ HandedOut(c, playing[c].item)
             /\ playing'[c].item = playing[c].item \/ playing'[c].item = 0
  BY SilenceFacts DEF GoesOnOrStops, BrowserKnowsItsItems
<1>2. ASSUME NEW c \in Clients, playing'[c] # Silent
      PROVE  HandedOut(c, playing[c].item)'
  <2>1. PICK p : p = playing[c].item /\ p = playing'[c].item /\ p \in Nat /\ HandedOut(c, p)
    BY <1>1, <1>2
  <2>2. HandedOut(c, p)'
    BY <2>1
  <2> QED  BY <2>1, <2>2
<1>3. ASSUME NEW t \in Threads, NoNewReport(t), request'[t].at \in ReportPlaces
      PROVE  /\ HandedOut(request[t].client, request[t].item)'
             /\ request'[t].state # "started" => playing'[request'[t].client].item # request'[t].item
  <2>1. /\ request[t].at \in ReportPlaces
        /\ request'[t].client = request[t].client
        /\ request'[t].item = request[t].item
        /\ request'[t].state = request[t].state
    BY <1>3 DEF NoNewReport
  <2>2. /\ HandedOut(request[t].client, request[t].item)
        /\ request[t].state # "started" => playing[request[t].client].item # request[t].item
        /\ request[t].client \in Clients /\ request[t].item \in Nat
    BY <2>1, RequestFacts DEF BrowserKnowsItsItems, ReportFits, RequestsAreShaped
  <2>3. PICK c \in Clients, p \in Nat :
           /\ c = request[t].client /\ c = request'[t].client
           /\ p = request[t].item /\ p = request'[t].item
    BY <2>1, <2>2
  <2>4. HandedOut(c, p) /\ HandedOut(c, p)'
    BY <2>2, <2>3
  <2>5. p # 0
    BY <2>4 DEF HandedOut
  <2>6. request'[t].state # "started" => playing[c].item # p
    BY <2>1, <2>2, <2>3
  <2>7. request'[t].state # "started" => playing'[c].item # p
    BY <1>1, <2>5, <2>6
  <2> QED  BY <2>3, <2>4, <2>7
<1>4. \A t \in Threads : ReportFits(t)'
  BY <1>3 DEF ReportFits
<1> QED  BY <1>1, <1>2, <1>4, SameOperators DEF BrowserKnowsItsItems

LEMMA BrowserStaysTold ==
    ASSUME BrowserIsTold, \A c \in Clients : GoesOnOrStops(c),
           \A c \in Clients :
              playing'[c] # Silent =>
                 /\ active'[c] = active[c] \/ active[c] \in Queue!ElementsOf(commands'[c])
                                           \/ playing[c].item # active[c]
                 /\ Queue!ElementsOf(commands[c]) \subseteq Queue!ElementsOf(commands'[c])
    PROVE  BrowserIsTold'
<1> SUFFICES ASSUME NEW c \in Clients, playing'[c] # Silent
             PROVE  \/ playing'[c].item = active'[c]
                    \/ playing'[c].item \in Queue!ElementsOf(commands'[c])
  BY DEF BrowserIsTold, Queue!ElementsOf
<1>1. playing[c] # Silent /\ playing'[c].item = playing[c].item
  BY DEF GoesOnOrStops
<1>2. playing[c].item = active[c] \/ playing[c].item \in Queue!ElementsOf(commands[c])
  BY <1>1 DEF BrowserIsTold
<1> QED  BY <1>1, <1>2

-----------------------------------------------------------------------------
(***************************************************************************)
(* A handler that calls the store, and one that calls the queue            *)
(***************************************************************************)

(* The request of t becomes r, on no token but its own or a new one.       *)
GoesOn(t, r) ==
    /\ request' = [request EXCEPT ![t] = r]
    /\ IsRequest(r)'
    /\ \A tok \in tokens' : r.at \in TokenPlaces /\ r.tok = tok => WorksOn(t, tok) \/ tok \notin tokens
    /\ KnowsItsStage(r)'
    /\ r.at \in ReportPlaces =>
          /\ request[t].at \in ReportPlaces
          /\ r.client = request[t].client /\ r.item = request[t].item /\ r.state = request[t].state

LEMMA TokensStay ==
    ASSUME [Next]_vars PROVE tokens \subseteq tokens'
<1>1. CASE \E s \in SessionIds, stage \in LiveStages, with_text \in BOOLEAN : BeginTurn(s, stage, with_text)
  BY <1>1 DEF BeginTurn
<1>2. CASE Next /\ ~ \E s \in SessionIds, stage \in LiveStages, with_text \in BOOLEAN :
                        BeginTurn(s, stage, with_text)
  BY <1>2, OnlyBeginDraws
<1>3. CASE UNCHANGED vars
  BY <1>3 DEF vars
<1> QED  BY <1>1, <1>2, <1>3

LEMMA StoreStepKeeps ==
    ASSUME ConversationInv, [Next]_vars, [Queue!Next]_Queue!vars, StoreIsCounted', UNCHANGED queue_vars,
           NEW t \in Threads, NEW r, GoesOn(t, r), request[t].at \notin StopPlaces,
           \A u \in Threads \ {t} : \A tok \in tokens : WorksOn(u, tok) => Undisturbed(tok),
           \A s \in SessionIds :
              generation'[s] = generation[s] \/ (r.at \in StopPlaces /\ r.session = s),
           playing' \in [Clients -> [item: Nat, phase: PlayingPhases]],
           \A c \in Clients : GoesOnOrStops(c)
    PROVE  ConversationInv'
<1> USE DEF ConversationInv
<1>1. FenceInv'
  BY StepKeepsFenceInv
<1>2. QP!QueueInv'
  <2>1. [QP!Next]_QP!vars
    BY SameSteps
  <2> QED  BY <2>1, QueueIsBounded, QP!QueueNext
<1>3. /\ RequestsAreShaped'
      /\ request'[t] = r /\ \A u \in Threads \ {t} : request'[u] = request[u]
  BY TokensStay, RequestsStayShaped DEF GoesOn
<1>4. RequestsKnowTheirStage'
  BY <1>3, StagesStayKnown DEF GoesOn
<1>5. CancelledSpeechIsBeingStopped'
  BY <1>3, StopsAreAnnounced
<1>6. \A u \in Threads : NoNewReport(u)
  BY <1>3 DEF GoesOn, NoNewReport
<1>7. BrowserKnowsItsItems'
  BY <1>6, BrowserStays, HandedOutUntouched
<1>8. BrowserIsTold'
  BY BrowserStaysTold DEF queue_vars
<1> QED  BY <1>1, <1>2, <1>3, <1>4, <1>5, <1>7, <1>8

LEMMA NothingDisturbs ==
    ASSUME IInv, UNCHANGED vars, NEW tok \in tokens
    PROVE  Undisturbed(tok)
BY DEF Undisturbed, vars, Accepts, StageOf, LiveTurns

LEMMA StoreUntouched ==
    ASSUME FenceInv, StoreIsCounted, UNCHANGED vars
    PROVE  FenceInv' /\ StoreIsCounted'
<1>1. FenceInv'
  BY StepKeepsFenceInv
<1> QED  BY <1>1 DEF StoreIsCounted, vars

LEMMA QueueStepKeeps ==
    ASSUME ConversationInv, UNCHANGED vars, QP!QueueInv', QP!QueueMovesOn,
           CancelledSpeechIsBeingStopped',
           RequestsAreShaped', RequestsKnowTheirStage',
           \A t \in Threads : NoNewReport(t) \/ ReportFits(t)',
           playing' \in [Clients -> [item: Nat, phase: PlayingPhases]],
           \A c \in Clients : GoesOnOrStops(c),
           \A c \in Clients :
              playing'[c] # Silent =>
                 /\ active'[c] = active[c] \/ active[c] \in Queue!ElementsOf(commands'[c])
                                           \/ playing[c].item # active[c]
                 /\ Queue!ElementsOf(commands[c]) \subseteq Queue!ElementsOf(commands'[c])
    PROVE  ConversationInv'
<1> USE DEF ConversationInv
<1>1. FenceInv' /\ StoreIsCounted'
  BY StoreUntouched
<1>2. BrowserKnowsItsItems'
  <2>1. \A c \in Clients, p \in Nat : HandedOut(c, p) => HandedOut(c, p)'
    BY HandedOutStays
  <2> QED  BY <2>1, BrowserStays
<1>3. BrowserIsTold'
  BY BrowserStaysTold
<1> QED  BY <1>1, <1>2, <1>3

(* A thread goes on while the store stays as it is. *)
LEMMA RequestGoesOn ==
    ASSUME ConversationInv, UNCHANGED vars, NEW t \in Threads, NEW r, GoesOn(t, r)
    PROVE  /\ RequestsAreShaped' /\ RequestsKnowTheirStage'
           /\ request'[t] = r /\ \A u \in Threads \ {t} : request'[u] = request[u]
           /\ \A u \in Threads : NoNewReport(u)
<1> USE DEF ConversationInv
<1>1. tokens' = tokens
  BY DEF vars
<1>2. /\ RequestsAreShaped'
      /\ request'[t] = r /\ \A u \in Threads \ {t} : request'[u] = request[u]
  BY <1>1, RequestsStayShaped DEF GoesOn
<1>3. RequestsKnowTheirStage'
  BY <1>2, NothingDisturbs, StagesStayKnown DEF GoesOn, FenceInv
<1>4. \A u \in Threads : NoNewReport(u)
  BY <1>2 DEF GoesOn, NoNewReport
<1> QED  BY <1>2, <1>3, <1>4

LEMMA UntouchedShows ==
    ASSUME UNCHANGED <<vars, queue_vars>>
    PROVE  [Queue!Next]_Queue!vars
BY DEF Queue!vars, Queue!queue_vars, queue_vars, vars, Accepts, LiveTurns

(* A handler uses its own token: a stage, a message, or a look at it.      *)
LEMMA OwnStepKeeps ==
    ASSUME ConversationInv, UNCHANGED <<queue_vars, playing>>,
           NEW t \in Threads, request[t].at \in TokenPlaces, NEW r,
           request' = [request EXCEPT ![t] = r], IsRequest(r),
           r = Idle \/ (r.at \in TokenPlaces /\ r.tok = request[t].tok),
           KnowsItsStage(r)',
           \/ UNCHANGED vars
           \/ \E stage \in TurnStage : Transition(request[t].tok, stage)
           \/ \E role \in Roles : AppendMessage(request[t].tok, role)
    PROVE  ConversationInv' /\ [Queue!Next]_Queue!vars
<1> USE DEF ConversationInv
<1>1. request[t].tok \in tokens
  BY RequestFacts DEF RequestsAreShaped
<1>2. PICK tok \in tokens : tok = request[t].tok
  BY <1>1
<1>3. /\ [Next]_vars /\ UNCHANGED <<tokens, generation>>
      /\ [Queue!Next]_Queue!vars /\ StoreIsCounted'
  <2>1. CASE UNCHANGED vars
    BY <2>1, StoreUntouched, UntouchedShows DEF vars
  <2>2. CASE \/ \E stage \in TurnStage : Transition(tok, stage)
             \/ \E role \in Roles : AppendMessage(tok, role)
    <3>1. StoreCall
      BY <2>2 DEF StoreCall
    <3>2. generation' = generation
      BY <2>2 DEF Transition, AppendMessage
    <3> QED  BY <3>1, <3>2, StoreCallShows DEF FenceInv
  <2> QED  BY <1>2, <2>1, <2>2
<1>4. FenceInv'
  BY <1>3, StepKeepsFenceInv
<1>5. ASSUME NEW u \in Threads \ {t}, NEW other \in tokens, WorksOn(u, other)
      PROVE  Undisturbed(other)
  <2>1. other # tok
    BY <1>2, <1>5 DEF RequestsAreShaped, WorksOn
  <2>2. CASE UNCHANGED vars
    BY <2>2, NothingDisturbs DEF FenceInv
  <2>3. ASSUME NEW stage \in TurnStage, Transition(tok, stage) PROVE Undisturbed(other)
    BY <1>4, <2>1, <2>3, TransitionDisturbs
  <2>4. ASSUME NEW role \in Roles, AppendMessage(tok, role) PROVE Undisturbed(other)
    BY <2>4, AppendDisturbs DEF FenceInv
  <2> QED  BY <1>2, <2>2, <2>3, <2>4
<1>6. GoesOn(t, r)
  <2>1. IsRequest(r)'
    BY <1>3 DEF IsRequest
  <2>2. r.at \notin ReportPlaces
    BY IdleFacts DEF TokenPlaces, ReportPlaces
  <2>3. \A other : r.at \in TokenPlaces /\ r.tok = other => WorksOn(t, other)
    BY IdleFacts DEF WorksOn
  <2> QED  BY <2>1, <2>2, <2>3 DEF GoesOn
<1>7. request[t].at \notin StopPlaces
  BY DEF TokenPlaces, StopPlaces
<1>8. /\ playing' \in [Clients -> [item: Nat, phase: PlayingPhases]]
      /\ \A c \in Clients : GoesOnOrStops(c)
  BY BrowserUntouched DEF BrowserKnowsItsItems
<1>9. \A s \in SessionIds : generation'[s] = generation[s]
  BY <1>3
<1>10. ConversationInv'
  <2> HIDE DEF ConversationInv
  <2>1. UNCHANGED queue_vars
    OBVIOUS
  <2> QED  BY <1>3, <1>5, <1>6, <1>7, <1>8, <1>9, <2>1, StoreStepKeeps
<1> QED  BY <1>3, <1>10

(* The handler ends, whatever became of its turn. *)
LEMMA EndKeeps ==
    ASSUME ConversationInv, UNCHANGED <<queue_vars, playing>>,
           NEW t \in Threads, request[t].at \in TokenPlaces, Finish(t),
           UNCHANGED vars \/ \E stage \in TurnStage : Advance(request[t].tok, stage)
    PROVE  ConversationInv' /\ [Queue!Next]_Queue!vars
<1>1. PICK r : r = Idle
  OBVIOUS
<1>2. IsRequest(r) /\ request' = [request EXCEPT ![t] = r] /\ KnowsItsStage(r)'
  BY <1>1, IdleFacts DEF Finish, Become, KnowsItsStage
<1>3. \/ UNCHANGED vars
      \/ \E stage \in TurnStage : Transition(request[t].tok, stage)
      \/ \E role \in Roles : AppendMessage(request[t].tok, role)
  BY DEF Advance
<1> QED  BY <1>1, <1>2, <1>3, OwnStepKeeps

(* The handler moves its turn to the next stage. *)
LEMMA AdvanceKeeps ==
    ASSUME ConversationInv, UNCHANGED <<queue_vars, playing>>,
           NEW t \in Threads, request[t].at \in TokenPlaces,
           NEW place \in TokenPlaces, GoTo(t, place), StageAt(place) \in TurnStage,
           Advance(request[t].tok, StageAt(place))
    PROVE  ConversationInv' /\ [Queue!Next]_Queue!vars
<1>1. IsRequest(request[t]) /\ request[t].tok \in tokens
  BY RequestFacts DEF ConversationInv, RequestsAreShaped
<1>2. PICK r : r = [request[t] EXCEPT !.at = place]
  OBVIOUS
<1>3. PICK tok \in tokens : tok = request[t].tok
  BY <1>1
<1>4. IsRequest(r) /\ r.at = place /\ r.tok = tok
  BY <1>1, <1>2, <1>3, RequestMoves
<1>5. request' = [request EXCEPT ![t] = r]
  BY <1>2 DEF GoTo, Become
<1>6. \/ UNCHANGED vars
      \/ \E stage \in TurnStage : Transition(request[t].tok, stage)
  BY DEF Advance
<1>7. Accepts(tok)' => StageOf(tok)' = StageAt(place)
  <2>1. CASE Transition(tok, StageAt(place))
    <3>1. [Next]_vars /\ FenceInv
      BY <2>1, TransitionIsNext DEF ConversationInv
    <3>2. FenceInv'
      BY <3>1, StepKeepsFenceInv
    <3> QED  BY <2>1, <3>1, <3>2, TransitionDisturbs
  <2>2. CASE ~Accepts(tok) /\ UNCHANGED vars
    BY <2>2 DEF vars, Accepts, LiveTurns
  <2> QED  BY <1>3, <2>1, <2>2 DEF Advance
<1>8. KnowsItsStage(r)'
  BY <1>4, <1>7 DEF KnowsItsStage
<1> QED  BY <1>3, <1>4, <1>5, <1>6, <1>8, OwnStepKeeps

(* The handler writes to the history of its turn, or is thrown out of it.  *)
LEMMA MessageKeeps ==
    ASSUME ConversationInv, UNCHANGED <<queue_vars, playing>>,
           NEW t \in Threads, request[t].at \in TokenPlaces,
           NEW place \in TokenPlaces, GoTo(t, place), StageAt(place) = StageAt(request[t].at),
           UNCHANGED vars \/ \E role \in Roles : AppendMessage(request[t].tok, role)
    PROVE  ConversationInv' /\ [Queue!Next]_Queue!vars
<1>1. IsRequest(request[t]) /\ request[t].tok \in tokens
  BY RequestFacts DEF ConversationInv, RequestsAreShaped
<1>2. PICK r : r = [request[t] EXCEPT !.at = place]
  OBVIOUS
<1>3. PICK tok \in tokens : tok = request[t].tok
  BY <1>1
<1>4. IsRequest(r) /\ r.at = place /\ r.tok = tok
  BY <1>1, <1>2, <1>3, RequestMoves
<1>5. request' = [request EXCEPT ![t] = r]
  BY <1>2 DEF GoTo, Become
<1>6. Undisturbed(tok)
  BY <1>3, AppendDisturbs, NothingDisturbs DEF ConversationInv, FenceInv
<1>7. KnowsItsStage(r)'
  BY <1>3, <1>4, <1>6 DEF KnowsItsStage, Undisturbed, ConversationInv, RequestsKnowTheirStage
<1> QED  BY <1>3, <1>4, <1>5, <1>7, OwnStepKeeps

(* Every step of a handler on its turn, but for queueing the speech. *)
LEMMA TurnStepKeeps ==
    ASSUME ConversationInv, NEW t \in Threads,
           \/ StoreTranscript(t) \/ StartThinking(t) \/ GiveUp(t) \/ NoticeStop(t) \/ Escape(t)
           \/ ConfirmByVoice(t) \/ CommitAnswer(t) \/ FinishUnspoken(t) \/ StartSynthesis(t)
           \/ SpeechNotQueued(t) \/ MarkQueued(t)
    PROVE  ConversationInv' /\ [Queue!Next]_Queue!vars
<1> USE DEF WorkingAt, TokenPlaces
<1>1. {"thinking", "failed", "completed", "synthesizing", "playback_queued"} \subseteq TurnStage
      /\ {"user", "assistant"} \subseteq Roles
  BY DEF TurnStage, LiveStages, TerminalStages, Roles
<1>2. CASE StoreTranscript(t)
  BY <1>1, <1>2, MessageKeeps DEF StoreTranscript, SetTranscript, StageAt
<1>3. CASE StartThinking(t)
  BY <1>1, <1>3, AdvanceKeeps DEF StartThinking, Advance, StageAt
<1>4. CASE GiveUp(t)
  BY <1>1, <1>4, EndKeeps DEF GiveUp, FailTurn
<1>5. CASE NoticeStop(t)
  BY <1>5, EndKeeps DEF NoticeStop
<1>6. CASE Escape(t)
  BY <1>6, MessageKeeps DEF Escape, StageAt
<1>7. CASE ConfirmByVoice(t)
  BY <1>1, <1>7, EndKeeps DEF ConfirmByVoice
<1>8. CASE CommitAnswer(t)
  BY <1>1, <1>8, MessageKeeps DEF CommitAnswer, CommitAssistantText, StageAt
<1>9. CASE FinishUnspoken(t)
  BY <1>1, <1>9, EndKeeps DEF FinishUnspoken
<1>10. CASE StartSynthesis(t)
  BY <1>1, <1>10, AdvanceKeeps DEF StartSynthesis, StageAt
<1>11. CASE SpeechNotQueued(t)
  BY <1>1, <1>11, EndKeeps DEF SpeechNotQueued, FailTurn
<1>12. CASE MarkQueued(t)
  BY <1>1, <1>12, EndKeeps DEF MarkQueued
<1> QED  BY <1>2, <1>3, <1>4, <1>5, <1>6, <1>7, <1>8, <1>9, <1>10, <1>11, <1>12

LEMMA TurnBegins ==
    ASSUME ConversationInv, UNCHANGED <<queue_vars, playing>>,
           NEW t \in Threads, WorkingAt(t, "idle"), NEW s \in SessionIds,
           NEW stage \in {"thinking", "transcribing", "synthesizing"}, NEW with_text \in BOOLEAN,
           NEW kind \in {"typed", "spoken", "preview"},
           BeginTurn(s, stage, with_text), Become(t, Turn(stage, kind))
    PROVE  ConversationInv' /\ [Queue!Next]_Queue!vars
<1>1. stage \in LiveStages /\ stage \in TokenPlaces /\ StageAt(stage) = stage
  BY DEF LiveStages, TokenPlaces, StageAt
<1>2. FenceInv /\ StoreIsCounted /\ RequestsAreShaped /\ BrowserKnowsItsItems
  BY DEF ConversationInv
<1>3. [Next]_vars
  BY <1>1 DEF Next, SessionCall
<1>4. FenceInv'
  BY <1>2, <1>3, StepKeepsFenceInv
<1>5. PICK tok :
         /\ tok \notin tokens /\ tokens' = tokens \cup {tok}
         /\ (CHOOSE new \in tokens' : new.turn = turn_ids') = tok
         /\ Accepts(tok)' /\ StageOf(tok)' = stage
  BY <1>1, <1>2, <1>4, BeginDisturbs
<1>6. PICK r : r = [at |-> stage, kind |-> kind, tok |-> tok]
  OBVIOUS
<1>7. r.at = stage /\ r.tok = tok /\ request' = [request EXCEPT ![t] = r]
  BY <1>5, <1>6 DEF Become, Turn
<1>8. IsRequest(r)'
  <2>1. tok \in TurnToken /\ tok \in tokens'
    BY <1>4, <1>5 DEF FenceInv, IInv, TypeOK
  <2>2. r \in [at: TokenPlaces, kind: {"typed", "spoken", "preview"}, tok: TurnToken]
    BY <1>1, <1>6, <2>1
  <2> QED  BY <1>7, <2>1, <2>2 DEF IsRequest
<1>9. GoesOn(t, r)
  <2>1. KnowsItsStage(r)'
    BY <1>1, <1>5, <1>7 DEF KnowsItsStage
  <2>2. r.at \notin ReportPlaces
    BY <1>1, <1>7 DEF TokenPlaces, ReportPlaces
  <2> QED  BY <1>5, <1>7, <1>8, <2>1, <2>2 DEF GoesOn
<1>10. [Queue!Next]_Queue!vars /\ StoreIsCounted'
  BY <1>1, <1>2, <1>4, BeginHandsOut
<1>11. \A other \in tokens : Undisturbed(other)
  BY <1>1, <1>2, <1>4, BeginDisturbs
<1>12. /\ playing' \in [Clients -> [item: Nat, phase: PlayingPhases]]
       /\ \A c \in Clients : GoesOnOrStops(c)
  BY <1>2, BrowserUntouched DEF BrowserKnowsItsItems
<1>13. \A z \in SessionIds : generation'[z] = generation[z]
  BY DEF BeginTurn
<1>14. UNCHANGED queue_vars /\ request[t].at \notin StopPlaces
  BY DEF WorkingAt, StopPlaces
<1>15. ConversationInv'
  BY <1>3, <1>9, <1>10, <1>11, <1>12, <1>13, <1>14, StoreStepKeeps
<1> QED  BY <1>10, <1>15

(* Cancelling or closing a session comes with a request on its way to the  *)
(* queue.                                                                  *)
LEMMA SessionStops ==
    ASSUME ConversationInv, UNCHANGED <<queue_vars, playing>>,
           NEW t \in Threads, WorkingAt(t, "idle"), NEW s \in SessionIds,
           Cancel(s) \/ CloseSession(s), NEW r, request' = [request EXCEPT ![t] = r],
           IsRequest(r), r.at \in StopPlaces, r.session = s
    PROVE  ConversationInv' /\ [Queue!Next]_Queue!vars
<1>1. FenceInv /\ StoreIsCounted /\ RequestsAreShaped /\ BrowserKnowsItsItems /\ IInv
  BY DEF ConversationInv, FenceInv
<1>2. StoreCall /\ UNCHANGED queue_vars
  BY DEF StoreCall
<1>3. /\ [Next]_vars /\ tokens' = tokens
      /\ [Queue!Next]_Queue!vars /\ StoreIsCounted'
  BY <1>1, <1>2, StoreCallShows
<1>4. \A other \in tokens : Undisturbed(other)
  BY <1>1, StopDisturbs
<1>5. \A z \in SessionIds : generation'[z] = generation[z] \/ z = s
  BY <1>1 DEF Cancel, CloseSession, IInv, TypeOK
<1>6. GoesOn(t, r)
  <2>1. r.at \notin TokenPlaces /\ r.at \notin ReportPlaces
    BY DEF StopPlaces, TokenPlaces, ReportPlaces
  <2>2. IsRequest(r)'
    BY <1>3 DEF IsRequest
  <2>3. KnowsItsStage(r)'
    BY <2>1 DEF KnowsItsStage
  <2> QED  BY <2>1, <2>2, <2>3 DEF GoesOn
<1>7. /\ playing' \in [Clients -> [item: Nat, phase: PlayingPhases]]
      /\ \A c \in Clients : GoesOnOrStops(c)
  BY <1>1, BrowserUntouched DEF BrowserKnowsItsItems
<1>8. request[t].at \notin StopPlaces
  BY DEF WorkingAt, StopPlaces
<1>9. ConversationInv'
  BY <1>2, <1>3, <1>4, <1>5, <1>6, <1>7, <1>8, StoreStepKeeps
<1> QED  BY <1>3, <1>9

LEMMA IdleStepKeeps ==
    ASSUME ConversationInv, NEW t \in Threads, NEW s \in SessionIds,
           \/ BeginChat(t, s) \/ BeginVoice(t, s) \/ BeginPreview(t, s)
           \/ StopSession(t, s) \/ CloseConversation(t, s)
    PROVE  ConversationInv' /\ [Queue!Next]_Queue!vars
<1>1. CASE BeginChat(t, s)
  BY <1>1, TurnBegins DEF BeginChat
<1>2. CASE BeginVoice(t, s)
  BY <1>2, TurnBegins DEF BeginVoice
<1>3. CASE BeginPreview(t, s)
  BY <1>3, TurnBegins DEF BeginPreview
<1>4. CASE StopSession(t, s)
  <2>1. PICK r : r = [at |-> "stopping", session |-> s, floor |-> generation'[s] - 1]
    OBVIOUS
  <2>2. generation'[s] - 1 \in 0 .. GenerationLimit
    BY <1>4, BoundsArePositive DEF StopSession, Cancel, ConversationInv, FenceInv, IInv, TypeOK
  <2>3. IsRequest(r) /\ r.at \in StopPlaces /\ r.session = s
    BY <2>1, <2>2 DEF IsRequest, StopPlaces
  <2> QED  BY <1>4, <2>1, <2>3, SessionStops DEF StopSession, Become
<1>5. CASE CloseConversation(t, s)
  <2>1. PICK r : r = [at |-> "closing", session |-> s]
    OBVIOUS
  <2>2. IsRequest(r) /\ r.at \in StopPlaces /\ r.session = s
    BY <2>1 DEF IsRequest, StopPlaces
  <2> QED  BY <1>5, <2>1, <2>2, SessionStops DEF CloseConversation, Become
<1> QED  BY <1>1, <1>2, <1>3, <1>4, <1>5

LEMMA RequestsUntouched ==
    ASSUME RequestsAreShaped, RequestsKnowTheirStage, UNCHANGED <<request, tokens>>,
           \A tok \in tokens : Undisturbed(tok)
    PROVE  /\ RequestsAreShaped' /\ RequestsKnowTheirStage'
           /\ \A t \in Threads : NoNewReport(t)
<1>1. ASSUME NEW t \in Threads
      PROVE  IsRequest(request[t])' /\ KnowsItsStage(request[t])'
  <2>1. PICK q : q = request[t] /\ q = request'[t]
    OBVIOUS
  <2>2. IsRequest(q) /\ KnowsItsStage(q)
    BY <2>1 DEF RequestsAreShaped, RequestsKnowTheirStage
  <2>3. IsRequest(q)'
    BY <2>2 DEF IsRequest
  <2>4. q.at \in TokenPlaces => q.tok \in tokens
    BY <2>2, RequestFacts
  <2>5. KnowsItsStage(q)'
    BY <2>2, <2>4 DEF KnowsItsStage, Undisturbed
  <2> QED  BY <2>1, <2>3, <2>5
<1>2. \A t \in Threads : NoNewReport(t)
  BY DEF NoNewReport
<1> QED  BY <1>1, <1>2 DEF RequestsAreShaped, RequestsKnowTheirStage, WorksOn

LEMMA CreateStepKeeps ==
    ASSUME ConversationInv, NEW s \in SessionIds, CreateConversation(s)
    PROVE  ConversationInv' /\ [Queue!Next]_Queue!vars
<1> USE DEF ConversationInv
<1>1. CreateSession(s) /\ UNCHANGED queue_vars /\ UNCHANGED <<request, playing>>
  BY DEF CreateConversation
<1>2. StoreCall
  BY <1>1 DEF StoreCall
<1>3. /\ [Next]_vars /\ tokens' = tokens
      /\ [Queue!Next]_Queue!vars /\ StoreIsCounted'
  BY <1>1, <1>2, StoreCallShows DEF FenceInv
<1>4. \A tok \in tokens : Undisturbed(tok)
  BY <1>1, CreateDisturbs DEF FenceInv
<1>5. FenceInv'
  BY <1>3, StepKeepsFenceInv
<1>6. QP!QueueInv'
  <2>1. [QP!Next]_QP!vars
    BY <1>3, SameSteps
  <2> QED  BY <2>1, QueueIsBounded, QP!QueueNext
<1>7. /\ RequestsAreShaped' /\ RequestsKnowTheirStage'
      /\ \A t \in Threads : NoNewReport(t)
  BY <1>1, <1>3, <1>4, RequestsUntouched
<1>8. CancelledSpeechIsBeingStopped'
  BY <1>1 DEF CreateSession, CancelledSpeechIsBeingStopped, queue_vars, Queue!LiveItems
<1>9. /\ playing' \in [Clients -> [item: Nat, phase: PlayingPhases]]
      /\ \A c \in Clients : GoesOnOrStops(c)
  BY <1>1, BrowserUntouched DEF BrowserKnowsItsItems
<1>10. BrowserKnowsItsItems'
  BY <1>1, <1>7, <1>9, BrowserStays, HandedOutUntouched
<1>11. BrowserIsTold'
  BY <1>1, <1>9, BrowserStaysTold DEF queue_vars
<1> QED  BY <1>3, <1>5, <1>6, <1>7, <1>8, <1>10, <1>11

-----------------------------------------------------------------------------
(***************************************************************************)
(* A handler that calls the queue                                          *)
(***************************************************************************)
LEMMA QueueUntouched ==
    ASSUME QP!QueueInv, UNCHANGED <<vars, queue_vars>>
    PROVE  [Queue!Next]_Queue!vars /\ QP!QueueInv' /\ QP!QueueMovesOn
<1>1. [Queue!Next]_Queue!vars
  BY UntouchedShows
<1>2. QP!QueueInv'
  <2>1. [QP!Next]_QP!vars
    BY <1>1, SameSteps
  <2> QED  BY <2>1, QueueIsBounded, QP!QueueNext
<1>3. QP!QueueMovesOn
  <2>1. playback_ids \in Nat
    BY QueueFacts
  <2>2. playback_ids' = playback_ids /\ items' = items /\ active' = active
    BY DEF queue_vars
  <2>3. QP!LiveItems' = QP!LiveItems
    BY <2>2 DEF QP!LiveItems, QP!TerminalStates
  <2> QED  BY <2>1, <2>2, <2>3 DEF QP!QueueMovesOn
<1> QED  BY <1>1, <1>2, <1>3

(* The response to a report goes to one client and ends the request.       *)
LEMMA RespondFacts ==
    ASSUME ConversationInv, NEW t \in Threads, NEW accepted \in BOOLEAN, Respond(t, accepted)
    PROVE  /\ playing' \in [Clients -> [item: Nat, phase: PlayingPhases]]
           /\ \A c \in Clients : GoesOnOrStops(c)
           /\ request' = [request EXCEPT ![t] = Idle]
<1>1. BrowserKnowsItsItems
  BY DEF ConversationInv
<1>2. ASSUME NEW c \in Clients
      PROVE  playing'[c] \in [item: Nat, phase: PlayingPhases] /\ GoesOnOrStops(c)
  <2>1. playing[c] \in [item: Nat, phase: PlayingPhases] /\ Silent \in [item: Nat, phase: PlayingPhases]
    BY <1>1, SilenceFacts
  <2>2. CASE playing'[c] = playing[c]
    BY <1>1, <2>1, <2>2, SilenceFacts DEF GoesOnOrStops
  <2>3. CASE playing'[c] = Silent
    BY <2>1, <2>3 DEF GoesOnOrStops
  <2>4. CASE playing[c].phase = "confirming" /\ playing'[c] = [playing[c] EXCEPT !.phase = "started"]
    <3>1. playing'[c].item = playing[c].item /\ playing'[c].phase = "started"
      BY <2>1, <2>4
    <3>2. playing'[c] \in [item: Nat, phase: PlayingPhases]
      BY <2>1, <2>4 DEF PlayingPhases
    <3> QED  BY <1>1, <2>4, <3>1, <3>2, SilenceFacts DEF GoesOnOrStops
  <2>5. \/ playing'[c] = playing[c] \/ playing'[c] = Silent
        \/ playing[c].phase = "confirming" /\ playing'[c] = [playing[c] EXCEPT !.phase = "started"]
    BY DEF Respond
  <2> QED  BY <2>2, <2>3, <2>4, <2>5
<1>3. playing' = [c \in Clients |-> playing'[c]]
  BY DEF Respond
<1> QED  BY <1>2, <1>3 DEF Respond, Finish, Become

LEMMA GoesIdle ==
    ASSUME NEW t \in Threads, request' = [request EXCEPT ![t] = Idle]
    PROVE  GoesOn(t, Idle)
<1>1. PICK r : r = Idle
  OBVIOUS
<1>2. IsRequest(r)' /\ KnowsItsStage(r)'
  BY <1>1, IdleFacts DEF IsRequest, KnowsItsStage
<1>3. IsRequest(Idle)' /\ KnowsItsStage(Idle)'
  BY <1>1, <1>2
<1> QED  BY <1>3, IdleFacts DEF GoesOn

(* A call of the queue that moves no client on to other speech.            *)
LEMMA QuietQueueStep ==
    ASSUME ConversationInv, UNCHANGED vars, Queue!QueueCall \/ UNCHANGED queue_vars,
           NEW t \in Threads, NEW r, GoesOn(t, r), request[t].at \notin StopPlaces,
           playing' \in [Clients -> [item: Nat, phase: PlayingPhases]],
           \A c \in Clients : GoesOnOrStops(c),
           UNCHANGED commands,
           \A c \in Clients : active'[c] = active[c] \/ playing[c].item # active[c]
    PROVE  ConversationInv' /\ [Queue!Next]_Queue!vars
<1>1. QP!QueueInv /\ IInv /\ CancelledSpeechIsBeingStopped
  BY DEF ConversationInv, FenceInv
<1>2. [Queue!Next]_Queue!vars /\ QP!QueueInv' /\ QP!QueueMovesOn
  <2>1. CASE Queue!QueueCall
    BY <1>1, <2>1, QueueCallShows
  <2>2. CASE UNCHANGED queue_vars
    BY <1>1, <2>2, QueueUntouched
  <2> QED  BY <2>1, <2>2
<1>3. /\ RequestsAreShaped' /\ RequestsKnowTheirStage'
      /\ \A u \in Threads \ {t} : request'[u] = request[u]
      /\ \A u \in Threads : NoNewReport(u)
  BY RequestGoesOn
<1>4. CancelledSpeechIsBeingStopped'
  BY <1>1, <1>2, <1>3, StopsStayOnTheirWay
<1>5. ASSUME NEW c \in Clients
      PROVE  /\ active'[c] = active[c] \/ active[c] \in Queue!ElementsOf(commands'[c])
                                       \/ playing[c].item # active[c]
             /\ Queue!ElementsOf(commands[c]) \subseteq Queue!ElementsOf(commands'[c])
  OBVIOUS
<1>6. ConversationInv'
  BY <1>2, <1>3, <1>4, <1>5, QueueStepKeeps
<1> QED  BY <1>2, <1>6

LEMMA QueueSpeechKeeps ==
    ASSUME ConversationInv, NEW t \in Threads, QueueSpeech(t)
    PROVE  ConversationInv' /\ [Queue!Next]_Queue!vars
<1>1. /\ request[t].at = "synthesizing" /\ UNCHANGED <<vars, playing>>
      /\ Queue!Enqueue(ClientOf[request[t].tok.session], request[t].tok)
      /\ request' = [request EXCEPT ![t] = [request[t] EXCEPT !.at = "queued"]]
  BY DEF QueueSpeech, WorkingAt, GoTo, Become
<1>2. /\ IInv /\ RequestsAreShaped /\ RequestsKnowTheirStage /\ BrowserKnowsItsItems
      /\ IsRequest(request[t]) /\ KnowsItsStage(request[t])
  BY DEF ConversationInv, FenceInv, RequestsAreShaped, RequestsKnowTheirStage
<1>3. request[t].at \in TokenPlaces /\ "queued" \in TokenPlaces
  BY <1>1 DEF TokenPlaces
<1>4. request[t].tok \in tokens
  BY <1>2, <1>3, RequestFacts
<1>5. PICK tok \in tokens : tok = request[t].tok
  BY <1>4
<1>6. PICK r : r = [request[t] EXCEPT !.at = "queued"]
  OBVIOUS
<1>7. IsRequest(r) /\ r.at = "queued" /\ r.tok = tok
  BY <1>2, <1>3, <1>5, <1>6, RequestMoves
<1>8. UNCHANGED <<active, commands>> /\ tok \in Current
  BY <1>1, <1>5 DEF Queue!Enqueue, Current
<1>9. Queue!QueueCall
  <2>1. ClientOf[tok.session] \in Clients
    BY <1>2, SessionsHaveClients DEF IInv, TypeOK, TurnToken
  <2> QED  BY <1>1, <1>5, <1>8, <2>1 DEF Queue!QueueCall, Current
<1>10. GoesOn(t, r)
  <2>1. IsRequest(r)' /\ tokens' = tokens
    BY <1>1, <1>7 DEF IsRequest, vars
  <2>2. Accepts(tok)' => StageOf(tok)' = "synthesizing"
    <3>1. Undisturbed(tok)
      BY <1>1, <1>2, NothingDisturbs
    <3>2. Accepts(tok) => StageOf(tok) = "synthesizing"
      BY <1>1, <1>2, <1>3, <1>5 DEF KnowsItsStage, StageAt
    <3> QED  BY <3>1, <3>2 DEF Undisturbed
  <2>3. KnowsItsStage(r)'
    BY <1>7, <2>2 DEF KnowsItsStage, StageAt
  <2>4. r.at \notin ReportPlaces
    BY <1>7 DEF ReportPlaces
  <2> QED  BY <1>1, <1>3, <1>5, <1>6, <1>7, <2>1, <2>3, <2>4 DEF GoesOn, WorksOn
<1>11. request[t].at \notin StopPlaces
  BY <1>1 DEF StopPlaces
<1>12. /\ playing' \in [Clients -> [item: Nat, phase: PlayingPhases]]
       /\ \A c \in Clients : GoesOnOrStops(c)
  BY <1>1, <1>2, BrowserUntouched DEF BrowserKnowsItsItems
<1> QED  BY <1>1, <1>8, <1>9, <1>10, <1>11, <1>12, QuietQueueStep

(* The queue is told that a session was cancelled or closed: from then on  *)
(* none of its speech is alive.                                            *)
LEMMA SessionSpeechEnds ==
    ASSUME ConversationInv, UNCHANGED <<vars, playing>>,
           NEW t \in Threads, request[t].at \in StopPlaces,
           NEW floor \in {Queue!InferredFloor(request[t].session)} \cup 0 .. GenerationLimit,
           Queue!CancelSession(request[t].session, floor), Finish(t)
    PROVE  ConversationInv' /\ [Queue!Next]_Queue!vars
<1>1. /\ QP!QueueInv /\ RequestsAreShaped /\ CancelledSpeechIsBeingStopped /\ BrowserKnowsItsItems
  BY DEF ConversationInv
<1>2. PICK s \in SessionIds : s = request[t].session
  BY <1>1, RequestFacts DEF RequestsAreShaped
<1>3. Queue!QueueCall
  BY <1>2 DEF Queue!QueueCall
<1>4. [Queue!Next]_Queue!vars /\ QP!QueueInv' /\ QP!QueueMovesOn
  BY <1>1, <1>3, QueueCallShows
<1>5. QP!TypeOK
  BY <1>1 DEF QP!QueueInv, QP!QueueIsConsistent
<1>6. floor \in Int
  <2>1. QP!InferredFloor(s) \in Int
    BY <1>5, QueueIsBounded, QP!InferredFloorIsInt
  <2> QED  BY <1>2, <2>1, SameOperators, QueueIsBounded
<1>7. /\ \A p \in QP!LiveItems' : p \in QP!LiveItems /\ items[p].token.session # s
      /\ \A c \in Clients :
            \/ active'[c] = active[c] /\ commands'[c] = commands[c]
            \/ active[c] # 0 /\ commands'[c] = <<active[c]>>
  <2>1. QP!CancelSession(s, floor)
    BY <1>2, SameCancelSession
  <2>2. UNCHANGED <<{tok \in tokens : Accepts(tok)}, tokens>>
    BY DEF vars, Accepts, LiveTurns
  <2>3. QP!NoItem = 0
    BY SameOperators
  <2> QED  BY <1>1, <1>6, <2>1, <2>2, <2>3, QueueIsBounded, QP!CancelSessionMovesOn
<1>8. /\ QP!LiveItems = Queue!LiveItems /\ QP!LiveItems' = Queue!LiveItems'
  BY DEF QP!LiveItems, Queue!LiveItems, QP!TerminalStates, Queue!TerminalStates
<1>9. GoesOn(t, Idle)
  BY GoesIdle DEF Finish, Become
<1>10. /\ RequestsAreShaped' /\ RequestsKnowTheirStage'
       /\ \A u \in Threads \ {t} : request'[u] = request[u]
       /\ \A u \in Threads : NoNewReport(u)
  BY <1>9, RequestGoesOn
<1>11. CancelledSpeechIsBeingStopped'
  <2> SUFFICES ASSUME NEW p \in Queue!LiveItems',
                      items'[p].token.generation < generation'[items'[p].token.session]
               PROVE  \E u \in Threads : /\ request'[u].at \in {"stopping", "closing"}
                                         /\ request'[u].session = items'[p].token.session
    BY DEF CancelledSpeechIsBeingStopped
  <2>1. p \in Queue!LiveItems /\ items[p].token.session # s
    BY <1>7, <1>8
  <2>2. items'[p].token = items[p].token
    <3>1. p \in 1 .. playback_ids /\ playback_ids \in Nat
      BY <1>1, <2>1, QueueFacts
    <3>2. p \in QP!LiveItems' /\ ~(p > playback_ids)
      BY <1>8, <3>1
    <3> QED  BY <1>4, <3>2 DEF QP!QueueMovesOn
  <2>3. PICK u \in Threads : /\ request[u].at \in {"stopping", "closing"}
                             /\ request[u].session = items[p].token.session
    BY <1>1, <2>1, <2>2 DEF CancelledSpeechIsBeingStopped, vars
  <2>4. u # t
    BY <1>2, <2>1, <2>3
  <2> QED  BY <1>10, <2>2, <2>3, <2>4
<1>12. /\ playing' \in [Clients -> [item: Nat, phase: PlayingPhases]]
       /\ \A c \in Clients : GoesOnOrStops(c)
  BY <1>1, BrowserUntouched DEF BrowserKnowsItsItems
<1>13. ASSUME NEW c \in Clients
       PROVE  /\ active'[c] = active[c] \/ active[c] \in Queue!ElementsOf(commands'[c])
                                        \/ playing[c].item # active[c]
              /\ Queue!ElementsOf(commands[c]) \subseteq Queue!ElementsOf(commands'[c])
  <2>1. CASE active'[c] = active[c] /\ commands'[c] = commands[c]
    BY <2>1
  <2>2. CASE active[c] # 0 /\ commands'[c] = <<active[c]>>
    <3>1. commands[c] = <<>>
      BY <1>1, <2>2, QueueFacts
    <3>2. Queue!ElementsOf(commands[c]) = {}
      BY <3>1 DEF Queue!ElementsOf
    <3>3. active[c] \in Queue!ElementsOf(commands'[c])
      BY <2>2 DEF Queue!ElementsOf
    <3> QED  BY <3>2, <3>3
  <2> QED  BY <1>7, <2>1, <2>2
<1>14. ConversationInv'
  BY <1>4, <1>10, <1>11, <1>12, <1>13, QueueStepKeeps
<1> QED  BY <1>4, <1>14

LEMMA StopStepKeeps ==
    ASSUME ConversationInv, NEW t \in Threads, StopStep(t)
    PROVE  ConversationInv' /\ [Queue!Next]_Queue!vars
<1>1. CASE StopPlayback(t)
  <2>1. request[t].floor \in 0 .. GenerationLimit
    BY <1>1, RequestFacts DEF StopPlayback, WorkingAt, ConversationInv, RequestsAreShaped
  <2> QED  BY <1>1, <2>1, SessionSpeechEnds DEF StopPlayback, WorkingAt, StopPlaces
<1>2. CASE ClosePlayback(t)
  BY <1>2, SessionSpeechEnds DEF ClosePlayback, WorkingAt, StopPlaces
<1> QED  BY <1>1, <1>2 DEF StopStep

-----------------------------------------------------------------------------
(***************************************************************************)
(* Reports of the browser, and what it is handed                           *)
(***************************************************************************)
LEMMA LookUpKeeps ==
    ASSUME ConversationInv, NEW t \in Threads, LookUpItem(t)
    PROVE  ConversationInv' /\ [Queue!Next]_Queue!vars
<1>1. request[t].at = "reported" /\ UNCHANGED <<vars, queue_vars>>
  BY DEF LookUpItem, WorkingAt
<1>2. /\ QP!QueueInv /\ IsRequest(request[t]) /\ BrowserKnowsItsItems
  BY DEF ConversationInv, RequestsAreShaped
<1>3. UNCHANGED <<active, commands>> /\ request[t].at \notin StopPlaces
      /\ request[t].at \in ReportPlaces
  BY <1>1 DEF queue_vars, StopPlaces, ReportPlaces
<1>4. CASE request[t].item \in DOMAIN items
  <2>1. PICK r : r = [at |-> "found", client |-> request[t].client,
                      item |-> request[t].item, state |-> request[t].state,
                      before |-> items[request[t].item].state]
    OBVIOUS
  <2>2. UNCHANGED playing /\ request' = [request EXCEPT ![t] = r]
    BY <1>4, <2>1 DEF LookUpItem, Become
  <2>3. items[request[t].item].state \in Queue!PlaybackState
    BY <1>2, <1>4, QueueFacts DEF Queue!TypeOK, Queue!PlaybackItem
  <2>4. /\ request[t].client \in Clients /\ request[t].item \in Nat /\ request[t].state \in Reports
    BY <1>2, <1>3, RequestFacts
  <2>5. r \in [at: {"found", "acknowledged"}, client: Clients, item: Nat, state: Reports,
               before: Queue!PlaybackState]
    BY <2>1, <2>3, <2>4
  <2>6. /\ r.at = "found" /\ r.client = request[t].client /\ r.item = request[t].item
        /\ r.state = request[t].state
    BY <2>1
  <2>7. GoesOn(t, r)
    <3>1. IsRequest(r)'
      BY <2>5 DEF IsRequest, Queue!PlaybackState, Queue!TerminalStates
    <3>2. r.at \notin TokenPlaces
      BY <2>6 DEF TokenPlaces
    <3> QED  BY <1>3, <2>2, <2>6, <3>1, <3>2 DEF GoesOn, KnowsItsStage
  <2>8. /\ playing' \in [Clients -> [item: Nat, phase: PlayingPhases]]
        /\ \A c \in Clients : GoesOnOrStops(c)
    BY <1>2, <2>2, BrowserUntouched DEF BrowserKnowsItsItems
  <2> QED  BY <1>1, <1>3, <2>7, <2>8, QuietQueueStep
<1>5. CASE request[t].item \notin DOMAIN items
  <2>1. Respond(t, FALSE)
    BY <1>5 DEF LookUpItem
  <2>2. /\ playing' \in [Clients -> [item: Nat, phase: PlayingPhases]]
        /\ \A c \in Clients : GoesOnOrStops(c)
        /\ GoesOn(t, Idle)
    BY <2>1, RespondFacts, GoesIdle
  <2> QED  BY <1>1, <1>3, <2>2, QuietQueueStep
<1> QED  BY <1>4, <1>5

LEMMA AcknowledgeKeeps ==
    ASSUME ConversationInv, NEW t \in Threads, AcknowledgeItem(t)
    PROVE  ConversationInv' /\ [Queue!Next]_Queue!vars
<1>1. /\ request[t].at = "found" /\ UNCHANGED vars
  BY DEF AcknowledgeItem, WorkingAt
<1>2. /\ QP!QueueInv /\ IsRequest(request[t]) /\ BrowserKnowsItsItems
  BY DEF ConversationInv, RequestsAreShaped
<1>3. request[t].at \notin StopPlaces /\ request[t].at \in ReportPlaces
  BY <1>1 DEF StopPlaces, ReportPlaces
<1>4. PICK c \in Clients, p \in Nat, state \in Reports :
         c = request[t].client /\ p = request[t].item /\ state = request[t].state
  BY <1>2, <1>3, RequestFacts
<1>5. /\ Queue!QueueCall \/ UNCHANGED queue_vars
      /\ UNCHANGED commands
      /\ \A d \in Clients : active'[d] = active[d] \/ playing[d].item # active[d]
  <2>1. CASE state = "started" /\ Queue!AckStarted(c, p)
    <3>1. p \in DOMAIN items /\ UNCHANGED <<commands, active>>
      BY <2>1 DEF Queue!AckStarted, Queue!CanStart
    <3> QED  BY <2>1, <3>1 DEF Queue!QueueCall
  <2>2. CASE Queue!CanFinish(c, p, state) /\ Queue!AckFinished(c, p, state)
    <3>1. /\ p \in DOMAIN items /\ state \in Queue!TerminalStates /\ active[c] = p
          /\ active' = [active EXCEPT ![c] = Queue!NoItem] /\ UNCHANGED commands
      BY <2>2 DEF Queue!AckFinished, Queue!CanFinish, Queue!LiveItems
    <3>2. state # "started"
      BY <3>1 DEF Queue!TerminalStates
    <3>3. playing[c].item # p
      BY <1>2, <1>3, <1>4, <3>2 DEF BrowserKnowsItsItems, ReportFits
    <3>4. \A d \in Clients : d # c => active'[d] = active[d]
      BY <1>2, <3>1, QueueFacts
    <3> QED  BY <2>2, <3>1, <3>3, <3>4 DEF Queue!QueueCall
  <2>3. CASE UNCHANGED queue_vars
    BY <2>3 DEF queue_vars
  <2> QED  BY <1>4, <2>1, <2>2, <2>3 DEF AcknowledgeItem
<1>6. CASE GoTo(t, "acknowledged") /\ UNCHANGED playing
  <2>1. PICK r : r = [request[t] EXCEPT !.at = "acknowledged"]
    OBVIOUS
  <2>2. request[t] \in [at: {"found", "acknowledged"}, client: Clients, item: Nat, state: Reports,
                        before: Queue!PlaybackState]
    BY <1>1, <1>2, RequestFacts
  <2>3. /\ r \in [at: {"found", "acknowledged"}, client: Clients, item: Nat, state: Reports,
                  before: Queue!PlaybackState]
        /\ r.at = "acknowledged" /\ r.client = request[t].client /\ r.item = request[t].item
        /\ r.state = request[t].state
    BY <2>1, <2>2
  <2>4. GoesOn(t, r)
    <3>1. IsRequest(r)'
      BY <2>3 DEF IsRequest, Queue!PlaybackState, Queue!TerminalStates
    <3>2. r.at \notin TokenPlaces
      BY <2>3 DEF TokenPlaces
    <3> QED  BY <1>3, <1>6, <2>1, <2>3, <3>1, <3>2 DEF GoesOn, KnowsItsStage, GoTo, Become
  <2>5. /\ playing' \in [Clients -> [item: Nat, phase: PlayingPhases]]
        /\ \A d \in Clients : GoesOnOrStops(d)
    BY <1>2, <1>6, BrowserUntouched DEF BrowserKnowsItsItems
  <2> QED  BY <1>1, <1>3, <1>5, <2>4, <2>5, QuietQueueStep
<1>7. CASE Respond(t, FALSE)
  <2>1. /\ playing' \in [Clients -> [item: Nat, phase: PlayingPhases]]
        /\ \A d \in Clients : GoesOnOrStops(d)
        /\ GoesOn(t, Idle)
    BY <1>7, RespondFacts, GoesIdle
  <2> QED  BY <1>1, <1>3, <1>5, <2>1, QuietQueueStep
<1> QED  BY <1>6, <1>7 DEF AcknowledgeItem

(* A token that is accepted was handed out. *)
LEMMA AcceptedWasHandedOut ==
    ASSUME IInv, NEW tok \in TurnToken, Accepts(tok)
    PROVE  tok \in tokens
<1>1. tok.session \in SessionIds
  BY DEF TurnToken
<1>2. PICK i \in LiveTurns(tok.session) :
         turns[tok.session][i].id = tok.turn /\ turns[tok.session][i].generation = tok.generation
  BY DEF Accepts
<1>3. TokenOf(tok.session, turns[tok.session][i]) = tok
  BY <1>2 DEF TokenOf, TurnToken
<1> QED  BY <1>1, <1>2, <1>3 DEF LiveTurns, IInv, TurnsAreOrdered

(* A turn follows its audio only when its own request is done with it.     *)
LEMMA SettledTurnIsNobodys ==
    ASSUME ConversationInv, NEW tok \in tokens, NEW stage \in {"playing", "completed", "failed"},
           Transition(tok, stage)
    PROVE  \A u \in Threads : \A other \in tokens : WorksOn(u, other) => Undisturbed(other)
<1>1. /\ FenceInv /\ IInv /\ RequestsAreShaped /\ RequestsKnowTheirStage
      /\ stage \in TurnStage /\ Accepts(tok)
  BY DEF ConversationInv, FenceInv, Transition, TurnStage, LiveStages, TerminalStages
<1>2. FenceInv'
  BY <1>1, TransitionIsNext, StepKeepsFenceInv
<1>3. /\ \A other \in tokens \ {tok} : Undisturbed(other)
      /\ Accepts(tok)' => StageOf(tok)' = stage
  BY <1>1, <1>2, TransitionDisturbs
<1>4. ASSUME NEW u \in Threads, WorksOn(u, tok) PROVE Undisturbed(tok)
  <2>1. CASE stage \in {"completed", "failed"}
    <3>1. tok \in tokens'
      BY <1>1, TransitionFacts
    <3>2. Accepts(tok)' => StageOf(tok)' \in LiveStages
      BY <1>2, <3>1, CurrentTurnNext DEF CurrentTurnsAreNewest, FenceInv
    <3> QED  BY <1>3, <2>1, <3>2 DEF Undisturbed, LiveStages
  <2>2. CASE stage = "playing"
    <3>1. PICK i \in LiveTurns(tok.session) : <<turns[tok.session][i].stage, stage>> \in Transitions
      BY DEF Transition
    <3>2. turns[tok.session][i].stage = "playback_queued"
      BY <2>2, <3>1 DEF Transitions
    <3>3. StageOf(tok) = turns[tok.session][i].stage
      BY <1>1, CurrentTurn DEF CurrentTurnsAreNewest
    <3>4. request[u].at \in TokenPlaces /\ StageOf(tok) = StageAt(request[u].at)
      BY <1>1, <1>4 DEF WorksOn, RequestsKnowTheirStage, KnowsItsStage
    <3>5. StageAt(request[u].at) # "playback_queued"
      BY <3>4 DEF StageAt, TokenPlaces
    <3> QED  BY <3>2, <3>3, <3>4, <3>5
  <2> QED  BY <2>1, <2>2
<1> QED  BY <1>3, <1>4

LEMMA SettleKeeps ==
    ASSUME ConversationInv, NEW t \in Threads, SettleTurn(t)
    PROVE  ConversationInv' /\ [Queue!Next]_Queue!vars
<1> DEFINE r == request[t]
           tok == items[r.item].token
           stage == StageFor(r.state)
<1>1. /\ r.at = "acknowledged" /\ UNCHANGED queue_vars
      /\ \E accepted \in BOOLEAN : Respond(t, accepted)
      /\ \/ UNCHANGED vars
         \/ r.item \in DOMAIN items /\ Accepts(tok) /\ Transition(tok, stage)
  BY DEF SettleTurn, WorkingAt
<1>2. /\ QP!QueueInv /\ IsRequest(r) /\ IInv /\ FenceInv /\ StoreIsCounted
  BY DEF ConversationInv, RequestsAreShaped, FenceInv
<1>3. r.at \notin StopPlaces /\ r.state \in {"started", "completed", "failed"}
  <2>1. r.at \in ReportPlaces /\ r.at \notin StopPlaces
    BY <1>1 DEF StopPlaces, ReportPlaces
  <2>2. r.state \in Reports
    BY <1>2, <2>1, RequestFacts
  <2> QED  BY <2>1, <2>2 DEF Reports
<1>4. /\ playing' \in [Clients -> [item: Nat, phase: PlayingPhases]]
      /\ \A c \in Clients : GoesOnOrStops(c)
      /\ GoesOn(t, Idle)
  BY <1>1, RespondFacts, GoesIdle
<1>5. CASE UNCHANGED vars
  <2>1. UNCHANGED <<active, commands>>
    BY <1>1 DEF queue_vars
  <2> QED  BY <1>1, <1>3, <1>4, <1>5, <2>1, QuietQueueStep
<1>6. CASE r.item \in DOMAIN items /\ Accepts(tok) /\ Transition(tok, stage)
  <2>1. tok \in TurnToken
    BY <1>2, <1>6, QueueFacts DEF Queue!TypeOK, Queue!PlaybackItem, Queue!TurnToken, TurnToken
  <2>2. tok \in tokens
    BY <1>2, <1>6, <2>1, AcceptedWasHandedOut
  <2>3. stage \in {"playing", "completed", "failed"}
    BY <1>3 DEF StageFor
  <2>4. PICK own \in tokens, next \in {"playing", "completed", "failed"} :
           own = tok /\ next = stage
    BY <2>2, <2>3
  <2>5. Transition(own, next) /\ next \in TurnStage
    BY <1>6, <2>4 DEF TurnStage, LiveStages, TerminalStages
  <2>6. \A u \in Threads : \A other \in tokens : WorksOn(u, other) => Undisturbed(other)
    BY <2>5, SettledTurnIsNobodys
  <2>7. StoreCall
    BY <2>5 DEF StoreCall
  <2>8. [Next]_vars /\ [Queue!Next]_Queue!vars /\ StoreIsCounted' /\ UNCHANGED queue_vars
    BY <1>1, <1>2, <2>7, StoreCallShows
  <2>9. \A s \in SessionIds : generation'[s] = generation[s]
    BY <2>5 DEF Transition
  <2>10. request[t].at \notin StopPlaces
    BY <1>3
  <2>11. ConversationInv'
    <3> HIDE DEF r, tok, stage
    <3> QED  BY <1>4, <2>6, <2>8, <2>9, <2>10, StoreStepKeeps
  <2> QED  BY <2>8, <2>11
<1> QED  BY <1>1, <1>5, <1>6

LEMMA AckStepKeeps ==
    ASSUME ConversationInv, NEW t \in Threads, AckStep(t)
    PROVE  ConversationInv' /\ [Queue!Next]_Queue!vars
BY LookUpKeeps, AcknowledgeKeeps, SettleKeeps DEF AckStep

(* A browser begins a report about the item it has. *)
LEMMA ReportKeeps ==
    ASSUME ConversationInv, NEW t \in Threads, NEW c \in Clients, NEW state \in Reports,
           Report(t, c, state), playing[c] # Silent,
           playing' \in [Clients -> [item: Nat, phase: PlayingPhases]],
           \A d \in Clients : GoesOnOrStops(d),
           state # "started" => playing'[c] = Silent
    PROVE  ConversationInv' /\ [Queue!Next]_Queue!vars
<1>1. /\ QP!QueueInv /\ IInv /\ CancelledSpeechIsBeingStopped /\ BrowserKnowsItsItems
      /\ RequestsAreShaped /\ RequestsKnowTheirStage
  BY DEF ConversationInv, FenceInv
<1>2. request[t].at = "idle" /\ UNCHANGED <<vars, queue_vars>>
  BY DEF Report, WorkingAt
<1>3. [Queue!Next]_Queue!vars /\ QP!QueueInv' /\ QP!QueueMovesOn
  BY <1>1, <1>2, QueueUntouched
<1>4. PICK p \in Nat : p = playing[c].item
  BY <1>1, SilenceFacts
<1>5. PICK r : r = [at |-> "reported", client |-> c, item |-> p, state |-> state]
  OBVIOUS
<1>6. /\ r.at = "reported" /\ r.client = c /\ r.item = p /\ r.state = state
      /\ request' = [request EXCEPT ![t] = r]
  BY <1>4, <1>5 DEF Report, Become
<1>7. /\ RequestsAreShaped' /\ RequestsKnowTheirStage'
      /\ request'[t] = r /\ \A u \in Threads \ {t} : request'[u] = request[u]
  <2>1. r \in [at: {"reported"}, client: Clients, item: Nat, state: Reports]
    BY <1>5
  <2>2. IsRequest(r)'
    BY <2>1 DEF IsRequest
  <2>3. r.at \notin TokenPlaces /\ KnowsItsStage(r)'
    BY <1>6 DEF TokenPlaces, KnowsItsStage
  <2>4. tokens' = tokens
    BY <1>2 DEF vars
  <2>5. /\ RequestsAreShaped'
        /\ request'[t] = r /\ \A u \in Threads \ {t} : request'[u] = request[u]
    BY <1>1, <1>6, <2>2, <2>3, <2>4, RequestsStayShaped
  <2> QED  BY <1>1, <1>2, <2>3, <2>5, NothingDisturbs, StagesStayKnown
<1>8. HandedOut(c, p)
  BY <1>1, <1>4 DEF BrowserKnowsItsItems
<1>9. ReportFits(t)'
  <2>1. HandedOut(c, p)'
    BY <1>2, <1>8, HandedOutUntouched
  <2>2. p # 0
    BY <1>8 DEF HandedOut
  <2>3. state # "started" => playing'[c].item # p
    BY <1>1, <2>2, SilenceFacts
  <2> QED  BY <1>6, <1>7, <2>1, <2>3 DEF ReportFits
<1>10. \A u \in Threads : NoNewReport(u) \/ ReportFits(u)'
  BY <1>7, <1>9 DEF NoNewReport
<1>11. CancelledSpeechIsBeingStopped'
  <2>1. \A u \in Threads : request[u].at \in StopPlaces => request'[u] = request[u]
    BY <1>2, <1>7 DEF StopPlaces
  <2> QED  BY <1>1, <1>2, <1>3, <2>1, StopsStayOnTheirWay
<1>12. UNCHANGED <<active, commands>>
  BY <1>2 DEF queue_vars
<1>13. ConversationInv'
  BY <1>2, <1>3, <1>7, <1>10, <1>11, <1>12, QueueStepKeeps
<1> QED  BY <1>3, <1>13

LEMMA ReportStepKeeps ==
    ASSUME ConversationInv, NEW t \in Threads, NEW c \in Clients,
           ReportStarted(t, c) \/ ReportEnd(t, c)
    PROVE  ConversationInv' /\ [Queue!Next]_Queue!vars
<1>1. BrowserKnowsItsItems /\ playing \in [Clients -> [item: Nat, phase: PlayingPhases]]
  BY DEF ConversationInv, BrowserKnowsItsItems
<1>2. /\ playing[c] = Silent <=> playing[c].phase = "none"
      /\ Silent \in [item: Nat, phase: PlayingPhases] /\ playing[c] \in [item: Nat, phase: PlayingPhases]
  BY <1>1, SilenceFacts
<1>3. CASE ReportStarted(t, c)
  <2>1. /\ playing[c].phase = "loading" /\ Report(t, c, "started")
        /\ playing' = [playing EXCEPT ![c] = [playing[c] EXCEPT !.phase = "confirming"]]
    BY <1>3 DEF ReportStarted
  <2>2. PICK p : p = [playing[c] EXCEPT !.phase = "confirming"]
    OBVIOUS
  <2>3. /\ p \in [item: Nat, phase: PlayingPhases]
        /\ p.phase = "confirming" /\ p.item = playing[c].item
    BY <1>2, <2>2 DEF PlayingPhases
  <2>4. /\ playing' \in [Clients -> [item: Nat, phase: PlayingPhases]]
        /\ playing'[c] = p /\ \A d \in Clients \ {c} : playing'[d] = playing[d]
    BY <1>1, <2>1, <2>2, <2>3
  <2>5. \A d \in Clients : GoesOnOrStops(d)
    BY <1>1, <1>2, <2>1, <2>3, <2>4, SilenceFacts DEF GoesOnOrStops
  <2> QED  BY <1>2, <2>1, <2>4, <2>5, ReportKeeps DEF Reports
<1>4. CASE ReportEnd(t, c)
  <2>1. PICK state \in {"completed", "failed"} :
           /\ playing[c].phase # "none" /\ Report(t, c, state)
           /\ playing' = [playing EXCEPT ![c] = Silent]
    BY <1>4 DEF ReportEnd, ReportCompleted, ReportFailed
  <2>2. /\ playing' \in [Clients -> [item: Nat, phase: PlayingPhases]]
        /\ playing'[c] = Silent /\ \A d \in Clients \ {c} : playing'[d] = playing[d]
    BY <1>1, <1>2, <2>1
  <2>3. \A d \in Clients : GoesOnOrStops(d)
    BY <1>1, <2>2, SilenceFacts DEF GoesOnOrStops
  <2> QED  BY <1>2, <2>1, <2>2, <2>3, ReportKeeps DEF Reports
<1> QED  BY <1>3, <1>4

(* What a poll leaves to the queue, the handlers and the stops.            *)
LEMMA PollFacts ==
    ASSUME ConversationInv, NEW c \in Clients, Queue!NextCommand(c), UNCHANGED <<vars, request>>
    PROVE  /\ [Queue!Next]_Queue!vars /\ QP!QueueInv' /\ QP!QueueMovesOn
           /\ CancelledSpeechIsBeingStopped'
           /\ RequestsAreShaped' /\ RequestsKnowTheirStage'
           /\ \A t \in Threads : NoNewReport(t)
<1>1. /\ QP!QueueInv /\ IInv /\ CancelledSpeechIsBeingStopped
      /\ RequestsAreShaped /\ RequestsKnowTheirStage
  BY DEF ConversationInv, FenceInv
<1>2. [Queue!Next]_Queue!vars /\ QP!QueueInv' /\ QP!QueueMovesOn
  <2>1. Queue!QueueCall
    BY DEF Queue!QueueCall
  <2> QED  BY <1>1, <2>1, QueueCallShows
<1>3. CancelledSpeechIsBeingStopped'
  BY <1>1, <1>2, StopsStayOnTheirWay
<1>4. /\ RequestsAreShaped' /\ RequestsKnowTheirStage'
      /\ \A t \in Threads : NoNewReport(t)
  <2>1. tokens' = tokens
    BY DEF vars
  <2> QED  BY <1>1, <2>1, NothingDisturbs, RequestsUntouched
<1> QED  BY <1>2, <1>3, <1>4

LEMMA StopCommandKeeps ==
    ASSUME ConversationInv, NEW c \in Clients, Queue!StopCommand(c), UNCHANGED <<vars, request>>,
           playing' = IF playing[c].item = Head(commands[c])
                      THEN [playing EXCEPT ![c] = Silent] ELSE playing
    PROVE  ConversationInv' /\ [Queue!Next]_Queue!vars
<1>1. QP!QueueInv /\ BrowserKnowsItsItems /\ BrowserIsTold
  BY DEF ConversationInv
<1>2. /\ [Queue!Next]_Queue!vars /\ QP!QueueInv' /\ QP!QueueMovesOn
      /\ CancelledSpeechIsBeingStopped'
      /\ RequestsAreShaped' /\ RequestsKnowTheirStage'
      /\ \A t \in Threads : NoNewReport(t)
  BY PollFacts DEF Queue!NextCommand
<1>3. /\ active' = active /\ \A d \in Clients \ {c} : commands'[d] = commands[d]
      /\ commands[c] \in Seq(Nat) /\ Len(commands[c]) = 1 /\ active[c] = 0
  BY <1>1, QueueFacts DEF Queue!StopCommand
<1>4. playing[c] # Silent => playing[c].item = Head(commands[c])
  <2>1. Queue!ElementsOf(commands[c]) = {Head(commands[c])}
    BY <1>3 DEF Queue!ElementsOf
  <2>2. playing[c] # Silent => playing[c].item # 0
    BY <1>1, SilenceFacts
  <2> QED  BY <1>1, <1>3, <2>1, <2>2 DEF BrowserIsTold
<1>5. /\ playing \in [Clients -> [item: Nat, phase: PlayingPhases]]
      /\ Silent \in [item: Nat, phase: PlayingPhases]
  BY <1>1, SilenceFacts DEF BrowserKnowsItsItems
<1>6. /\ playing' \in [Clients -> [item: Nat, phase: PlayingPhases]]
      /\ playing'[c] = Silent /\ \A d \in Clients \ {c} : playing'[d] = playing[d]
  BY <1>4, <1>5
<1>7. \A d \in Clients : GoesOnOrStops(d)
  BY <1>1, <1>6, SilenceFacts DEF GoesOnOrStops
<1>8. \A d \in Clients :
         playing'[d] # Silent =>
            active'[d] = active[d] /\ Queue!ElementsOf(commands[d]) \subseteq Queue!ElementsOf(commands'[d])
  BY <1>3, <1>6
<1>9. ConversationInv'
  BY <1>2, <1>6, <1>7, <1>8, QueueStepKeeps
<1> QED  BY <1>2, <1>9

LEMMA NoCommandKeeps ==
    ASSUME ConversationInv, NEW c \in Clients, Queue!NoCommand(c), UNCHANGED <<vars, request, playing>>
    PROVE  ConversationInv' /\ [Queue!Next]_Queue!vars
<1>1. BrowserKnowsItsItems
  BY DEF ConversationInv
<1>2. /\ [Queue!Next]_Queue!vars /\ QP!QueueInv' /\ QP!QueueMovesOn
      /\ CancelledSpeechIsBeingStopped'
      /\ RequestsAreShaped' /\ RequestsKnowTheirStage'
      /\ \A t \in Threads : NoNewReport(t)
  BY PollFacts DEF Queue!NextCommand
<1>3. UNCHANGED <<active, commands>>
  BY DEF Queue!NoCommand
<1>4. /\ playing' \in [Clients -> [item: Nat, phase: PlayingPhases]]
      /\ \A d \in Clients : GoesOnOrStops(d)
  BY <1>1, BrowserUntouched DEF BrowserKnowsItsItems
<1>5. ConversationInv'
  BY <1>2, <1>3, <1>4, QueueStepKeeps
<1> QED  BY <1>2, <1>5

(* A browser is handed an item only when it has none: what it had is over  *)
(* on the server, and no STOP is waiting.                                  *)
LEMMA PlayCommandKeeps ==
    ASSUME ConversationInv, NEW c \in Clients, Queue!PlayCommand(c), UNCHANGED <<vars, request>>,
           playing' = [playing EXCEPT ![c] = [item |-> active'[c], phase |-> "loading"]]
    PROVE  ConversationInv' /\ [Queue!Next]_Queue!vars
<1>1. QP!QueueInv /\ BrowserKnowsItsItems /\ BrowserIsTold /\ FenceInv /\ StoreIsCounted
      /\ RequestsAreShaped
  BY DEF ConversationInv
<1>2. /\ [Queue!Next]_Queue!vars /\ QP!QueueInv' /\ QP!QueueMovesOn
      /\ CancelledSpeechIsBeingStopped'
      /\ RequestsAreShaped' /\ RequestsKnowTheirStage'
      /\ \A t \in Threads : NoNewReport(t)
  BY PollFacts DEF Queue!NextCommand
<1>3. FenceInv' /\ StoreIsCounted'
  BY <1>1, StoreUntouched
<1>4. /\ active[c] = 0 /\ commands' = commands /\ playback_ids' = playback_ids
      /\ \E n \in DOMAIN queued[c] : active' = [active EXCEPT ![c] = queued[c][n]]
  BY SameOperators DEF Queue!PlayCommand
<1>5. PICK p : p = active'[c]
  OBVIOUS
<1>6. /\ p \in 1 .. playback_ids /\ p \in Queue!LiveItems /\ p \in Nat /\ p # 0
      /\ \A d \in Clients \ {c} : active'[d] = active[d]
  BY <1>1, <1>4, <1>5, QueueFacts
<1>7. /\ playing' \in [Clients -> [item: Nat, phase: PlayingPhases]]
      /\ playing'[c].item = p /\ playing'[c].phase = "loading"
      /\ \A d \in Clients \ {c} : playing'[d] = playing[d]
  BY <1>1, <1>5, <1>6 DEF BrowserKnowsItsItems, PlayingPhases
<1>8. \A d \in Clients, q \in Nat : HandedOut(d, q) => HandedOut(d, q)'
  BY <1>1, <1>2, HandedOutStays
<1>9. ASSUME NEW d \in Clients
      PROVE  /\ playing'[d].phase = "none" <=> playing'[d].item = 0
             /\ playing'[d] # Silent => HandedOut(d, playing[d].item)' \/ d = c
  <2>1. CASE d = c
    BY <1>6, <1>7, <2>1
  <2>2. CASE d # c
    <3>1. PICK q \in Nat : q = playing[d].item /\ q = playing'[d].item
      BY <1>1, <1>7, <2>2 DEF BrowserKnowsItsItems
    <3>2. playing'[d] # Silent => HandedOut(d, q)'
      BY <1>1, <1>7, <1>8, <2>2, <3>1 DEF BrowserKnowsItsItems
    <3>3. playing'[d].phase = "none" <=> playing'[d].item = 0
      BY <1>1, <1>7, <2>2, SameOperators DEF BrowserKnowsItsItems
    <3> QED  BY <3>1, <3>2, <3>3
  <2> QED  BY <2>1, <2>2
<1>10. HandedOut(c, p)'
  BY <1>4, <1>5, <1>6 DEF HandedOut
<1>11. ASSUME NEW t \in Threads
       PROVE  ReportFits(t)'
  <2> SUFFICES ASSUME request[t].at \in ReportPlaces PROVE ReportFits(t)'
    BY DEF ReportFits
  <2>1. PICK d \in Clients, q \in Nat :
           /\ d = request[t].client /\ d = request'[t].client
           /\ q = request[t].item /\ q = request'[t].item
    BY <1>1, RequestFacts DEF RequestsAreShaped
  <2>2. HandedOut(d, q) /\ (request[t].state # "started" => playing[d].item # q)
    BY <1>1, <2>1 DEF BrowserKnowsItsItems, ReportFits
  <2>3. HandedOut(d, q)'
    BY <1>8, <2>2
  <2>4. d = c => q # p
    BY <1>4, <1>6, <2>2 DEF HandedOut
  <2>5. request'[t].state # "started" => playing'[d].item # q
    BY <1>7, <2>2, <2>4
  <2> QED  BY <2>1, <2>3, <2>5 DEF ReportFits
<1>12. BrowserKnowsItsItems'
  <2>1. ASSUME NEW d \in Clients, playing'[d] # Silent PROVE HandedOut(d, playing[d].item)' 
    <3>1. CASE d = c
      <4>1. playing'[c].item = p
        BY <1>7
      <4> QED  BY <1>10, <3>1, <4>1
    <3>2. CASE d # c
      BY <1>9, <2>1, <3>2
    <3> QED  BY <3>1, <3>2
  <2> QED  BY <1>7, <1>9, <1>11, <2>1, SameOperators DEF BrowserKnowsItsItems
<1>13. BrowserIsTold'
  <2> SUFFICES ASSUME NEW d \in Clients, playing'[d] # Silent
               PROVE  \/ playing'[d].item = active'[d]
                      \/ playing'[d].item \in Queue!ElementsOf(commands'[d])
    BY DEF BrowserIsTold, Queue!ElementsOf
  <2> QED  BY <1>1, <1>4, <1>5, <1>6, <1>7 DEF BrowserIsTold
<1>14. ConversationInv'
  BY <1>2, <1>3, <1>12, <1>13 DEF ConversationInv
<1> QED  BY <1>2, <1>14

-----------------------------------------------------------------------------
(***************************************************************************)
(* The theorems                                                            *)
(***************************************************************************)
LEMMA ConversationInitInv ==
    ConversationInit => ConversationInv /\ Queue!Init
<1> SUFFICES ASSUME ConversationInit PROVE ConversationInv /\ Queue!Init
  OBVIOUS
<1> USE DEF ConversationInit
<1>1. FenceInv
  BY InitFenceInv
<1>2. StoreIsCounted
  BY FS_EmptySet, BoundsArePositive DEF Init, StoreIsCounted
<1>3. Queue!Init
  <2>1. tokens = {} /\ {tok \in tokens : Accepts(tok)} = {}
    BY DEF Init
  <2> QED  BY <2>1 DEF Queue!Init
<1>4. QP!QueueInv
  <2>1. QP!Init
    BY <1>3, SameNext
  <2> QED  BY <2>1, QueueIsBounded, QP!QueueInit
<1>5. Queue!LiveItems = {}
  BY DEF Queue!LiveItems
<1>6. \A t \in Threads : request[t] = Idle
  OBVIOUS
<1>7. RequestsAreShaped /\ RequestsKnowTheirStage
  BY <1>6, IdleFacts DEF RequestsAreShaped, RequestsKnowTheirStage, KnowsItsStage, WorksOn
<1>8. CancelledSpeechIsBeingStopped
  BY <1>5 DEF CancelledSpeechIsBeingStopped
<1>9. BrowserKnowsItsItems
  BY <1>6, IdleFacts, SameOperators DEF BrowserKnowsItsItems, ReportFits, Silent, PlayingPhases
<1>10. BrowserIsTold
  BY DEF BrowserIsTold
<1> QED  BY <1>1, <1>2, <1>3, <1>4, <1>7, <1>8, <1>9, <1>10 DEF ConversationInv

LEMMA ConversationUntouched ==
    ASSUME ConversationInv, UNCHANGED all_vars
    PROVE  ConversationInv' /\ [Queue!Next]_Queue!vars
<1>1. UNCHANGED <<vars, request, playing>> /\ UNCHANGED queue_vars
  BY DEF all_vars
<1>2. /\ QP!QueueInv /\ IInv /\ CancelledSpeechIsBeingStopped /\ BrowserKnowsItsItems
      /\ RequestsAreShaped /\ RequestsKnowTheirStage
  BY DEF ConversationInv, FenceInv
<1>3. [Queue!Next]_Queue!vars /\ QP!QueueInv' /\ QP!QueueMovesOn
  BY <1>1, <1>2, QueueUntouched
<1>4. CancelledSpeechIsBeingStopped'
  BY <1>1, <1>2, <1>3, StopsStayOnTheirWay
<1>5. /\ RequestsAreShaped' /\ RequestsKnowTheirStage'
      /\ \A t \in Threads : NoNewReport(t)
  <2>1. tokens' = tokens
    BY <1>1 DEF vars
  <2> QED  BY <1>1, <1>2, <2>1, NothingDisturbs, RequestsUntouched
<1>6. /\ playing' \in [Clients -> [item: Nat, phase: PlayingPhases]]
      /\ \A c \in Clients : GoesOnOrStops(c)
  BY <1>1, <1>2, BrowserUntouched DEF BrowserKnowsItsItems
<1>7. UNCHANGED <<active, commands>>
  BY <1>1 DEF queue_vars
<1>8. ConversationInv'
  BY <1>1, <1>3, <1>4, <1>5, <1>6, <1>7, QueueStepKeeps
<1> QED  BY <1>3, <1>8

LEMMA PollKeeps ==
    ASSUME ConversationInv, NEW c \in Clients, Poll(c)
    PROVE  ConversationInv' /\ [Queue!Next]_Queue!vars
BY StopCommandKeeps, PlayCommandKeeps, NoCommandKeeps DEF Poll

(* Every step of the conversation keeps the invariant, and is a step that  *)
(* PlaybackQueue allows.                                                   *)
LEMMA ConversationStep ==
    ConversationInv /\ [ConversationNext]_all_vars => ConversationInv' /\ [Queue!Next]_Queue!vars
<1> SUFFICES ASSUME ConversationInv, [ConversationNext]_all_vars
             PROVE  ConversationInv' /\ [Queue!Next]_Queue!vars
  OBVIOUS
<1>1. CASE \E s \in SessionIds : CreateConversation(s)
  BY <1>1, CreateStepKeeps
<1>2. CASE \E t \in Threads, s \in SessionIds :
              \/ BeginChat(t, s) \/ BeginVoice(t, s) \/ BeginPreview(t, s)
              \/ StopSession(t, s) \/ CloseConversation(t, s)
  BY <1>2, IdleStepKeeps
<1>3. ASSUME NEW t \in Threads, TurnStep(t) \/ Escape(t)
      PROVE  ConversationInv' /\ [Queue!Next]_Queue!vars
  BY <1>3, TurnStepKeeps, QueueSpeechKeeps DEF TurnStep
<1>4. ASSUME NEW t \in Threads, StopStep(t) \/ AckStep(t)
      PROVE  ConversationInv' /\ [Queue!Next]_Queue!vars
  BY <1>4, StopStepKeeps, AckStepKeeps
<1>5. CASE \E c \in Clients : Poll(c)
  BY <1>5, PollKeeps
<1>6. CASE \E t \in Threads, c \in Clients : ReportStarted(t, c) \/ ReportEnd(t, c)
  BY <1>6, ReportStepKeeps
<1>7. CASE UNCHANGED all_vars
  BY <1>7, ConversationUntouched
<1> QED  BY <1>1, <1>2, <1>3, <1>4, <1>5, <1>6, <1>7 DEF ConversationNext

LEMMA ConversationInvHolds ==
    ConversationSpec => []ConversationInv
BY ConversationInitInv, ConversationStep, PTL DEF ConversationSpec

(* ImplementsPlaybackQueue: however the threads of brain.py interleave     *)
(* their calls of the session store and of the queue, which share no lock, *)
(* the queue sees what PlaybackQueue assumes: tokens that never come back, *)
(* one current token per session, generations that do not fall, and no     *)
(* call but its own operations.                                            *)
THEOREM ConversationImplementsQueue ==
    ConversationSpec => ImplementsPlaybackQueue
<1>1. ConversationSpec => Queue!Init
  BY ConversationInitInv DEF ConversationSpec
<1>2. ConversationSpec => [][Queue!Next]_Queue!vars
  BY ConversationInvHolds, ConversationStep, PTL DEF ConversationSpec
<1> QED  BY <1>1, <1>2 DEF ImplementsPlaybackQueue, Queue!Spec

(* EveryoneAgrees: what a handler holds is of its shape wherever it        *)
(* stands; what the browser plays is what the server takes it to play, or  *)
(* a STOP for it is waiting; and while a turn is current no stage change   *)
(* of its handler can be illegal, so none of them raises midway.           *)
THEOREM EveryoneAgreesHolds ==
    ConversationSpec => []EveryoneAgrees
<1>1. ConversationInv => EveryoneAgrees
  <2> SUFFICES ASSUME ConversationInv PROVE EveryoneAgrees
    OBVIOUS
  <2>1. /\ FenceInv /\ QP!QueueInv /\ RequestsAreShaped /\ RequestsKnowTheirStage
        /\ BrowserKnowsItsItems /\ BrowserIsTold
    BY DEF ConversationInv
  <2>2. TypeOK /\ Queue!TypeOK
    BY <2>1, QueueFacts DEF FenceInv, IInv
  <2>3. playing \in [Clients -> [item: Nat, phase: {"none", "loading", "confirming", "started"}]]
    BY <2>1 DEF BrowserKnowsItsItems, PlayingPhases
  <2>4. ASSUME NEW t \in Threads
        PROVE  \/ request[t] = Idle
               \/ request[t] \in [at: TokenPlaces, kind: {"typed", "spoken", "preview"}, tok: tokens]
               \/ request[t] \in [at: {"stopping"}, session: SessionIds, floor: Nat]
               \/ request[t] \in [at: {"closing"}, session: SessionIds]
               \/ request[t] \in [at: {"reported"}, client: Clients, item: Nat,
                                  state: Queue!PlaybackState]
               \/ request[t] \in [at: {"found", "acknowledged"}, client: Clients, item: Nat,
                                  state: Queue!PlaybackState, before: Queue!PlaybackState]
    <3>1. IsRequest(request[t])
      BY <2>1 DEF RequestsAreShaped
    <3>2. Reports \subseteq Queue!PlaybackState /\ 0 .. GenerationLimit \subseteq Nat
      BY BoundsArePositive DEF Reports, Queue!PlaybackState, Queue!TerminalStates
    <3> QED  BY <3>1, <3>2 DEF IsRequest
  <2>5. RequestAgreesWithStage
    <3> SUFFICES ASSUME NEW t \in Threads, "tok" \in DOMAIN request[t], Accepts(request[t].tok)
                 PROVE  StageOf(request[t].tok) = StageAt(request[t].at)
      BY DEF RequestAgreesWithStage, StageAt
    <3>1. request[t].at \in TokenPlaces
      BY <2>1, RequestFacts DEF RequestsAreShaped
    <3> QED  BY <2>1, <3>1 DEF RequestsKnowTheirStage, KnowsItsStage
  <2> QED  BY <2>1, <2>2, <2>3, <2>4, <2>5 DEF EveryoneAgrees, ConversationTypeOK, TokenPlaces
<1> QED  BY <1>1, ConversationInvHolds, PTL

(* CancelledSpeechIsBeingStopped: an item of a generation that is over can *)
(* be alive only while the request that cancelled or closed the session is *)
(* still on its way from the store to the queue (brain.py takes the two    *)
(* locks one after the other).                                             *)
THEOREM CancelledSpeechIsStopped ==
    ConversationSpec => []CancelledSpeechIsBeingStopped
<1>1. ConversationInv => CancelledSpeechIsBeingStopped
  BY DEF ConversationInv
<1> QED  BY <1>1, ConversationInvHolds, PTL
-----------------------------------------------------------------------------
(***************************************************************************)
(* Unfinished turns are attended                                           *)
(***************************************************************************)
InPlayback(tok) == StageOf(tok) \in {"playback_queued", "playing"}

Attended(tok) == InPlayback(tok) \/ \E t \in Threads : WorksOn(t, tok)

AllAttended == \A tok \in tokens : Accepts(tok) => Attended(tok)

LEMMA AttendedSaysSo ==
    ASSUME ConversationInv
    PROVE  AllAttended <=> TurnsAreAttended
<1>1. \A t \in Threads : \A tok : WorksOn(t, tok) <=> IsAtWork(t, tok)
  BY RequestFacts DEF ConversationInv, RequestsAreShaped, WorksOn, IsAtWork
<1> QED  BY <1>1 DEF AllAttended, Attended, InPlayback, TurnsAreAttended

(* A turn that is left as it is by a step, and by those who work on it.    *)
LEMMA StaysAttended ==
    ASSUME AllAttended, NEW tok \in tokens, Undisturbed(tok),
           \A t \in Threads : WorksOn(t, tok) => WorksOn(t, tok)',
           Accepts(tok)'
    PROVE  Attended(tok)'
<1>1. Accepts(tok) /\ StageOf(tok)' = StageOf(tok)
  BY DEF Undisturbed
<1> QED  BY <1>1 DEF AllAttended, Attended, InPlayback

(* A thread that works on no turn moves, and no turn is disturbed.         *)
LEMMA BystanderAttends ==
    ASSUME ConversationInv, AllAttended, NEW t \in Threads, request[t].at \notin TokenPlaces,
           NEW r, request' = [request EXCEPT ![t] = r] \/ request' = request,
           tokens' = tokens, \A tok \in tokens : Undisturbed(tok) \/ InPlayback(tok)' \/ ~Accepts(tok)'
    PROVE  AllAttended'
<1>1. \A u \in Threads \ {t} : request'[u] = request[u]
  BY DEF ConversationInv, RequestsAreShaped
<1>2. \A u \in Threads : \A tok : WorksOn(u, tok) => WorksOn(u, tok)'
  BY <1>1 DEF WorksOn
<1>3. ASSUME NEW tok \in tokens, Accepts(tok)' PROVE Attended(tok)'
  BY <1>2, <1>3, StaysAttended DEF Attended
<1> QED  BY <1>3 DEF AllAttended

(* A turn that was moved on is at that stage, if it is not over.           *)
LEMMA AdvancedTurn ==
    ASSUME ConversationInv, NEW tok \in tokens, NEW stage \in TurnStage, Advance(tok, stage)
    PROVE  /\ \A other \in tokens \ {tok} : Undisturbed(other)
           /\ tokens' = tokens
           /\ Accepts(tok)' => StageOf(tok)' = stage /\ stage \in LiveStages
<1>1. FenceInv /\ IInv
  BY DEF ConversationInv, FenceInv
<1>2. CASE Transition(tok, stage)
  <2>1. FenceInv' /\ IInv'
    BY <1>1, <1>2, TransitionIsNext, StepKeepsFenceInv DEF FenceInv
  <2>2. tokens' = tokens
    BY <1>2 DEF Transition
  <2>3. Accepts(tok)' => StageOf(tok)' \in LiveStages
    BY <2>1, <2>2, CurrentTurnNext DEF CurrentTurnsAreNewest
  <2> QED  BY <1>1, <1>2, <2>1, <2>2, <2>3, TransitionDisturbs
<1>3. CASE ~Accepts(tok) /\ UNCHANGED vars
  <2>1. ~Accepts(tok)' /\ tokens' = tokens
    BY <1>3 DEF vars, Accepts, LiveTurns
  <2> QED  BY <1>1, <1>3, <2>1, NothingDisturbs
<1> QED  BY <1>2, <1>3 DEF Advance

(* A handler moves on its own turn: it stays with it, or leaves it over or *)
(* to its audio.                                                           *)
LEMMA HandlerAttends ==
    ASSUME ConversationInv, AllAttended, NEW t \in Threads, request[t].at \in TokenPlaces,
           NEW tok \in tokens, request[t].tok = tok,
           NEW r, request' = [request EXCEPT ![t] = r], tokens' = tokens,
           \A other \in tokens \ {tok} : Undisturbed(other),
           (r.at \in TokenPlaces /\ r.tok = tok) \/ InPlayback(tok)' \/ ~Accepts(tok)'
    PROVE  AllAttended'
<1>1. request'[t] = r /\ \A u \in Threads \ {t} : request'[u] = request[u]
  BY DEF ConversationInv, RequestsAreShaped
<1>2. ASSUME NEW other \in tokens \ {tok}, Accepts(other)' PROVE Attended(other)'
  <2>1. \A u \in Threads : WorksOn(u, other) => WorksOn(u, other)'
    BY <1>1 DEF WorksOn
  <2> QED  BY <1>2, <2>1, StaysAttended
<1>3. Accepts(tok)' => Attended(tok)'
  BY <1>1 DEF Attended, WorksOn
<1> QED  BY <1>2, <1>3 DEF AllAttended

(* The steps of a handler on its turn.                                     *)
LEMMA TurnStepAttends ==
    ASSUME ConversationInv, AllAttended, NEW t \in Threads, TurnStep(t) \/ Escape(t)
    PROVE  AllAttended'
<1>1. request[t].at \in TokenPlaces
  BY DEF TurnStep, Escape, StoreTranscript, StartThinking, GiveUp, NoticeStop, ConfirmByVoice,
         CommitAnswer, FinishUnspoken, StartSynthesis, SpeechNotQueued, QueueSpeech, MarkQueued,
         WorkingAt, TokenPlaces
<1>2. IsRequest(request[t]) /\ request[t].tok \in tokens /\ FenceInv /\ IInv
  BY <1>1, RequestFacts DEF ConversationInv, RequestsAreShaped, FenceInv
<1>3. PICK tok \in tokens : tok = request[t].tok
  BY <1>2
<1>4. \A place \in TokenPlaces :
         [request[t] EXCEPT !.at = place].at = place /\ [request[t] EXCEPT !.at = place].tok = tok
  BY <1>1, <1>2, <1>3, RequestMoves
<1>5. ASSUME NEW place \in TokenPlaces, GoTo(t, place),
             \/ UNCHANGED vars
             \/ \E stage \in TurnStage : Advance(tok, stage)
             \/ \E role \in Roles : AppendMessage(tok, role)
      PROVE  AllAttended'
  <2>1. tokens' = tokens /\ \A other \in tokens \ {tok} : Undisturbed(other)
    <3>1. CASE UNCHANGED vars
      BY <1>2, <3>1, NothingDisturbs DEF vars
    <3>2. CASE \E stage \in TurnStage : Advance(tok, stage)
      BY <3>2, AdvancedTurn
    <3>3. CASE \E role \in Roles : AppendMessage(tok, role)
      BY <1>2, <3>3, AppendDisturbs DEF AppendMessage
    <3> QED  BY <1>5, <3>1, <3>2, <3>3
  <2>2. PICK r : r = [request[t] EXCEPT !.at = place]
    OBVIOUS
  <2>3. request' = [request EXCEPT ![t] = r] /\ r.at = place /\ r.tok = tok
    BY <1>4, <1>5, <2>2 DEF GoTo, Become
  <2> QED  BY <1>1, <1>3, <2>1, <2>3, HandlerAttends
<1>6. ASSUME Finish(t), \/ NoticeStop(t)
                        \/ \E stage \in {"failed", "completed", "playback_queued"} : Advance(tok, stage)
      PROVE  AllAttended'
  <2>1. {"failed", "completed", "playback_queued"} \subseteq TurnStage
    BY DEF TurnStage, LiveStages, TerminalStages
  <2>2. /\ tokens' = tokens /\ \A other \in tokens \ {tok} : Undisturbed(other)
        /\ InPlayback(tok)' \/ ~Accepts(tok)'
    <3>1. CASE NoticeStop(t)
      <4>1. UNCHANGED vars /\ ~Accepts(tok)
        BY <1>3, <3>1 DEF NoticeStop
      <4>2. ~Accepts(tok)' /\ tokens' = tokens
        BY <4>1 DEF vars, Accepts, LiveTurns
      <4> QED  BY <1>2, <4>1, <4>2, NothingDisturbs
    <3>2. ASSUME NEW stage \in {"failed", "completed", "playback_queued"}, Advance(tok, stage)
          PROVE  /\ tokens' = tokens /\ \A other \in tokens \ {tok} : Undisturbed(other)
                 /\ InPlayback(tok)' \/ ~Accepts(tok)'
      <4>1. Accepts(tok)' => StageOf(tok)' = stage /\ stage \in LiveStages
        BY <2>1, <3>2, AdvancedTurn
      <4>2. stage \in LiveStages => stage = "playback_queued"
        BY DEF LiveStages
      <4> QED  BY <2>1, <3>2, <4>1, <4>2, AdvancedTurn DEF InPlayback
    <3> QED  BY <1>6, <3>1, <3>2
  <2>3. PICK r : r = Idle
    OBVIOUS
  <2>4. request' = [request EXCEPT ![t] = r]
    BY <1>6, <2>3 DEF Finish, Become
  <2> QED  BY <1>1, <1>3, <2>2, <2>4, HandlerAttends
<1>7. {"transcribed", "thinking", "answered", "synthesizing", "queued", "escaped"} \subseteq TokenPlaces
      /\ {"thinking", "synthesizing"} \subseteq TurnStage /\ {"user", "assistant"} \subseteq Roles
  BY DEF TokenPlaces, TurnStage, LiveStages, Roles
<1>8. CASE \/ StoreTranscript(t) \/ StartThinking(t) \/ CommitAnswer(t) \/ StartSynthesis(t)
           \/ QueueSpeech(t) \/ Escape(t)
  BY <1>3, <1>5, <1>7, <1>8
     DEF StoreTranscript, SetTranscript, StartThinking, CommitAnswer, CommitAssistantText,
         StartSynthesis, QueueSpeech, Escape, Advance
<1>9. CASE \/ GiveUp(t) \/ NoticeStop(t) \/ ConfirmByVoice(t) \/ FinishUnspoken(t)
           \/ SpeechNotQueued(t) \/ MarkQueued(t)
  BY <1>3, <1>6, <1>9
     DEF GiveUp, FailTurn, NoticeStop, ConfirmByVoice, FinishUnspoken, SpeechNotQueued, MarkQueued
<1> QED  BY <1>8, <1>9 DEF TurnStep

(* A handler that begins a turn is at work on it.                          *)
LEMMA BeginningAttends ==
    ASSUME ConversationInv, AllAttended, NEW t \in Threads, WorkingAt(t, "idle"),
           NEW s \in SessionIds, NEW stage \in {"thinking", "transcribing", "synthesizing"},
           NEW with_text \in BOOLEAN, NEW kind, BeginTurn(s, stage, with_text),
           Become(t, Turn(stage, kind))
    PROVE  AllAttended'
<1>1. stage \in LiveStages /\ stage \in TokenPlaces
  BY DEF LiveStages, TokenPlaces
<1>2. FenceInv /\ FenceInv' /\ IInv
  <2>1. Next
    BY <1>1 DEF Next, SessionCall
  <2> QED  BY <2>1, StepKeepsFenceInv DEF ConversationInv, FenceInv
<1>3. PICK tok : /\ tokens' = tokens \cup {tok}
                 /\ (CHOOSE new \in tokens' : new.turn = turn_ids') = tok
  BY <1>1, <1>2, BeginDisturbs
<1>4. \A other \in tokens : Undisturbed(other)
  BY <1>1, <1>2, BeginDisturbs
<1>5. PICK r : r = [at |-> stage, kind |-> kind, tok |-> tok]
  OBVIOUS
<1>6. r.at = stage /\ r.tok = tok /\ request' = [request EXCEPT ![t] = r]
  BY <1>3, <1>5 DEF Become, Turn
<1>7. request'[t] = r /\ \A u \in Threads \ {t} : request'[u] = request[u]
  BY <1>6 DEF ConversationInv, RequestsAreShaped
<1>8. \A u \in Threads : \A other : WorksOn(u, other) => WorksOn(u, other)'
  BY <1>7 DEF WorksOn, WorkingAt, TokenPlaces
<1>9. ASSUME NEW other \in tokens, Accepts(other)' PROVE Attended(other)'
  BY <1>4, <1>8, <1>9, StaysAttended
<1>10. Attended(tok)'
  BY <1>1, <1>6, <1>7 DEF Attended, WorksOn
<1> QED  BY <1>3, <1>9, <1>10 DEF AllAttended

(* The turn of a reported item goes on playing or is over.                 *)
LEMMA SettlingAttends ==
    ASSUME ConversationInv, AllAttended, NEW t \in Threads, SettleTurn(t)
    PROVE  AllAttended'
<1> DEFINE it == request[t].item
           tok == items[it].token
           stage == StageFor(request[t].state)
<1>1. /\ request[t].at = "acknowledged"
      /\ \E r : request' = [request EXCEPT ![t] = r]
      /\ \/ UNCHANGED vars
         \/ it \in DOMAIN items /\ Accepts(tok) /\ Transition(tok, stage)
  BY DEF SettleTurn, WorkingAt, Respond, Finish, Become
<1>2. QP!QueueInv /\ IsRequest(request[t]) /\ IInv /\ request[t].at \notin TokenPlaces
  BY <1>1 DEF ConversationInv, RequestsAreShaped, FenceInv, TokenPlaces
<1>3. request[t].state \in Reports
  BY <1>1, <1>2, RequestFacts DEF ReportPlaces
<1>4. tokens' = tokens /\ \A other \in tokens : Undisturbed(other) \/ InPlayback(other)' \/ ~Accepts(other)'
  <2>1. CASE UNCHANGED vars
    BY <1>2, <2>1, NothingDisturbs DEF vars
  <2>2. CASE it \in DOMAIN items /\ Accepts(tok) /\ Transition(tok, stage)
    <3>1. tok \in TurnToken
      BY <1>2, <2>2, QueueFacts DEF Queue!TypeOK, Queue!PlaybackItem, Queue!TurnToken, TurnToken
    <3>2. tok \in tokens
      BY <1>2, <2>2, <3>1, AcceptedWasHandedOut
    <3>3. stage \in {"playing", "completed", "failed"}
      BY <1>3 DEF StageFor, Reports
    <3>4. PICK own \in tokens, end \in {"playing", "completed", "failed"} : own = tok /\ end = stage
      BY <3>2, <3>3
    <3>5. Advance(own, end) /\ end \in TurnStage
      BY <2>2, <3>4 DEF Advance, TurnStage, LiveStages, TerminalStages
    <3>6. Accepts(own)' => StageOf(own)' = end /\ end \in LiveStages
      BY <3>5, AdvancedTurn
    <3>7. end \in LiveStages => end = "playing"
      BY DEF LiveStages
    <3> QED  BY <3>5, <3>6, <3>7, AdvancedTurn DEF InPlayback
  <2> QED  BY <1>1, <2>1, <2>2
<1> QED  BY <1>1, <1>2, <1>4, BystanderAttends

LEMMA EveryStepAttends ==
    ConversationInv /\ AllAttended /\ [ConversationNext]_all_vars => AllAttended'
<1> SUFFICES ASSUME ConversationInv, AllAttended, [ConversationNext]_all_vars
             PROVE  AllAttended'
  OBVIOUS
<1>1. IInv
  BY DEF ConversationInv, FenceInv
<1>2. ASSUME UNCHANGED vars
      PROVE  tokens' = tokens /\ \A tok \in tokens : Undisturbed(tok)
  BY <1>1, <1>2, NothingDisturbs DEF vars
<1>3. ASSUME UNCHANGED request, tokens' = tokens, \A tok \in tokens : Undisturbed(tok)
      PROVE  AllAttended'
  <2>1. \A t \in Threads : \A tok : WorksOn(t, tok) => WorksOn(t, tok)'
    BY <1>3 DEF WorksOn
  <2>2. ASSUME NEW tok \in tokens, Accepts(tok)' PROVE Attended(tok)'
    BY <1>3, <2>1, <2>2, StaysAttended
  <2> QED  BY <1>3, <2>2 DEF AllAttended
<1>4. ASSUME NEW s \in SessionIds, CreateConversation(s) PROVE AllAttended'
  <2>1. tokens' = tokens /\ UNCHANGED request
    BY <1>4 DEF CreateConversation, CreateSession
  <2>2. \A tok \in tokens : Undisturbed(tok)
    BY <1>1, <1>4, CreateDisturbs DEF CreateConversation
  <2> QED  BY <1>3, <2>1, <2>2
<1>5. ASSUME NEW t \in Threads, NEW s \in SessionIds,
             BeginChat(t, s) \/ BeginVoice(t, s) \/ BeginPreview(t, s)
      PROVE  AllAttended'
  BY <1>5, BeginningAttends DEF BeginChat, BeginVoice, BeginPreview
<1>6. ASSUME NEW t \in Threads, NEW s \in SessionIds, StopSession(t, s) \/ CloseConversation(t, s)
      PROVE  AllAttended'
  <2>1. /\ request[t].at \notin TokenPlaces
        /\ \E r : request' = [request EXCEPT ![t] = r]
        /\ Cancel(s) \/ CloseSession(s)
    BY <1>6 DEF StopSession, CloseConversation, Become, WorkingAt, TokenPlaces
  <2>2. tokens' = tokens
    BY <2>1 DEF Cancel, CloseSession
  <2>3. \A tok \in tokens : Undisturbed(tok)
    BY <1>1, <2>1, StopDisturbs
  <2> QED  BY <2>1, <2>2, <2>3, BystanderAttends
<1>7. ASSUME NEW t \in Threads, TurnStep(t) \/ Escape(t) PROVE AllAttended'
  BY <1>7, TurnStepAttends
<1>8. ASSUME NEW t \in Threads, StopStep(t) \/ LookUpItem(t) \/ AcknowledgeItem(t)
      PROVE  AllAttended'
  <2>1. request[t].at \notin TokenPlaces /\ UNCHANGED vars
    BY <1>8 DEF StopStep, StopPlayback, ClosePlayback, LookUpItem, AcknowledgeItem, WorkingAt,
                TokenPlaces
  <2>2. \E r : request' = [request EXCEPT ![t] = r]
    BY <1>8 DEF StopStep, StopPlayback, ClosePlayback, LookUpItem, AcknowledgeItem, Respond, Finish,
                GoTo, Become
  <2> QED  BY <1>2, <2>1, <2>2, BystanderAttends
<1>9. ASSUME NEW t \in Threads, SettleTurn(t) PROVE AllAttended'
  BY <1>9, SettlingAttends
<1>10. ASSUME NEW c \in Clients, Poll(c) PROVE AllAttended'
  BY <1>2, <1>3, <1>10 DEF Poll
<1>11. ASSUME NEW t \in Threads, NEW c \in Clients, ReportStarted(t, c) \/ ReportEnd(t, c)
       PROVE  AllAttended'
  <2>1. request[t].at \notin TokenPlaces /\ UNCHANGED vars
        /\ \E r : request' = [request EXCEPT ![t] = r]
    BY <1>11 DEF ReportStarted, ReportEnd, ReportCompleted, ReportFailed, Report, Become, WorkingAt,
                 TokenPlaces
  <2> QED  BY <1>2, <2>1, BystanderAttends
<1>12. CASE UNCHANGED all_vars
  BY <1>2, <1>3, <1>12 DEF all_vars
<1> QED  BY <1>4, <1>5, <1>6, <1>7, <1>8, <1>9, <1>10, <1>11, <1>12
            DEF ConversationNext, AckStep

(* TurnsAreAttended: the handlers of brain.py end in many places, each of  *)
(* which settles the turn, finds it stale or hands it to its audio; so an  *)
(* unfinished turn has a request at work on it, has its audio to wait for, *)
(* or lost its request to an exception.                                    *)
THEOREM TurnsAreAttendedHolds ==
    ConversationSpec => []TurnsAreAttended
<1>1. ConversationInit => AllAttended
  BY DEF ConversationInit, Init, AllAttended
<1>2. ConversationInv /\ AllAttended /\ [ConversationNext]_all_vars => AllAttended'
  BY EveryStepAttends
<1>3. ConversationInv /\ AllAttended => TurnsAreAttended
  BY AttendedSaysSo
<1> QED  BY <1>1, <1>2, <1>3, ConversationInvHolds, PTL DEF ConversationSpec
=============================================================================
