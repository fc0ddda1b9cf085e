---------------------------- MODULE PlaybackQueue ----------------------------
(***************************************************************************)
(* Acknowledgement-driven playback (metis_head/audio/playback.py).  The    *)
(* server plays nothing: it queues items per client, hands a client PLAY   *)
(* or STOP when the client polls, and learns from acknowledgements what    *)
(* became of an item.  Every public method holds the queue's RLock for its *)
(* whole body and is one action.                                           *)
(*                                                                         *)
(* token_is_current is a callback into the session store, which has a lock *)
(* of its own: `current` is the set of tokens it would accept, and changes *)
(* between the actions here.  A token that goes stale just after the       *)
(* callback answered commutes with the rest of the method, which does not  *)
(* read the store again.                                                   *)
(*                                                                         *)
(* Left out: audio references, content types, failure codes, and creation  *)
(* times.  Items are numbered in the order of their creation, which is the *)
(* iteration order of the dictionary _items.  A call that raises, returns  *)
(* None or returns False changes nothing and is not a step, except where   *)
(* noted.                                                                  *)
(***************************************************************************)
EXTENDS Integers, Sequences, FiniteSets, Filtering

CONSTANTS Clients,          \* browser documents, each with a client_id of its own
          Sessions,         \* session identifiers
          MaxQueued,        \* max_queued_per_client
          MaxTerminal,      \* max_terminal_items
          MaxCommands,      \* max_commands_per_client
          MaxTombstones,    \* max_session_tombstones
          ItemLimit,        \* bound of the model: items ever created
          TokenLimit,       \* bound of the model: tokens ever handed out
          GenerationLimit   \* bound of the model: cancellations of one session

ASSUME QueueBoundsArePositive ==
    /\ MaxQueued \in Nat \ {0}
    /\ MaxTerminal \in Nat \ {0}
    /\ MaxCommands \in Nat \ {0}
    /\ MaxTombstones \in Nat \ {0}
    /\ ItemLimit \in Nat
    /\ TokenLimit \in Nat
    /\ GenerationLimit \in Nat

VARIABLES items,             \* _items: playback_id -> PlaybackItem
          queued,            \* _queued: per client, playback_ids waiting
          active,            \* _active: per client, the item handed out, or NoItem
          commands,          \* _commands: per client, the items to be stopped
          cancelled_through, \* _cancelled_through: tombstones, oldest first
          terminal_ids,      \* _terminal_ids: finished items, oldest first
          playback_ids,      \* identifiers drawn so far
          current,           \* tokens the session store accepts now
          issued             \* tokens the session store ever handed out

queue_vars == <<items, queued, active, commands, cancelled_through, terminal_ids,
                playback_ids>>
vars == <<queue_vars, current, issued>>
-----------------------------------------------------------------------------
NoItem == 0
TurnToken == [session: Sessions, turn: Nat, generation: Nat]
TerminalStates == {"completed", "failed", "cancelled"}
PlaybackState == {"queued", "started"} \cup TerminalStates
PlaybackItem == [client: Clients, token: TurnToken, state: PlaybackState]

LiveItems == {p \in DOMAIN items : items[p].state \notin TerminalStates}

InState(state) == {p \in DOMAIN items : items[p].state = state}

ElementsOf(seq) == {seq[i] : i \in DOMAIN seq}
Newest(seq, limit) ==    \* while len(seq) > limit: popleft()
    IF Len(seq) <= limit THEN seq ELSE SubSeq(seq, Len(seq) - limit + 1, Len(seq))

(* The one sequence of the items ids in the iteration order of _items. *)
InCreationOrder(ids) ==
    {seq \in [1 .. Cardinality(ids) -> ids] :
        \A i, j \in 1 .. Cardinality(ids) : i < j => seq[i] < seq[j]}

(* Faulty variant: finished items are never forgotten. *)
SetTerminalForEver(ids, state) ==
    /\ terminal_ids' = terminal_ids \o ids
    /\ items' = [p \in DOMAIN items |->
                    IF p \in ElementsOf(ids) THEN [items[p] EXCEPT !.state = state]
                                             ELSE items[p]]

(* _set_terminal_locked, for the items ids one after the other: they end   *)
(* in the given state, and the oldest finished items beyond the bound are  *)
(* forgotten.                                                              *)
SetTerminal(ids, state) ==
    LET finished == terminal_ids \o ids
        kept == Newest(finished, MaxTerminal)
        expired == ElementsOf(finished) \ ElementsOf(kept)
    IN  /\ terminal_ids' = kept
        /\ items' = [p \in DOMAIN items \ expired |->
                        IF p \in ElementsOf(ids) THEN [items[p] EXCEPT !.state = state]
                                                 ELSE items[p]]

(* The generations known to be cancelled; -1 covers no token. *)
Tombstone(s) ==
    LET known == {i \in DOMAIN cancelled_through : cancelled_through[i].session = s}
    IN  IF known = {} THEN -1 ELSE cancelled_through[CHOOSE i \in known : TRUE].generation

(* _remember_tombstone_locked: a tombstone only rises, becomes the newest, *)
(* and the oldest beyond the bound is forgotten.                           *)
Remember(s, floor) ==
    LET others == Only(cancelled_through,
                       {t \in ElementsOf(cancelled_through) : t.session # s})
        higher == IF floor > Tombstone(s) THEN floor ELSE Tombstone(s)
    IN  cancelled_through' =
            Newest(Append(others, [session |-> s, generation |-> higher]), MaxTombstones)

(* The highest generation among the items of s: the floor of a call that   *)
(* names none.                                                             *)
InferredFloor(s) ==
    LET known == {items[p].token.generation :
                     p \in {p \in DOMAIN items : items[p].token.session = s}}
    IN  IF known = {} THEN -1 ELSE CHOOSE g \in known : \A h \in known : h <= g
-----------------------------------------------------------------------------
Init ==
    /\ items = [p \in {} |-> NoItem]
    /\ queued = [c \in Clients |-> <<>>]
    /\ active = [c \in Clients |-> NoItem]
    /\ commands = [c \in Clients |-> <<>>]
    /\ cancelled_through = <<>>
    /\ terminal_ids = <<>>
    /\ playback_ids = 0
    /\ current = {}
    /\ issued = {}

(* Faulty variants: tombstones are ignored; tokens are not checked at all; *)
(* the newest item overtakes the others; an identifier is drawn twice.     *)
EnqueueDespiteTombstone(c, tok) ==
    /\ tok \in current
    /\ Len(queued[c]) < MaxQueued
    /\ playback_ids < ItemLimit
    /\ playback_ids' = playback_ids + 1
    /\ items' = [p \in DOMAIN items \cup {playback_ids'} |->
                    IF p = playback_ids' THEN [client |-> c, token |-> tok, state |-> "queued"]
                                         ELSE items[p]]
    /\ queued' = [queued EXCEPT ![c] = Append(@, playback_ids')]
    /\ UNCHANGED <<active, commands, cancelled_through, terminal_ids>>

EnqueueUnchecked(c, tok) ==
    /\ Len(queued[c]) < MaxQueued
    /\ playback_ids < ItemLimit
    /\ playback_ids' = playback_ids + 1
    /\ items' = [p \in DOMAIN items \cup {playback_ids'} |->
                    IF p = playback_ids' THEN [client |-> c, token |-> tok, state |-> "queued"]
                                         ELSE items[p]]
    /\ queued' = [queued EXCEPT ![c] = Append(@, playback_ids')]
    /\ UNCHANGED <<active, commands, cancelled_through, terminal_ids>>

EnqueueInFront(c, tok) ==
    /\ tok \in current
    /\ tok.generation > Tombstone(tok.session)
    /\ Len(queued[c]) < MaxQueued
    /\ playback_ids < ItemLimit
    /\ playback_ids' = playback_ids + 1
    /\ items' = [p \in DOMAIN items \cup {playback_ids'} |->
                    IF p = playback_ids' THEN [client |-> c, token |-> tok, state |-> "queued"]
                                         ELSE items[p]]
    /\ queued' = [queued EXCEPT ![c] = <<playback_ids'>> \o @]
    /\ UNCHANGED <<active, commands, cancelled_through, terminal_ids>>

EnqueueReusingId(c, tok) ==
    /\ tok \in current
    /\ tok.generation > Tombstone(tok.session)
    /\ Len(queued[c]) < MaxQueued
    /\ items' = [p \in DOMAIN items \cup {playback_ids + 1} |->
                    IF p = playback_ids + 1 THEN [client |-> c, token |-> tok, state |-> "queued"]
                                            ELSE items[p]]
    /\ queued' = [queued EXCEPT ![c] = Append(@, playback_ids + 1)]
    /\ UNCHANGED <<active, commands, cancelled_through, terminal_ids, playback_ids>>

(* Audio of stale or cancelled work is not queued; a full queue raises.    *)
Enqueue(c, tok) ==
    /\ tok \in current
    /\ tok.generation > Tombstone(tok.session)
    /\ Len(queued[c]) < MaxQueued
    /\ playback_ids < ItemLimit
    /\ playback_ids' = playback_ids + 1
    /\ items' = [p \in DOMAIN items \cup {playback_ids'} |->
                    IF p = playback_ids' THEN [client |-> c, token |-> tok, state |-> "queued"]
                                         ELSE items[p]]
    /\ queued' = [queued EXCEPT ![c] = Append(@, playback_ids')]
    /\ UNCHANGED <<active, commands, cancelled_through, terminal_ids>>

(* next_command with a STOP waiting: it goes out before anything else. *)
StopCommand(c) ==
    /\ commands[c] # <<>>
    /\ commands' = [commands EXCEPT ![c] = Tail(@)]
    /\ UNCHANGED <<items, queued, active, cancelled_through, terminal_ids, playback_ids>>

(* next_command takes items from the head of the queue until one may be    *)
(* played; stale ones it meets on the way end cancelled.                   *)
Playable(p) == items[p].state = "queued" /\ items[p].token \in current

Discard(c, n) ==
    /\ \A i \in 1 .. n : ~Playable(queued[c][i])
    /\ SetTerminal(Only(SubSeq(queued[c], 1, n), InState("queued")), "cancelled")

(* Faulty variant: audio is handed out although a STOP is waiting. *)
PlayCommandImpatient(c) ==
    /\ active[c] = NoItem
    /\ \E n \in DOMAIN queued[c] :
          /\ Playable(queued[c][n])
          /\ Discard(c, n - 1)
          /\ active' = [active EXCEPT ![c] = queued[c][n]]
          /\ queued' = [queued EXCEPT ![c] = SubSeq(@, n + 1, Len(@))]
    /\ UNCHANGED <<commands, cancelled_through, playback_ids>>

PlayCommand(c) ==
    /\ commands[c] = <<>>
    /\ active[c] = NoItem
    /\ \E n \in DOMAIN queued[c] :
          /\ Playable(queued[c][n])
          /\ Discard(c, n - 1)
          /\ active' = [active EXCEPT ![c] = queued[c][n]]
          /\ queued' = [queued EXCEPT ![c] = SubSeq(@, n + 1, Len(@))]
    /\ UNCHANGED <<commands, cancelled_through, playback_ids>>

(* Nothing in the queue may be played: the call returns None. *)
NoCommand(c) ==
    /\ commands[c] = <<>>
    /\ active[c] = NoItem
    /\ queued[c] # <<>>
    /\ Discard(c, Len(queued[c]))
    /\ queued' = [queued EXCEPT ![c] = <<>>]
    /\ UNCHANGED <<active, commands, cancelled_through, playback_ids>>

NextCommand(c) == StopCommand(c) \/ PlayCommand(c) \/ NoCommand(c)

(* acknowledge: the client to which p was handed reports.  A report that   *)
(* repeats what is recorded is accepted and changes nothing.               *)
CanStart(c, p) ==
    /\ p \in DOMAIN items
    /\ items[p].client = c
    /\ active[c] = p
    /\ Playable(p)

AckStarted(c, p) ==
    /\ CanStart(c, p)
    /\ items' = [items EXCEPT ![p].state = "started"]
    /\ UNCHANGED <<queued, active, commands, cancelled_through, terminal_ids, playback_ids>>

CanFinish(c, p, state) ==
    /\ p \in LiveItems
    /\ items[p].client = c
    /\ active[c] = p
    /\ state \in TerminalStates
    /\ state = "completed" => items[p].state = "started"

(* Faulty variant: the client is still taken to be playing. *)
AckFinishedStillActive(c, p, state) ==
    /\ CanFinish(c, p, state)
    /\ SetTerminal(<<p>>, state)
    /\ UNCHANGED <<queued, active, commands, cancelled_through, playback_ids>>

AckFinished(c, p, state) ==
    /\ CanFinish(c, p, state)
    /\ SetTerminal(<<p>>, state)
    /\ active' = [active EXCEPT ![c] = NoItem]
    /\ UNCHANGED <<queued, commands, cancelled_through, playback_ids>>

(* Faulty variant: the STOP is forgotten. *)
WithStopForgotten(waiting, p) == waiting

(* _append_command_locked *)
WithStop(waiting, p) ==
    IF p \in ElementsOf(waiting) THEN waiting ELSE Newest(Append(waiting, p), MaxCommands)

(* Faulty variant: finished items are cancelled once more. *)
CancelSessionTwice(s, floor) ==
    LET hit == {p \in DOMAIN items : items[p].token.session = s}
    IN  /\ Remember(s, floor)
        /\ \E ids \in InCreationOrder(hit) : SetTerminal(ids, "cancelled")
        /\ queued' = [c \in Clients |-> Only(queued[c], DOMAIN items \ hit)]
        /\ active' = [c \in Clients |-> IF active[c] \in hit THEN NoItem ELSE active[c]]
        /\ UNCHANGED <<commands, playback_ids>>

(* cancel_session: every unfinished item of the session is cancelled, of   *)
(* whatever generation; a client that was handed one is told to stop it.   *)
CancelSession(s, floor) ==
    LET hit == {p \in LiveItems : items[p].token.session = s}
    IN  /\ Remember(s, floor)
        /\ \E ids \in InCreationOrder(hit) : SetTerminal(ids, "cancelled")
        /\ queued' = [c \in Clients |->
                         IF \E p \in hit : items[p].client = c
                         THEN Only(queued[c], InState("queued")')
                         ELSE queued[c]]
        /\ active' = [c \in Clients |->
                         IF \E p \in hit : items[p].client = c /\ active[c] = p
                         THEN NoItem ELSE active[c]]
        /\ commands' = [c \in Clients |->
                           IF \E p \in hit : items[p].client = c /\ active[c] = p
                           THEN WithStop(commands[c], active[c]) ELSE commands[c]]
        /\ UNCHANGED playback_ids

QueueCall ==
    \/ \E c \in Clients :
          \/ \E tok \in current : Enqueue(c, tok)
          \/ NextCommand(c)
          \/ \E p \in DOMAIN items : AckStarted(c, p)
          \/ \E p \in DOMAIN items, state \in TerminalStates : AckFinished(c, p, state)
    \/ \E s \in Sessions : \E floor \in {InferredFloor(s)} \cup 0 .. GenerationLimit :
          CancelSession(s, floor)
-----------------------------------------------------------------------------
(* What the session store does to the tokens between the calls: it hands   *)
(* out a new one when its session has none that is current, under a        *)
(* generation that never falls, and a token that went stale never comes    *)
(* back.                                                                   *)
HandOut(s, g) ==
    LET tok == [session |-> s, turn |-> Cardinality(issued) + 1, generation |-> g]
    IN  /\ Cardinality(issued) < TokenLimit
        /\ \A other \in issued :
              other.session = s => other \notin current /\ other.generation <= g
        /\ issued' = issued \cup {tok}
        /\ current' = current \cup {tok}
        /\ UNCHANGED queue_vars

GoStale(tok) ==
    /\ tok \in current
    /\ current' = current \ {tok}
    /\ UNCHANGED <<queue_vars, issued>>

Store ==
    \/ \E s \in Sessions, g \in 0 .. GenerationLimit : HandOut(s, g)
    \/ \E tok \in current : GoStale(tok)

Next == (QueueCall /\ UNCHANGED <<current, issued>>) \/ Store

Spec == Init /\ [][Next]_vars
-----------------------------------------------------------------------------
TypeOK ==
    /\ DOMAIN items \subseteq 1 .. playback_ids
    /\ \A p \in DOMAIN items : items[p] \in PlaybackItem
    /\ queued \in [Clients -> Seq(Nat)]
    /\ active \in [Clients -> Nat]
    /\ commands \in [Clients -> Seq(Nat)]
    /\ cancelled_through \in Seq([session: Sessions, generation: Int])
    /\ terminal_ids \in Seq(Nat)
    /\ playback_ids \in Nat
    /\ issued \subseteq TurnToken
    /\ current \subseteq issued

(* No item is lost or in two places: an unfinished item waits exactly once *)
(* in the queue of its client or is the one its client was handed, and     *)
(* nothing else is in those places.  next_command looks up every queued    *)
(* identifier without a check, and an item that is nowhere would keep its  *)
(* turn from ever finishing.                                               *)
EveryLiveItemHasOnePlace ==
    /\ \A c \in Clients :
          /\ \A i \in DOMAIN queued[c] :
                /\ queued[c][i] \in LiveItems
                /\ items[queued[c][i]].client = c
                /\ items[queued[c][i]].state = "queued"
                /\ queued[c][i] # active[c]
                /\ \A j \in DOMAIN queued[c] : queued[c][i] = queued[c][j] => i = j
          /\ active[c] # NoItem => active[c] \in LiveItems /\ items[active[c]].client = c
    /\ \A p \in LiveItems :
          p = active[items[p].client] \/ p \in ElementsOf(queued[items[p].client])

(* A STOP is never lost to the bound of the command queue: at most one is  *)
(* waiting per client, it concerns audio that is over on the server, and   *)
(* no other audio is handed to the client before it.                       *)
StopComesFirst ==
    \A c \in Clients :
       commands[c] # <<>> =>
          /\ Len(commands[c]) = 1
          /\ active[c] = NoItem
          /\ Head(commands[c]) \notin LiveItems

(* While a cancellation is remembered, no item of a generation it covers   *)
(* is waiting or playing: work that was already under way when the session *)
(* was cancelled cannot queue its audio afterwards.                        *)
NoLiveItemUnderTombstone ==
    \A p \in LiveItems : items[p].token.generation > Tombstone(items[p].token.session)

(* The finished items kept for repeated acknowledgements are exactly those *)
(* in _terminal_ids, once each and within the bound: the eviction drops    *)
(* the oldest finished item and never an unfinished one.                   *)
FinishedItemsAreBounded ==
    /\ Len(terminal_ids) <= MaxTerminal
    /\ ElementsOf(terminal_ids) = DOMAIN items \ LiveItems
    /\ \A i, j \in DOMAIN terminal_ids : terminal_ids[i] = terminal_ids[j] => i = j

(* All of this at once is what the queue's own state has to be.            *)
QueueIsConsistent ==
    /\ TypeOK
    /\ EveryLiveItemHasOnePlace
    /\ StopComesFirst
    /\ NoLiveItemUnderTombstone
    /\ FinishedItemsAreBounded

(* A client is handed its items in the order in which they were queued. *)
PlaysInOrder ==
    [][\A c \in Clients :
         active'[c] # active[c] /\ active'[c] # NoItem =>
            \A p \in LiveItems' : items'[p].client = c => active'[c] <= p]_vars

(* The first outcome of an item stays, whatever is acknowledged or         *)
(* cancelled later, and a forgotten item does not come back.               *)
PlaybackOutcomeIsFinal ==
    [][\A p \in DOMAIN items' :
         /\ p \in DOMAIN items \/ p > playback_ids
         /\ p \in DOMAIN items \ LiveItems => items'[p].state = items[p].state]_vars

(* What a step of the queue may never do: play out of turn, or take back   *)
(* an outcome.                                                             *)
QueueIsOrderly == PlaysInOrder /\ PlaybackOutcomeIsFinal
=============================================================================
