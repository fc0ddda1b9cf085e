------------------------- MODULE SessionStoreFence -------------------------
(***************************************************************************)
(* The session store implements TurnFence.  The holder of a session is the *)
(* token of its unfinished turn; the log is the private history reduced to *)
(* who wrote each message; a closed session stays shut after its eviction. *)
(***************************************************************************)
EXTENDS SessionStore

(* Turn identifiers stand for tokens: each is drawn once, for one token;   *)
(* zero is never drawn.                                                    *)
HolderOf(s) == IF LiveTurns(s) = {} THEN 0 ELSE turns[s][Len(turns[s])].id

PhaseOf(s) ==
    CASE status[s] = "unused" -> "new"
      [] status[s] = "active" -> "open"
      [] OTHER                -> "shut"

Phases == [s \in SessionIds |-> PhaseOf(s)]
Holders == [s \in SessionIds |-> HolderOf(s)]
Granted == {tok.turn : tok \in tokens}

Writers(messages) == [i \in DOMAIN messages |-> messages[i].turn]
Logs == [s \in SessionIds |-> Writers(history[s])]

Fence == INSTANCE TurnFence WITH
            Sessions <- SessionIds,
            Tokens   <- 1 .. TurnLimit,
            NoToken  <- 0,
            phase    <- Phases,
            fence    <- generation,
            holder   <- Holders,
            granted  <- Granted,
            log      <- Logs

(* Seen from outside, a session is a fenced lock: one holder at a time,    *)
(* only the holder writes, a cancelled holder never writes again.          *)
ImplementsTurnFence == Fence!Spec
=============================================================================
