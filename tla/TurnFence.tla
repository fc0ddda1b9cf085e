----------------------------- MODULE TurnFence -----------------------------
(***************************************************************************)
(* What the session store promises its callers, without turns, stages,     *)
(* bounded deques or eviction: each session is a fenced lock around a log. *)
(* At most one token holds the lock.  Only the holder writes, and what it  *)
(* writes goes behind everything written before.  Raising the fence takes  *)
(* the lock away for good; a session that is shut never opens again and    *)
(* keeps no log.                                                           *)
(***************************************************************************)
EXTENDS Naturals, Sequences

CONSTANTS Sessions, Tokens, NoToken

VARIABLES phase,    \* "new", "open" or "shut"
          fence,    \* how often the lock has been taken away
          holder,   \* the token that may write, or NoToken
          granted,  \* tokens granted so far; none is granted twice
          log       \* the writers of the retained messages, oldest first

vars == <<phase, fence, holder, granted, log>>

Init ==
    /\ phase = [s \in Sessions |-> "new"]
    /\ fence = [s \in Sessions |-> 0]
    /\ holder = [s \in Sessions |-> NoToken]
    /\ granted = {}
    /\ log = [s \in Sessions |-> <<>>]

Open(s) ==
    /\ phase[s] = "new"
    /\ phase' = [phase EXCEPT ![s] = "open"]
    /\ UNCHANGED <<fence, holder, granted, log>>

(* The oldest messages may be forgotten whenever one is written. *)
Written(s, tok) ==
    \E first \in 1 .. Len(log[s]) + 1 :
       log' = [log EXCEPT ![s] = SubSeq(Append(@, tok), first, Len(@) + 1)]

(* A fresh token becomes the holder; its first message may come with it. *)
Grant(s) ==
    /\ phase[s] = "open"
    /\ holder[s] = NoToken
    /\ \E tok \in Tokens \ granted :
          /\ holder' = [holder EXCEPT ![s] = tok]
          /\ granted' = granted \cup {tok}
          /\ Written(s, tok) \/ UNCHANGED log
    /\ UNCHANGED <<phase, fence>>

Write(s) ==
    /\ phase[s] = "open"
    /\ holder[s] # NoToken
    /\ Written(s, holder[s])
    /\ UNCHANGED <<phase, fence, holder, granted>>

Release(s) ==
    /\ holder[s] # NoToken
    /\ holder' = [holder EXCEPT ![s] = NoToken]
    /\ UNCHANGED <<phase, fence, granted, log>>

RaiseFence(s) ==
    /\ phase[s] # "new"
    /\ fence' = [fence EXCEPT ![s] = @ + 1]
    /\ holder' = [holder EXCEPT ![s] = NoToken]
    /\ UNCHANGED <<phase, granted, log>>

Forget(s) ==
    /\ phase[s] = "open"
    /\ log' = [log EXCEPT ![s] = <<>>]
    /\ UNCHANGED <<phase, fence, holder, granted>>

Shut(s) ==
    /\ phase[s] # "new"
    /\ phase' = [phase EXCEPT ![s] = "shut"]
    /\ fence' = [fence EXCEPT ![s] = @ + 1]
    /\ holder' = [holder EXCEPT ![s] = NoToken]
    /\ log' = [log EXCEPT ![s] = <<>>]
    /\ UNCHANGED granted

(* Opening a session may happen while a shut one is dropped; dropping does *)
(* not show here.                                                          *)
Next == \E s \in Sessions :
           Open(s) \/ Grant(s) \/ Write(s) \/ Release(s)
           \/ RaiseFence(s) \/ Forget(s) \/ Shut(s)

Spec == Init /\ [][Next]_vars
=============================================================================
