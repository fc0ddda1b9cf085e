----------------------------- MODULE MCSessions -----------------------------
(***************************************************************************)
(* The session store by itself, with callers that may do anything, and the *)
(* conversation of one session, in which the handlers and the browser are  *)
(* its callers.  A behaviour is about one of the two, its focus.           *)
(***************************************************************************)
EXTENDS MCConversation, SessionStoreFence, Functions

CONSTANT TurnsInConversation    \* bound of the conversation

VARIABLE focus

OneSession == CHOOSE s \in SessionIds : TRUE

\* Not every session is cancelled as often as one may be, and only one keeps a
\* request that waits.
NotTooManyCancelled ==
    /\ FoldFunction(LAMBDA a, b : a + b, 0, generation') < GenerationLimit * Cardinality(SessionIds)
    /\ \A s \in SessionIds \ {OneSession} : ~pending'[s]

MCInit == focus \in {"sessions", "conversation"} /\ ConversationInit

MCNext ==
    /\ \/ /\ focus = "sessions"
          /\ Next
          /\ NotTooManyCancelled
          /\ UNCHANGED <<queue_vars, request, playing>>
       \/ /\ focus = "conversation"
          /\ ConversationNext
          /\ turn_ids' <= TurnsInConversation
          /\ \A s \in SessionIds \ {OneSession} : status'[s] = "unused"
    /\ UNCHANGED focus

MCSpec == MCInit /\ [][MCNext]_<<all_vars, focus>>

(* In a conversation a turn that is not over is somebody's (Conversation); *)
(* callers that may do anything leave turns lying about.                   *)
EveryTurnIsAttended == focus = "conversation" => TurnsAreAttended
=============================================================================
