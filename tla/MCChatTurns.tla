----------------------------- MODULE MCChatTurns -----------------------------
(***************************************************************************)
(* What one chat turn depends on besides its model: the coordinator that a *)
(* stop must reach, the accounts a message is routed to, the sources of    *)
(* the chat bridge and the retrieval of BOH.  None of them calls another,  *)
(* so that a behaviour is about one of them, its focus, and the others     *)
(* stay as they are when the server starts.                                *)
(***************************************************************************)
EXTENDS TurnCancellation, ChatRouting, BohLink, McpReads, TLC

VARIABLE focus

-----------------------------------------------------------------------------
\* Account routing: a few messages for a whole conversation, and every message
\* of up to three words for one routing decision.
Nurse == AccountProfile("n", <<<<"pro", "nurse">>>>)
Photo == AccountProfile("p", <<<<"pro", "photo">>>>)
MCSetups == {<<>>, <<Nurse>>, <<Nurse, Photo>>}

\* Outside a clarification <<"cancel">> is a message like others, and has nothing to do
\* with accounts.
MCMessages == {<<"calendar">>, <<"photo">>, <<"pro", "calendar">>, <<"nurse", "photo">>,
               <<"cancel">>}
MCCancel == {<<"cancel">>}

Words7 == {"pro", "nurse", "photo", "home", "calendar", "not", ","}
LabelMessages == UNION {[1..n -> Words7] : n \in 1..3}

\* Labels that share a word, contain one another, or are the same.
LabelSetups == MCSetups \cup
    {<<Nurse, AccountProfile("p", <<<<"photo">>, <<"pro">>>>)>>,
     <<AccountProfile("n", <<<<"pro">>>>), Photo, AccountProfile("h", <<<<"home">>, <<"photo", "pro">>>>)>>,
     <<AccountProfile("n", <<<<"pro">>>>), AccountProfile("p", <<<<"pro">>>>)>>}

OneChat == CHOOSE r \in ChatRequests : TRUE

RoutingFocus ==
    \/ focus = "routing" /\ ChatNext
    \/ focus = "labels" /\ (RouteReads(OneChat) \/ \E message \in LabelMessages : Types(OneChat, message))

RoutingRests == profiles = <<>> /\ connected = {} /\ context = <<>>

RoutingInit ==
    \/ /\ focus = "routing" /\ ChatInit
    \/ /\ focus = "labels"
       /\ profiles \in LabelSetups /\ connected = {} /\ context = <<>>
       /\ question = NoMessage /\ chatHistory = <<>> /\ activeTurn = 0 /\ chatTurns = 0
       /\ chat = [r \in ChatRequests |-> NoChat]
       /\ changes = 0 /\ alone = TRUE /\ steered = FALSE
    \/ /\ focus \notin {"routing", "labels"} /\ ChatInit /\ RoutingRests

-----------------------------------------------------------------------------
\* The chat bridge: one chat under all gates, or two and a calendar run with
\* the gates open.
AllGates == [global |-> TRUE, enabled |-> Servers, command |-> Servers]

Everything == {"mcp", "boh", "project_atlas", "read"}
BridgeMessages == {Everything, Everything \cup {"changes"}, {"mcp", "boh", "project_atlas", "writes"}}
PlainMessages == {{"mcp", "project_atlas", "project", "read"}, {"mcp", "boh", "access"}}

Switching(to) == \E control \in Controls, mode \in to : SetsMode(control, mode)
OneBridge == CHOOSE c \in Chats : TRUE

BridgeFocus ==
    \/ /\ focus = "bridge gates"
       /\ Switching({"read", "off"}) \/ ChatReads(OneBridge, BridgeMessages)
    \/ /\ focus = "bridge cache"
       /\ \/ (\A c \in Chats : chats[c].at = "idle") /\ Switching({"read"})
          \/ Tick
          \/ \E c \in Chats : modes = [x \in Controls |-> "read"] /\ ChatReads(c, PlainMessages)
    \/ /\ focus = "project reads"
       /\ Switching(Modes) \/ \E g \in Runs : RunReads(g)

BridgesInit == McpInit /\ (focus # "bridge gates" => gates = AllGates)

-----------------------------------------------------------------------------
\* "sourced" is said only of an answer that has a source and whose data is what
\* the source answered within the lifetime of the cache.
SourcedIsEarned == SourcedHasEvidence /\ SourcedDataIsFresh

MCInit ==
    /\ focus \in {"cancellation", "routing", "labels", "bridge gates", "bridge cache",
                  "project reads", "boh"}
    /\ CancellationInit /\ RoutingInit /\ BohInit /\ BridgesInit

MCNext ==
    /\ \/ /\ focus = "cancellation" /\ CancellationNext
          /\ UNCHANGED <<chatVars, bohVars, mcpVars>>
       \/ RoutingFocus /\ UNCHANGED <<cancellation_vars, bohVars, mcpVars>>
       \/ BridgeFocus /\ UNCHANGED <<cancellation_vars, chatVars, bohVars>>
       \/ /\ focus = "boh" /\ lone /\ BohNext   \* nothing is claimed of two pollers
          /\ UNCHANGED <<cancellation_vars, chatVars, mcpVars>>
    /\ UNCHANGED focus

\* Only the turns' handlers are fair, as in CancellationFairSpec.
MCSpec ==
    /\ MCInit /\ [][MCNext]_<<cancellation_vars, chatVars, bohVars, mcpVars, focus>>
    /\ \A t \in Threads :
          WF_cancellation_vars(focus = "cancellation" /\ (TurnStep(t) \/ StopStep(t)))
=============================================================================
