------------------------------- MODULE McpReads -------------------------------
(***************************************************************************)
(* The two ways in which the head reads from its MCP servers, BOH and      *)
(* Project Atlas: the chat bridge, which answers a message that names MCP  *)
(* before any model is asked (src/metis_head/mcp_chat_bridge.py), and the  *)
(* Atlas tools of a tool run (_controlled_atlas_read in brain.py over      *)
(* connectors/atlas.py).  Both ask the control center whether reading is   *)
(* usable (control_center.py) and call call_configured_mcp_tool            *)
(* (mcp_access.py).                                                        *)
(*                                                                         *)
(* The bridge keeps its answers in a dictionary that request threads share *)
(* without a lock.  Making room in it is one step, storing the answer the  *)
(* next.  Time is the age of what a server said, up to one tick past the   *)
(* lifetime of a cached answer.                                            *)
(***************************************************************************)
EXTENDS Naturals, Sequences, FiniteSets, SequencesExt, Filtering

CONSTANTS
    Chats,          \* chat requests
    Runs,           \* tool runs that read from Atlas
    CacheLifetime,  \* _CACHE_TTL_SECONDS, in ticks
    CacheMaxItems   \* _CACHE_MAX_ITEMS

ASSUME McpReadsAssumption == CacheLifetime \in Nat /\ CacheMaxItems \in Nat \ {0}

VARIABLES
    gates,  \* the gates of the environment the head was started in
    modes,  \* the modes of tool_control_center
    chats,  \* the chat requests
    cache,  \* _CACHE: the answers and their ages
    runs    \* the tool runs

mcpVars == <<gates, modes, chats, cache, runs>>

Servers == {"boh", "project_atlas"}

Controls == {"tool_usage"} \cup Servers

Modes == {"off", "read", "write_proposal", "read_write_proposal"}

AllowsRead(mode) == mode \in {"read", "read_write_proposal"}

\* _read_status_for_server
ReadStatus(control, server) ==
    CASE ~AllowsRead(control[server])       -> "off"
      [] ~AllowsRead(control["tool_usage"]) -> "master_off"
      [] ~gates.global                      -> "global_disabled"
      [] server \notin gates.enabled        -> "server_disabled"
      [] server \notin gates.command        -> "not_configured"
      [] OTHER                              -> "usable"

AtlasIsUsable == ReadStatus(modes, "project_atlas") = "usable"

-----------------------------------------------------------------------------
(* What a message asks for.  A message is the set of what it mentions.     *)
(* "writes" stands for the words of writing that always count, "changes"   *)
(* for those that do not when the message also says "read".                *)

\* _is_write_request
IsWriteRequest(message) ==
    "writes" \in message \/ ("changes" \in message /\ "read" \notin message)

\* _read_tool_and_arguments
ReadTool(server, message) ==
    IF server = "project_atlas"
    THEN IF "project" \in message THEN "get_project_status" ELSE "list_projects"
    ELSE IF "access" \in message THEN "get_current_state" ELSE "retrieve_context"

\* _servers_from_text and _classify_intents
Intents(message) ==
    LET named == Only(<<"boh", "project_atlas">>, message)
    IN  IF "mcp" \notin message THEN <<>>
        ELSE [k \in 1..Len(named) |->
                [server |-> named[k],
                 tool   |-> IF IsWriteRequest(message) THEN "proposal_required"
                            ELSE ReadTool(named[k], message)]]

-----------------------------------------------------------------------------
NoAge == CacheLifetime + 2      \* nothing was read

Older(age) == IF age > CacheLifetime THEN age ELSE age + 1

\* One part of an answer: how it ended, and how old its data was when obtained.
Part(status, age) == [status |-> status, age |-> age]

IsComplete(part) == part.status = "read_only_complete"

(* Faulty variant: one complete part is enough. *)
AnyIsSourced(parts) ==
    IF \E k \in 1..Len(parts) : IsComplete(parts[k]) THEN "sourced" ELSE "unsourced"

\* The label of an answer: of its only part, or of _combined_bridge_result.
Label(parts) ==
    LET complete == {k \in 1..Len(parts) : IsComplete(parts[k])}
    IN  IF complete = 1..Len(parts) THEN "sourced"
        ELSE IF complete # {} \/ (Len(parts) = 1 /\ parts[1].status # "blocked")
          THEN "degraded"
        ELSE "unsourced"

AllOff == [control \in Controls |-> "off"]

NoRead == [at |-> "idle", control |-> AllOff, intents |-> <<>>, parts |-> <<>>,
           since |-> 0, data |-> NoAge, oldest |-> {}, label |-> "none"]

NoRun == [at |-> "idle", tool |-> "none", late |-> 0]

McpInit ==
    /\ gates \in [global: BOOLEAN, enabled: SUBSET Servers, command: SUBSET Servers]
    /\ modes = AllOff
    /\ chats = [c \in Chats |-> NoRead]
    /\ cache = {}
    /\ runs = [g \in Runs |-> NoRun]

Intent(c) == chats[c].intents[Len(chats[c].parts) + 1]

\* The cache's key: the server, the tool and its arguments.
Key(c) == <<Intent(c).server, Intent(c).tool>>

Cached(c) == {entry \in cache : entry.key = Key(c)}

\* The next part of an answer; the answer itself with the last one.
WithPart(chat, part) ==
    LET parts == Append(chat.parts, part)
        done  == Len(parts) = Len(chat.intents)
    IN  [chat EXCEPT !.parts = parts, !.since = 0, !.data = NoAge, !.oldest = {},
                     !.at = IF done THEN "answered" ELSE "routing",
                     !.label = IF done THEN Label(parts) ELSE "none"]

\* control_center_mode and control_center_toggle.
SetsMode(control, mode) ==
    /\ mode # modes[control]
    /\ modes' = [modes EXCEPT ![control] = mode]
    /\ UNCHANGED <<gates, chats, cache, runs>>

\* Time passes for the cache and for whoever waits for a server.
Tick ==
    /\ cache' = {[entry EXCEPT !.age = Older(@), !.data = Older(@)] : entry \in cache}
    /\ chats' = [c \in Chats |->
                    IF chats[c].at \in {"idle", "routing", "answered"} THEN chats[c]
                    ELSE [chats[c] EXCEPT !.since = Older(@), !.data = Older(@)]]
    /\ <<cache, chats>>' # <<cache, chats>>
    /\ UNCHANGED <<gates, modes, runs>>

-----------------------------------------------------------------------------
(* The chat bridge. *)

\* route_mcp_chat_read takes one look at the control center.
Routes(c, message) ==
    /\ chats[c].at = "idle" /\ Intents(message) # <<>>
    /\ chats' = [chats EXCEPT ![c].at = "routing", ![c].control = modes,
                              ![c].intents = Intents(message)]
    /\ UNCHANGED <<gates, modes, cache, runs>>

MayRead(c) ==
    /\ Intent(c).tool # "proposal_required"
    /\ ReadStatus(chats[c].control, Intent(c).server) = "usable"

\* A write stays a proposal; a read that is not usable is refused.
Blocks(c) ==
    /\ chats[c].at = "routing" /\ ~MayRead(c)
    /\ chats' = [chats EXCEPT ![c] = WithPart(@, Part("blocked", NoAge))]
    /\ UNCHANGED <<gates, modes, cache, runs>>

(* Faulty variant: an answer served from the cache is stored anew. *)
IsServedAndRenewed(c) ==
    /\ chats[c].at = "routing" /\ MayRead(c)
    /\ \E entry \in Cached(c) :
           /\ entry.age <= CacheLifetime
           /\ chats' = [chats EXCEPT ![c] =
                            WithPart(@, Part("read_only_complete", entry.data))]
           /\ cache' = (cache \ {entry}) \cup {[entry EXCEPT !.age = 0]}
    /\ UNCHANGED <<gates, modes, runs>>

\* _cached_mcp_result: an answer within its lifetime ...
IsServed(c) ==
    /\ chats[c].at = "routing" /\ MayRead(c)
    /\ \E entry \in Cached(c) :
           /\ entry.age <= CacheLifetime
           /\ chats' = [chats EXCEPT ![c] =
                            WithPart(@, Part("read_only_complete", entry.data))]
    /\ UNCHANGED <<gates, modes, cache, runs>>

\* ... and otherwise a call, of list_projects first when a project is named.
Misses(c) ==
    /\ chats[c].at = "routing" /\ MayRead(c)
    /\ \A entry \in Cached(c) : entry.age > CacheLifetime
    /\ cache' = cache \ Cached(c)
    /\ chats' = [chats EXCEPT ![c].at =
                    IF Intent(c).tool = "get_project_status" THEN "listing" ELSE "calling"]
    /\ UNCHANGED <<gates, modes, runs>>

\* The project is the only one of its name, and its own tool is called.
Lists(c) ==
    /\ chats[c].at = "listing"
    /\ chats' = [chats EXCEPT ![c].at = "calling"]
    /\ UNCHANGED <<gates, modes, cache, runs>>

\* A server's error, a lost transport, or no single project of that name:
\* _remember_mcp_result keeps none of them.
CallFails(c) ==
    /\ chats[c].at \in {"listing", "calling"}
    /\ \E status \in {"read_error", "transport_error"} :
           chats' = [chats EXCEPT ![c] = WithPart(@, Part(status, NoAge))]
    /\ UNCHANGED <<gates, modes, cache, runs>>

\* The server has answered; a full cache gives up its oldest entry, once it is found.
CallReturns(c) ==
    /\ chats[c].at = "calling"
    /\ chats' = [chats EXCEPT ![c].at = "returned", ![c].data = 0]
    /\ UNCHANGED <<gates, modes, cache, runs>>

FindsOldest(c) ==
    /\ chats[c].at = "returned"
    /\ \E oldest \in IF Cardinality(cache) < CacheMaxItems THEN {{}}
                     ELSE {{entry.key} : entry \in {e \in cache : \A f \in cache : f.age <= e.age}} :
           chats' = [chats EXCEPT ![c].at = "storing", ![c].oldest = oldest]
    /\ UNCHANGED <<gates, modes, cache, runs>>

\* The answer is as old as the call that asked for it.
Remembers(c) ==
    /\ chats[c].at = "storing"
    /\ cache' = {entry \in cache : entry.key \notin chats[c].oldest \cup {Key(c)}}
                \cup {[key |-> Key(c), age |-> chats[c].since, data |-> chats[c].data]}
    /\ chats' = [chats EXCEPT ![c] = WithPart(@, Part("read_only_complete", 0))]
    /\ UNCHANGED <<gates, modes, runs>>

\* The next message.
Forgets(c) ==
    /\ chats[c].at = "answered"
    /\ chats' = [chats EXCEPT ![c] = NoRead]
    /\ UNCHANGED <<gates, modes, cache, runs>>

-----------------------------------------------------------------------------
(* The Atlas tools of a tool run. *)

\* _personal_tool_entries: the run has Atlas tools only if reading is usable.
Composes(g) ==
    /\ runs[g].at = "idle" /\ AtlasIsUsable
    /\ runs' = [runs EXCEPT ![g].at = "ready"]
    /\ UNCHANGED <<gates, modes, chats, cache>>

\* _controlled_atlas_read looks at the control center before every call.
Clears(g, tool) ==
    runs' = [runs EXCEPT ![g] = IF AtlasIsUsable THEN [at |-> "cleared", tool |-> tool, late |-> 0]
                                ELSE [@ EXCEPT !.at = "ready", !.tool = "none"]]

Asks(g) ==
    /\ runs[g].at = "ready"
    /\ Clears(g, "list_projects")
    /\ UNCHANGED <<gates, modes, chats, cache>>

\* The call goes out.  "late" counts the calls made while reading is forbidden
\* since it was last found allowed.
Calls(g) ==
    /\ runs[g].at = "cleared"
    /\ runs' = [runs EXCEPT ![g].at = "waiting", ![g].late = IF AtlasIsUsable THEN 0 ELSE @ + 1]
    /\ UNCHANGED <<gates, modes, chats, cache>>

(* Faulty variant: the second call of a tool rests on the check of the first. *)
FindsProjectUnchecked(g) ==
    /\ runs[g].at = "waiting" /\ runs[g].tool = "list_projects"
    /\ runs' = [runs EXCEPT ![g].at = "cleared", ![g].tool = "get_project_status"]
    /\ UNCHANGED <<gates, modes, chats, cache>>

\* AtlasReadConnector resolved the project and reads its status or brief.
FindsProject(g) ==
    /\ runs[g].at = "waiting" /\ runs[g].tool = "list_projects"
    /\ Clears(g, "get_project_status")
    /\ UNCHANGED <<gates, modes, chats, cache>>

\* The answer, an error, or a project that is not there or not the only one.
AtlasReturns(g) ==
    /\ runs[g].at = "waiting"
    /\ runs' = [runs EXCEPT ![g].at = "ready", ![g].tool = "none"]
    /\ UNCHANGED <<gates, modes, chats, cache>>

RunFinishes(g) ==
    /\ runs[g].at = "ready"
    /\ runs' = [runs EXCEPT ![g] = NoRun]
    /\ UNCHANGED <<gates, modes, chats, cache>>

-----------------------------------------------------------------------------
ChatReads(c, messages) ==
    \/ \E message \in messages : Routes(c, message)
    \/ Blocks(c) \/ IsServed(c) \/ Misses(c) \/ Lists(c) \/ CallFails(c)
    \/ CallReturns(c) \/ FindsOldest(c) \/ Remembers(c) \/ Forgets(c)

RunReads(g) ==
    Composes(g) \/ Asks(g) \/ Calls(g) \/ FindsProject(g) \/ AtlasReturns(g) \/ RunFinishes(g)

\* What a message may mention.
Mentionable == Servers \cup {"mcp", "read", "writes", "changes", "project", "access"}

McpNext ==
    \/ \E control \in Controls, mode \in Modes : SetsMode(control, mode)
    \/ Tick
    \/ \E c \in Chats : ChatReads(c, SUBSET Mentionable)
    \/ \E g \in Runs : RunReads(g)

McpSpec == McpInit /\ [][McpNext]_mcpVars

-----------------------------------------------------------------------------
\* An answer that is labelled sourced rests, in each of its parts, on what a
\* server said no longer ago than a cached answer may live.
SourcedDataIsFresh ==
    \A c \in Chats : chats[c].label = "sourced" =>
        \A k \in 1..Len(chats[c].parts) : chats[c].parts[k].age <= CacheLifetime

\* "a coordinator created while enabled cannot keep reading after the operator
\* turns the control off" (brain.py): at most the one call that was about to
\* go out is made after that.
OneReadAfterOff == \A g \in Runs : runs[g].late <= 1
=============================================================================
