------------------------------- MODULE BohLink -------------------------------
(***************************************************************************)
(* The link to BOH, the external service of source material: the poller    *)
(* that keeps its state (src/metis_head/boh_link.py), the retrieval a chat *)
(* message makes (boh_retrieval.py), and the source label of the answer    *)
(* (src/metis_head/brain.py).                                              *)
(*                                                                         *)
(* One record is shared by the poller, the thread that starts and stops    *)
(* it, and every chat request, without a lock.  A poller that has not      *)
(* ended two seconds after it was told to goes on by itself.               *)
(***************************************************************************)
EXTENDS Naturals, Sequences, SequencesExt

CONSTANTS
    Managers,       \* BOHLinkManager objects, each started once
    NoManager,
    EventLimit      \* MAX_TRANSITION_EVENTS

ASSUME BohLinkAssumption == NoManager \notin Managers /\ EventLimit \in Nat \ {0}

VARIABLES
    link,       \* _LINK_STATE
    manager,    \* _LINK_MANAGER
    stopping,   \* the managers told to stop
    poller,     \* their threads
    answers,    \* the label of the last answer (STATE.source_state), and what it rests on
    lone        \* bookkeeping: no poller has been started while another one ran

bohVars == <<link, manager, stopping, poller, answers, lone>>

LinkStates == {"disabled", "connecting", "connected", "degraded", "disconnected", "auth_failed"}

Link == [enabled |-> FALSE, state |-> "disabled", error |-> FALSE, health |-> FALSE, events |-> <<>>]

NoPoller == [at |-> "new", next |-> "none"]

NoAnswer == [label |-> "unsourced", evidence |-> FALSE, asked |-> FALSE]

BohInit ==
    /\ link = Link
    /\ manager = NoManager
    /\ stopping = {}
    /\ poller = [m \in Managers |-> NoPoller]
    /\ answers = NoAnswer
    /\ lone = TRUE

Running(m) == poller[m].at \notin {"new", "ended"}

(* Faulty variant: _set_state records every call. *)
InStateAlways(old, new) ==
    LET events == Append(old.events, [from |-> old.state, to |-> new])
    IN  [old EXCEPT !.state = new,
                    !.events = IF Len(events) > EventLimit THEN Tail(events) ELSE events]

\* _set_state
InState(old, new) ==
    LET events == Append(old.events, [from |-> old.state, to |-> new])
    IN  IF old.state = new THEN old
        ELSE [old EXCEPT !.state = new,
                         !.events = IF Len(events) > EventLimit THEN Tail(events) ELSE events]

-----------------------------------------------------------------------------
\* start_background_link
StartDisabled ==
    /\ link' = [InState(link, "disabled") EXCEPT !.enabled = FALSE]
    /\ UNCHANGED <<manager, stopping, poller, answers, lone>>

StartLink(m) ==
    /\ manager = NoManager /\ poller[m].at = "new"
    /\ manager' = m
    /\ link' = [InState(link, "connecting") EXCEPT !.enabled = TRUE]
    /\ poller' = [poller EXCEPT ![m].at = "resting"]
    /\ lone' = (lone /\ \A other \in Managers : ~Running(other))
    /\ UNCHANGED <<stopping, answers>>

\* stop_background_link: the thread is waited for, but not for ever.
StopLink ==
    /\ manager # NoManager
    /\ stopping' = stopping \cup {manager}
    /\ manager' = NoManager
    /\ UNCHANGED <<link, poller, answers, lone>>

-----------------------------------------------------------------------------
\* BOHLinkManager._run

Goto(m, place, next) == poller' = [poller EXCEPT ![m] = [at |-> place, next |-> next]]
OnlyPoller == UNCHANGED <<manager, stopping, answers, lone>>

PollerEnds(m) ==
    /\ poller[m].at = "resting" /\ m \in stopping
    /\ Goto(m, "ended", "none")
    /\ UNCHANGED link /\ OnlyPoller

\* probe_boh_once: with no token there is nothing to ask.
Probes(m) ==
    /\ poller[m].at = "resting" /\ m \notin stopping
    /\ \/ link' = [link EXCEPT !.enabled = TRUE] /\ Goto(m, "health", "none")
       \/ link' = [link EXCEPT !.enabled = TRUE, !.error = TRUE] /\ Goto(m, "settling", "auth_failed")
    /\ OnlyPoller

\* An answer of the service makes the record say why, and then the state change.
Concludes(m, from, next, health) ==
    /\ poller[m].at = from
    /\ link' = [link EXCEPT !.error = TRUE, !.health = health]
    /\ Goto(m, "settling", next)
    /\ OnlyPoller

Proceeds(m, from, to, health) ==
    /\ poller[m].at = from
    /\ link' = [link EXCEPT !.health = health]
    /\ Goto(m, to, "none")
    /\ OnlyPoller

Health(m) ==
    \/ Concludes(m, "health", "disconnected", FALSE)
    \/ Concludes(m, "health", "auth_failed", FALSE)
    \/ Concludes(m, "health", "degraded", TRUE)
    \/ Proceeds(m, "health", "status", TRUE)

\* Only a refusal of the status matters.
Status(m) ==
    \/ Concludes(m, "status", "auth_failed", link.health)
    \/ Proceeds(m, "status", "probe", link.health)

\* The retrieval itself; an exception counts as degraded wherever it is raised.
Probe(m) ==
    \/ Concludes(m, "probe", "auth_failed", link.health)
    \/ Concludes(m, "probe", "degraded", link.health)
    \/ /\ poller[m].at = "probe"
       /\ link' = [link EXCEPT !.error = FALSE]
       /\ Goto(m, "settling", "connected")
       /\ OnlyPoller

ProbeRaises(m) == \E place \in {"health", "status"} : Concludes(m, place, "degraded", link.health)

Settles(m) ==
    /\ poller[m].at = "settling"
    /\ link' = InState(link, poller[m].next)
    /\ Goto(m, "resting", "none")
    /\ OnlyPoller

-----------------------------------------------------------------------------
\* A chat message, with source grounding or without.

\* retrieve_boh_context: BOH reports a count of its own next to the packs it sends.
Retrievals ==
    {[asked |-> FALSE, state |-> state, packs |-> FALSE] : state \in {"unsourced", "degraded"}}
    \cup {[asked |-> TRUE, state |-> "degraded", packs |-> FALSE]}
    \cup [asked : {TRUE}, state : {"sourced", "unsourced"}, packs : BOOLEAN]

NotRetrieved == [asked |-> FALSE, state |-> "unsourced", packs |-> FALSE]
RetrievalRefused == [asked |-> FALSE, state |-> "degraded", packs |-> FALSE]

(* Faulty variant: the label is the one retrieval gave. *)
LabelOfRetrieval(retrieval, grounding) == IF grounding THEN retrieval.state ELSE answers.label

\* The label of the answer: evidence has to have reached the model, by render_context and
\* assemble_conversation_context.  With grounding off the label of the last answer stays.
SourceLabel(retrieval, grounding) ==
    IF ~grounding THEN answers.label
    ELSE IF retrieval.packs THEN retrieval.state
    ELSE IF retrieval.state = "degraded" THEN "degraded" ELSE "unsourced"

\* Without grounding nothing is retrieved; what the poller knows to be refused is not asked
\* for again.  The switch is read once more for the label, after the model's answer.
Retrieves ==
    /\ \E retrieval \in {NotRetrieved} \cup
                         IF link.enabled /\ link.state = "auth_failed" THEN {RetrievalRefused} ELSE Retrievals,
          grounding \in BOOLEAN :
             answers' = [label |-> SourceLabel(retrieval, grounding),
                         evidence |-> IF grounding THEN retrieval.packs ELSE answers.evidence,
                         asked |-> retrieval.asked]
    /\ UNCHANGED <<link, manager, stopping, poller, lone>>

PollerStep(m) ==
    PollerEnds(m) \/ Probes(m) \/ Health(m) \/ Status(m) \/ Probe(m) \/ ProbeRaises(m) \/ Settles(m)

BohNext ==
    \/ StartDisabled \/ StopLink \/ Retrieves
    \/ \E m \in Managers : StartLink(m) \/ PollerStep(m)

BohSpec == BohInit /\ [][BohNext]_bohVars

-----------------------------------------------------------------------------
\* While there has never been more than one poller, the record it leaves is consistent: the
\* transitions follow each other up to the present state, and an error is shown with the
\* states that have one, none with the others.
LinkIsConsistent ==
    LET settled == \A m \in Managers : poller[m].at \in {"new", "resting", "ended"}
        last == link.events[Len(link.events)]
    IN  lone /\ settled =>
            /\ link.events = <<>> \/ last.to = link.state
            /\ \A i \in 2..Len(link.events) : link.events[i].from = link.events[i - 1].to
            /\ \A i \in DOMAIN link.events : link.events[i].from # link.events[i].to
            /\ link.state \in {"degraded", "disconnected", "auth_failed"} => link.error
            /\ link.state = "connected" => ~link.error /\ link.health

\* An answer is called sourced only if source material reached the model: for this answer, or,
\* where grounding is off, for the one its label was taken over from.
SourcedHasEvidence == answers.label = "sourced" => answers.evidence
==============================================================================
