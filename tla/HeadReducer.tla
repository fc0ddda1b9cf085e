----------------------------- MODULE HeadReducer -----------------------------
(***************************************************************************)
(* The canonical state of the head (brain.STATE) and its reducer           *)
(* (src/metis_head/reducer.py), with the two read-outs computed from it:   *)
(* the lamps (leds.py) and the physical panel (panel.py).                  *)
(*                                                                         *)
(* A state is a record; each operator below is the state that one kind of  *)
(* event makes of the state s.  Kept are the fields that the lamps, the    *)
(* panel and the gates of the handlers read.  Left out are timestamps,     *)
(* counters of past events, levels of volume, depth and initiative, and    *)
(* the health of modules and adapters, which no handler reads back.        *)
(* A proposal is one of a fixed set, queued at most once.                  *)
(***************************************************************************)
EXTENDS Integers, FiniteSets

CONSTANTS
    Proposals,          \* the proposals that may be queued for approval
    MemoryProposals,    \* those of them that propose a memory
    Plans               \* the tool plans that may be queued

\* A memory is proposed by one of the proposals; finitely many of each exist.
ASSUME QueuesAssumption ==
    /\ IsFiniteSet(Proposals) /\ IsFiniteSet(Plans)
    /\ MemoryProposals \subseteq Proposals

Reviews == {"pending", "approved", "denied"}
SourceStates == {"unsourced", "sourced", "degraded"}
ListenModes == {"no_listen", "wake_word", "push_to_talk"}
Failures == {"stt_failure", "tts_failure", "llm_failure", "governance_block",
             "bridge_disconnected", "vault_unavailable"}

HeadStates ==
    [power_state: {"awake", "standby"},
     audio_state: {"idle", "listening", "speaking", "capture_blocked", "standby_no_listen"},
     voice_output_state: {"idle", "queued", "synthesizing", "speaking", "complete",
                          "muted", "cancelled", "failed"},
     cognition_state: {"idle", "drafting", "awaiting_approval"},
     authority_state: {"local_governed", "source_grounded", "awaiting_approval", "blocked"},
     interaction_mode: {"human", "agent"},
     output_muted: BOOLEAN,
     mic_hardware_enabled: BOOLEAN,
     camera_hardware_enabled: BOOLEAN,
     vision_state: {"disabled", "idle", "capture_blocked"},
     source_grounding_enabled: BOOLEAN,
     source_state: SourceStates,
     active_failure: Failures \cup {"none"},
     pending_approval_count: 0 .. Cardinality(Proposals) + Cardinality(Plans),
     memory_proposal_count: 0 .. Cardinality(Proposals),
     tool_queue_count: 0 .. Cardinality(Proposals) + Cardinality(Plans),
     approval_queue: [Proposals -> Reviews \cup {"absent"}],
     tool_plan_queue: [Plans -> Reviews \cup {"absent"}],
     audio_input_state: {"disabled", "idle", "capturing", "transcribing", "blocked"},
     audio_input_enabled: BOOLEAN,
     listen_mode: ListenModes,
     listen_session_active: BOOLEAN]

baseline_state ==
    [power_state |-> "awake", audio_state |-> "idle", voice_output_state |-> "idle",
     cognition_state |-> "idle", authority_state |-> "local_governed",
     interaction_mode |-> "human", output_muted |-> FALSE, mic_hardware_enabled |-> TRUE,
     camera_hardware_enabled |-> FALSE, vision_state |-> "disabled",
     source_grounding_enabled |-> FALSE, source_state |-> "unsourced",
     active_failure |-> "none", pending_approval_count |-> 0, memory_proposal_count |-> 0,
     tool_queue_count |-> 0, approval_queue |-> [p \in Proposals |-> "absent"],
     tool_plan_queue |-> [p \in Plans |-> "absent"], audio_input_state |-> "disabled",
     audio_input_enabled |-> FALSE, listen_mode |-> "no_listen",
     listen_session_active |-> FALSE]

Awake(s) == s.power_state = "awake"

\* What a state's audio becomes when speech ends, for whatever reason.
Quiet(audio) == IF audio = "speaking" THEN "idle" ELSE audio

-----------------------------------------------------------------------------
\* Buttons and switches: _reduce_button and _reduce_privacy.

ReducePower(s, power) ==
    [s EXCEPT !.power_state = power,
              !.audio_state = IF power = "standby" THEN "standby_no_listen"
                              ELSE IF s.mic_hardware_enabled THEN "idle" ELSE @]

\* Faulty variant: muting leaves speech that is under way on.
ReduceLoudKeepsTalking(s, muted) == [s EXCEPT !.output_muted = muted]

ReduceLoud(s, muted) ==
    [s EXCEPT !.output_muted = muted, !.audio_state = IF muted THEN Quiet(@) ELSE @]

ReduceAfc(s, on) ==
    [s EXCEPT !.source_grounding_enabled = on,
              !.authority_state = IF on THEN "source_grounded" ELSE "local_governed"]

ReduceAmFm(s, mode) == [s EXCEPT !.interaction_mode = mode]

ReduceAudioInput(s, on) ==
    [s EXCEPT !.audio_input_enabled = on,
              !.audio_input_state = IF ~on THEN "disabled"
                                    ELSE IF s.mic_hardware_enabled THEN "idle" ELSE @]

ReduceListenMode(s, mode) == [s EXCEPT !.listen_mode = mode]

ReduceMic(s, on) ==
    [s EXCEPT !.mic_hardware_enabled = on,
              !.audio_state = IF ~on THEN "capture_blocked"
                              ELSE IF Awake(s) THEN "idle" ELSE @]

ReduceCamera(s, on) ==
    [s EXCEPT !.camera_hardware_enabled = on,
              !.vision_state = IF on THEN "idle" ELSE "capture_blocked"]

ReduceCapture(s, device) ==
    IF device = "mic" /\ ~s.mic_hardware_enabled
    THEN [s EXCEPT !.audio_state = "capture_blocked"]
    ELSE IF device = "camera" /\ ~s.camera_hardware_enabled
    THEN [s EXCEPT !.vision_state = "capture_blocked"]
    ELSE s

-----------------------------------------------------------------------------
\* Failures.

SetFailure(s, failure) ==
    [s EXCEPT !.active_failure = failure,
              !.voice_output_state = IF failure = "tts_failure" THEN "failed" ELSE @,
              !.audio_state = IF failure = "tts_failure" THEN Quiet(@) ELSE @,
              !.authority_state = IF failure = "governance_block" THEN "blocked" ELSE @]

\* Only a bridge that comes back clears its own failure.
ReduceHeartbeat(s) ==
    [s EXCEPT !.active_failure = IF @ = "bridge_disconnected" THEN "none" ELSE @]

clear_failures(s) ==
    [s EXCEPT !.active_failure = "none",
              !.authority_state = IF @ = "blocked" THEN "local_governed" ELSE @]

-----------------------------------------------------------------------------
\* Providers: _reduce_provider.

\* Speech to text, as the voice routes report it.  The confirmation statuses
\* are logged and change nothing.
ReduceStt(s, status) ==
    CASE status = "transcript" ->
            [s EXCEPT !.audio_state = IF s.mic_hardware_enabled THEN "listening" ELSE @]
      [] status = "complete" -> [s EXCEPT !.audio_state = IF @ = "listening" THEN "idle" ELSE @]
      [] status = "blocked" -> [s EXCEPT !.audio_state = "capture_blocked"]
      [] OTHER -> s

\* Faulty variant: speech that was played to its end leaves the lamp on.
ReduceTtsStaysOn(s, status) ==
    CASE status = "speaking" -> IF s.output_muted \/ ~Awake(s) THEN s
                                ELSE [s EXCEPT !.audio_state = "speaking"]
      [] status = "failure" -> SetFailure(s, "tts_failure")
      [] OTHER -> [s EXCEPT !.voice_output_state = status]

\* Text to speech.  Speech that was synthesized before the output was muted or
\* the head put in standby is dropped when it would begin.
ReduceTts(s, status) ==
    CASE status \in {"queued", "synthesizing"} -> [s EXCEPT !.voice_output_state = status]
      [] status = "speaking" ->
            IF s.output_muted
            THEN [s EXCEPT !.voice_output_state = "muted", !.audio_state = Quiet(@)]
            ELSE IF ~Awake(s) THEN [s EXCEPT !.voice_output_state = "muted"]
            ELSE [s EXCEPT !.voice_output_state = "speaking", !.audio_state = "speaking"]
      [] status = "failure" -> SetFailure(s, "tts_failure")
      [] OTHER -> [s EXCEPT !.voice_output_state = status, !.audio_state = Quiet(@)]

\* The vault and the memory providers.
ReduceMemoryProvider(s, status) ==
    IF status = "retrieved"
    THEN [s EXCEPT !.cognition_state = "idle", !.source_state = "sourced"]
    ELSE [SetFailure(s, "vault_unavailable") EXCEPT !.source_state = "unsourced"]

\* Faulty variant: the state is whatever was reported last.
ReduceAudioRepeats(s, status) ==
    IF status = "ptt_released" THEN [s EXCEPT !.listen_session_active = FALSE]
    ELSE [s EXCEPT !.audio_input_state = status]

\* The audio input.  A detected wake phrase, or none, changes nothing kept here.
ReduceAudio(s, status) ==
    CASE status \in {"capturing", "transcribing", "blocked"} ->
            [s EXCEPT !.audio_input_state = status]
      [] status = "complete" -> [s EXCEPT !.audio_input_state = "idle"]
      [] status = "ptt_pressed" -> [s EXCEPT !.listen_session_active = TRUE,
                                             !.audio_input_state = "capturing"]
      [] status = "ptt_released" -> [s EXCEPT !.listen_session_active = FALSE]
      [] OTHER -> s

\* _reduce_chat: a completed answer, or a model that failed.
ReduceChat(s, status, source) ==
    IF status = "failure" THEN SetFailure(s, "llm_failure")
    ELSE [s EXCEPT !.cognition_state = "idle",
                   !.source_state = IF s.source_grounding_enabled THEN source ELSE @]

-----------------------------------------------------------------------------
\* Governance: proposals, plans, their reviews and execution receipts.

PendingIn(queue) == {p \in DOMAIN queue : queue[p] = "pending"}

\* _refresh_proposal_counts
Recounted(s) ==
    LET pending == PendingIn(s.approval_queue)
        plans == PendingIn(s.tool_plan_queue)
    IN  [s EXCEPT !.pending_approval_count = Cardinality(pending) + Cardinality(plans),
                  !.memory_proposal_count = Cardinality(pending \cap MemoryProposals),
                  !.tool_queue_count = Cardinality(pending \ MemoryProposals) + Cardinality(plans)]

\* _reduce_intent.  tool: the intent asks for a tool, through proposal p.
GovernedClasses == {"external_action", "modify_local", "sensitive_action", "actuator_action"}

Queues(s, class, tool) ==
    tool \/ (s.interaction_mode = "agent" /\ class \in GovernedClasses)

ReduceIntent(s, class, tool, p) ==
    IF Queues(s, class, tool)
    THEN [Recounted([s EXCEPT !.approval_queue[p] = "pending"])
            EXCEPT !.cognition_state = "awaiting_approval",
                   !.authority_state = "awaiting_approval"]
    ELSE IF class = "sensitive_action" THEN SetFailure(s, "governance_block")
    ELSE [s EXCEPT !.cognition_state = IF class = "draft" THEN "drafting" ELSE "idle"]

\* _reduce_memory: a proposed memory; a deletion changes nothing kept here.
ReduceMemoryProposal(s, p) ==
    [Recounted([s EXCEPT !.approval_queue[p] = "pending"])
        EXCEPT !.authority_state = "awaiting_approval"]

\* Nothing waits for approval any more: the states that said so are left.
Relieved(s) ==
    IF s.pending_approval_count > 0 THEN s
    ELSE [s EXCEPT !.cognition_state = IF @ = "awaiting_approval" THEN "idle" ELSE @,
                   !.authority_state = IF @ = "awaiting_approval" THEN "local_governed" ELSE @]

\* Faulty variant: the review is stored and the counters are those of before.
ReduceProposalReviewUncounted(s, p, decision) ==
    IF s.approval_queue[p] = "pending"
    THEN Relieved([s EXCEPT !.approval_queue[p] = decision])
    ELSE s

\* _reduce_proposal_review: a proposal is reviewed once.
ReduceProposalReview(s, p, decision) ==
    IF s.approval_queue[p] = "pending"
    THEN Relieved(Recounted([s EXCEPT !.approval_queue[p] = decision]))
    ELSE s

\* _reduce_execution_request: a receipt that blocks shows as blocked authority.
\* runs: the approved proposal is one that a dry run or a read can serve.
ReduceExecutionRequest(s, p, runs) ==
    IF s.approval_queue[p] = "absent" \/ (s.approval_queue[p] = "approved" /\ runs) THEN s
    ELSE [s EXCEPT !.authority_state = "blocked"]

ReduceToolPlan(s, p) ==
    [Recounted([s EXCEPT !.tool_plan_queue[p] = "pending"])
        EXCEPT !.cognition_state = "awaiting_approval", !.authority_state = "awaiting_approval"]

\* The states follow the count alone, whatever they were.
FollowsCount(s) ==
    LET waiting == s.pending_approval_count > 0
    IN  [s EXCEPT !.authority_state = IF waiting THEN "awaiting_approval" ELSE "local_governed",
                  !.cognition_state = IF waiting THEN "awaiting_approval" ELSE "idle"]

ReduceToolPlanReview(s, p, decision) ==
    IF s.tool_plan_queue[p] = "pending"
    THEN FollowsCount(Recounted([s EXCEPT !.tool_plan_queue[p] = decision]))
    ELSE s

\* The steps of an approved plan were queued as proposals.
ReduceToolPlanStepQueue(s, p) ==
    IF s.tool_plan_queue[p] = "approved" THEN FollowsCount(Recounted(s)) ELSE s

-----------------------------------------------------------------------------
\* The lamps: resolve_leds.

Blocked(s) == s.active_failure = "governance_block" \/ s.authority_state = "blocked"
Failing(s) == s.active_failure # "none"
Awaiting(s) == s.pending_approval_count > 0 \/ s.authority_state = "awaiting_approval"

ActivityLed(s) ==
    IF Blocked(s) THEN "blocked"
    ELSE IF Failing(s) THEN "failure"
    ELSE IF ~Awake(s) THEN "standby"
    ELSE IF Awaiting(s) THEN "awaiting_approval"
    ELSE IF s.audio_state \in {"speaking", "listening"} THEN s.audio_state
    ELSE "idle"

AuthorityLed(s) ==
    IF ~Failing(s) /\ s.source_state = "sourced" THEN "source_grounded"
    ELSE IF ~Failing(s) /\ s.source_state = "unsourced" /\ s.source_grounding_enabled
    THEN "unsourced"
    ELSE IF ActivityLed(s) = "failure" THEN "degraded"
    ELSE IF ActivityLed(s) \in {"blocked", "standby", "awaiting_approval"} THEN ActivityLed(s)
    ELSE "governed"

-----------------------------------------------------------------------------
\* The panel: resolve_panel.  The scan for a pending spoken confirmation reads
\* a schema version that no event of the brain carries, so it never finds one.

ApprovalIndicator(s) == s.pending_approval_count

ToolIndicator(s) ==
    [on |-> s.tool_queue_count > 0 \/ \E p \in Plans : s.tool_plan_queue[p] # "absent",
     count |-> s.tool_queue_count]

MemoryIndicator(s) == s.memory_proposal_count

VoiceIndicator(s) ==
    IF "speaking" \in {s.voice_output_state, s.audio_state} THEN "speaking"
    ELSE IF s.audio_state = "listening" THEN "command_active"
    ELSE IF s.output_muted THEN "output_muted"
    ELSE "idle"

\* Faulty variant: standby is looked at before the faults.
PrecedenceStandbyFirst(s) ==
    IF ~s.mic_hardware_enabled /\ s.audio_state = "capture_blocked" THEN "mic_hardware_cutoff"
    ELSE IF ~s.camera_hardware_enabled /\ s.vision_state = "capture_blocked"
    THEN "camera_hardware_cutoff"
    ELSE IF ~Awake(s) THEN "standby"
    ELSE IF Blocked(s) THEN "governance_block"
    ELSE IF Failing(s) THEN "provider_failure"
    ELSE IF Awaiting(s) THEN "awaiting_approval"
    ELSE "idle"

Precedence(s) ==
    IF ~s.mic_hardware_enabled /\ s.audio_state = "capture_blocked" THEN "mic_hardware_cutoff"
    ELSE IF ~s.camera_hardware_enabled /\ s.vision_state = "capture_blocked"
    THEN "camera_hardware_cutoff"
    ELSE IF Blocked(s) THEN "governance_block"
    ELSE IF Failing(s) THEN "provider_failure"
    ELSE IF ~Awake(s) THEN "standby"
    ELSE IF Awaiting(s) THEN "awaiting_approval"
    ELSE IF s.interaction_mode = "agent" THEN "agent_mode"
    ELSE IF s.source_grounding_enabled /\ s.source_state \in {"sourced", "unsourced"}
    THEN "source_grounding"
    ELSE IF s.audio_state \in {"speaking", "listening"} THEN "active_runtime"
    ELSE "idle"
=============================================================================
