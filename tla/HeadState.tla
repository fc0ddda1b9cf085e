------------------------------ MODULE HeadState ------------------------------
(***************************************************************************)
(* The handlers of src/metis_head/brain.py that listen and speak, and the  *)
(* operator's buttons, switches and reviews, over the canonical state of   *)
(* HeadReducer.                                                            *)
(*                                                                         *)
(* Handlers run on pool threads and hold no lock.  A request takes a step  *)
(* for each place where it may wait (recording, recognition, the model,    *)
(* synthesis) and one for each event it applies; the operator acts between *)
(* any two of them.  An event is applied as STATE = reduce(STATE, event):  *)
(* the state that the reducer makes of the one it read may be stored at    *)
(* once, or later, over whatever was stored meanwhile.                     *)
(*                                                                         *)
(* One session speaks to the head through the browser's held button; its   *)
(* turn is kept here only as far as the voice route moves it (SessionStore *)
(* has the rest).                                                          *)
(***************************************************************************)
EXTENDS HeadReducer, Sequences

CONSTANTS
    Requests,           \* the requests that may be under way at once
    NoRequest,
    TriggeredFailures   \* bound: the failures that strike by themselves

ASSUME NoRequestAssumption == NoRequest \notin Requests
ASSUME TriggersAssumption == TriggeredFailures \subseteq Failures

VARIABLES
    head,       \* brain.STATE
    req,        \* where each request is
    turn,       \* the stage of the session's turn, and the request that began it
    late,       \* the states that were made, by whom, and are still to be stored
    relit       \* a late store turned the speaking lamp on, and it is on yet

headVars == <<head, req, turn, late, relit>>

\* Who stores: the requests, and one of the operator's handlers.
Writers == Requests \cup {NoRequest}

Triggers == {"none", "capture", "transcribe", "listen", "ptt", "wake", "browser", "command", "confirm", "speak"}
Places == {"idle", "waking", "capturing", "uploading", "transcribing", "routing", "answering",
           "confirming", "confirmed", "responding", "speaking", "closing", "completing",
           "releasing", "refusing"}

NoWork == [at |-> "idle", trigger |-> "none", say |-> <<>>, route |-> "none"]

NoTurn == [stage |-> "none", owner |-> NoRequest]

HeadInit ==
    /\ head = baseline_state
    /\ req = [r \in Requests |-> NoWork]
    /\ turn = NoTurn
    /\ late = [w \in Writers |-> {}]
    /\ relit = FALSE

\* The triggers that capture, recognize and route: _run_listen_cycle and its callers.
Cycles == {"listen", "ptt", "wake", "browser"}

Goes(r, place) == req' = [req EXCEPT ![r].at = place]
Ends(r) == req' = [req EXCEPT ![r] = NoWork]
Begins(r, trigger, place) ==
    /\ req[r].at = "idle"
    /\ req' = [req EXCEPT ![r] = [NoWork EXCEPT !.at = place, !.trigger = trigger]]

OnlyHead == UNCHANGED <<req, turn>>
NoStore == UNCHANGED <<head, late, relit>>

\* STATE = reduce_metis_event(STATE, event), where s is what the reducer made.
Stores(w, s) ==
    \/ /\ head' = s
       /\ relit' = (relit /\ s.audio_state = "speaking")
       /\ UNCHANGED late
    \/ /\ late[w] = {}
       /\ late' = [late EXCEPT ![w] = {s}]
       /\ UNCHANGED <<head, relit>>

StoresLate(w) ==
    \E s \in late[w] :
        /\ head' = s
        /\ relit' = (s.audio_state = "speaking" /\ (relit \/ head.audio_state # "speaking"))
        /\ late' = [late EXCEPT ![w] = {}]
        /\ OnlyHead

\* The held button is let go by the routes that hold it.
Leaves(r) == IF req[r].trigger \in {"ptt", "browser"} THEN Goes(r, "releasing") ELSE Ends(r)

\* The request's own turn is still the session's current one: SESSIONS.accepts.
Accepts(r) == turn.owner = r
TurnEnds(r) == turn' = IF Accepts(r) THEN NoTurn ELSE turn

\* The turn of a request that was stopped is no longer its own.
Cancelled(r) == req[r].trigger = "browser" /\ ~Accepts(r)

-----------------------------------------------------------------------------
\* The gate before any capture.

\* _audio_capture_governance
CaptureAllowed(require_listen_mode) ==
    /\ head.mic_hardware_enabled
    /\ head.audio_input_enabled
    /\ require_listen_mode => head.listen_mode # "no_listen"
    /\ Awake(head)

\* A handler the gate turns away reports the block and ends.
TurnedAway(r) ==
    /\ req[r].at = "idle"
    /\ Stores(r, ReduceAudio(head, "blocked"))
    /\ OnlyHead

-----------------------------------------------------------------------------
\* The operator.

PressPower == \E power \in {"awake", "standby"} : Stores(NoRequest, ReducePower(head, power)) /\ OnlyHead
PressLoud == \E muted \in BOOLEAN : Stores(NoRequest, ReduceLoud(head, muted)) /\ OnlyHead
PressAudioInput == \E on \in BOOLEAN : Stores(NoRequest, ReduceAudioInput(head, on)) /\ OnlyHead
PressListenMode == \E mode \in ListenModes : Stores(NoRequest, ReduceListenMode(head, mode)) /\ OnlyHead
PressAfc == \E on \in BOOLEAN : Stores(NoRequest, ReduceAfc(head, on)) /\ OnlyHead
PressAmFm == \E mode \in {"human", "agent"} : Stores(NoRequest, ReduceAmFm(head, mode)) /\ OnlyHead

SwitchMic == \E on \in BOOLEAN : Stores(NoRequest, ReduceMic(head, on)) /\ OnlyHead
SwitchCamera == \E on \in BOOLEAN : Stores(NoRequest, ReduceCamera(head, on)) /\ OnlyHead
AskForCapture == \E device \in {"mic", "camera"} : Stores(NoRequest, ReduceCapture(head, device)) /\ OnlyHead

\* POST /metis/failures/{failure_id}/trigger, the bridge's and the providers' events.
TriggerFailure ==
    /\ \/ \E failure \in TriggeredFailures : Stores(NoRequest, SetFailure(head, failure))
       \/ \E status \in {"retrieved", "unavailable"} : Stores(NoRequest, ReduceMemoryProvider(head, status))
    /\ OnlyHead

\* An event that is only logged, or moves a control that is not kept here.
OtherEvent == Stores(NoRequest, head) /\ OnlyHead

Heartbeat == Stores(NoRequest, ReduceHeartbeat(head)) /\ OnlyHead

ClearFailures == Stores(NoRequest, clear_failures(head)) /\ OnlyHead

\* A chat that was sent as text, and is not spoken.
Chat ==
    /\ \E status \in {"complete", "failure"}, source \in SourceStates :
            Stores(NoRequest, ReduceChat(head, status, source))
    /\ OnlyHead

Fresh(p) == head.approval_queue[p] = "absent"

Intend ==
    /\ \/ \E p \in Proposals, tool \in BOOLEAN,
            class \in {"external_action", "sensitive_action", "draft"} :
            Fresh(p) /\ Stores(NoRequest, ReduceIntent(head, class, tool, p))
       \/ \E p \in MemoryProposals : Fresh(p) /\ Stores(NoRequest, ReduceMemoryProposal(head, p))
    /\ OnlyHead

\* Approve or deny, once; then ask for the execution, or before.
Review ==
    /\ \/ \E p \in PendingIn(head.approval_queue), decision \in {"approved", "denied"} :
            Stores(NoRequest, ReduceProposalReview(head, p, decision))
       \/ \E p \in Proposals, runs \in BOOLEAN : Stores(NoRequest, ReduceExecutionRequest(head, p, runs))
    /\ OnlyHead

Plan ==
    /\ \/ \E p \in Plans :
            head.tool_plan_queue[p] = "absent" /\ Stores(NoRequest, ReduceToolPlan(head, p))
       \/ \E p \in PendingIn(head.tool_plan_queue), decision \in {"approved", "denied"} :
            Stores(NoRequest, ReduceToolPlanReview(head, p, decision))
       \/ \E p \in Plans : Stores(NoRequest, ReduceToolPlanStepQueue(head, p))
    /\ OnlyHead

-----------------------------------------------------------------------------
\* Speaking: speak_text decides, in the state it finds, which events there will
\* be; the handler then applies them one at a time.

\* What the voice provider makes of a text: the events of speech, or a failure.
Spoken == <<"queued", "synthesizing", "speaking", "complete">>

SpeechEvents(s) ==
    IF s.output_muted \/ ~Awake(s) THEN {<<"muted">>} ELSE {Spoken, <<"failure">>}

\* The handler goes on to apply the events of speech, if there are any; it does
\* not speak when speech was not asked for, or is disabled, or has no text.
Speaks(r) ==
    \E say \in SpeechEvents(head) \cup {<<>>} :
        req' = [req EXCEPT ![r].say = say,
                           ![r].at = IF say = <<>> THEN "closing" ELSE "speaking"]

\* POST /metis/voice/speak
VoiceSpeak(r) ==
    /\ req[r].at = "idle"
    /\ \E say \in SpeechEvents(head) :
        req' = [req EXCEPT ![r] = [NoWork EXCEPT !.at = "speaking", !.trigger = "speak", !.say = say]]
    /\ NoStore /\ UNCHANGED turn

\* POST /metis/voice/stop, which may name the session: its turn is cancelled too.
VoiceStop ==
    /\ turn' \in {turn, NoTurn}
    /\ Stores(NoRequest, ReduceTts(head, "cancelled"))
    /\ UNCHANGED req

\* _apply_voice_result, one event.
ApplyVoice(r) ==
    /\ req[r].at = "speaking"
    /\ Stores(r, ReduceTts(head, Head(req[r].say)))
    /\ req' = [req EXCEPT ![r].say = Tail(@),
                          ![r].at = IF Len(req[r].say) = 1 THEN "closing" ELSE @]
    /\ UNCHANGED turn

-----------------------------------------------------------------------------
\* Beginning to listen.

\* POST /metis/audio/input/capture: one capture, that goes no further.
AudioCapture(r) ==
    \/ ~CaptureAllowed(FALSE) /\ TurnedAway(r)
    \/ CaptureAllowed(FALSE) /\ Begins(r, "capture", "capturing") /\ NoStore /\ UNCHANGED turn

\* POST /metis/audio/transcribe: one recognition, reported when it is over.
AudioTranscribe(r) ==
    \/ ~CaptureAllowed(FALSE) /\ TurnedAway(r)
    \/ CaptureAllowed(FALSE) /\ Begins(r, "transcribe", "capturing") /\ NoStore /\ UNCHANGED turn

\* A request that begins with an event, and goes on to the place.
BeginsWith(r, trigger, s, place) ==
    /\ Begins(r, trigger, place)
    /\ Stores(r, s)
    /\ UNCHANGED turn

\* POST /metis/audio/listen
AudioListen(r) ==
    \/ ~CaptureAllowed(TRUE) /\ TurnedAway(r)
    \/ CaptureAllowed(TRUE) /\ BeginsWith(r, "listen", ReduceAudio(head, "capturing"), "capturing")

\* POST /metis/audio/wake, with a text that begins with the wake phrase: the
\* phrase is logged, then the capture begins.
AudioWake(r) ==
    /\ head.listen_mode = "wake_word"
    /\ \/ ~CaptureAllowed(FALSE) /\ TurnedAway(r)
       \/ CaptureAllowed(FALSE) /\ BeginsWith(r, "wake", head, "waking")

\* POST /metis/audio/ptt, action press.
PttPress(r) ==
    /\ head.listen_mode = "push_to_talk"
    /\ \/ ~CaptureAllowed(FALSE) /\ TurnedAway(r)
       \/ /\ CaptureAllowed(FALSE)
          /\ req[r].at = "idle"
          /\ Stores(r, ReduceAudio(head, "ptt_pressed"))
          /\ OnlyHead

\* POST /metis/audio/ptt, action cancel.
PttCancel(r) ==
    /\ req[r].at = "idle"
    /\ head.listen_session_active
    /\ Stores(r, ReduceAudio(head, "ptt_released"))
    /\ OnlyHead

\* POST /metis/audio/ptt, action release: refused, which lets the button go and
\* reports the block; or with the local microphone, which this route refuses; or
\* the capture begins.
PttRelease(r) ==
    /\ head.listen_session_active
    /\ head.listen_mode = "push_to_talk"
    /\ \/ /\ ~CaptureAllowed(FALSE)
          /\ BeginsWith(r, "ptt", ReduceAudio(head, "ptt_released"), "refusing")
       \/ /\ CaptureAllowed(FALSE)
          /\ req[r].at = "idle"
          /\ Stores(r, ReduceAudio(head, "ptt_released"))
          /\ OnlyHead
       \/ /\ CaptureAllowed(FALSE)
          /\ BeginsWith(r, "ptt", ReduceAudio(head, "capturing"), "capturing")

\* The second event of a release that was refused, and of a phrase that was heard.
SecondEvent(r) ==
    /\ \/ req[r].at = "refusing" /\ Stores(r, ReduceAudio(head, "blocked")) /\ Ends(r)
       \/ req[r].at = "waking" /\ Stores(r, ReduceAudio(head, "capturing")) /\ Goes(r, "capturing")
    /\ UNCHANGED turn

\* POST /metis/audio/browser_ptt: the turn begins, then the upload is read.
BrowserPtt(r) ==
    /\ head.listen_mode = "push_to_talk"
    /\ \/ ~CaptureAllowed(FALSE) /\ TurnedAway(r)
       \/ /\ CaptureAllowed(FALSE)
          /\ turn = NoTurn
          /\ Begins(r, "browser", "uploading")
          /\ turn' = [stage |-> "transcribing", owner |-> r]
          /\ NoStore

\* The upload was read; _validate_browser_ptt_upload refuses it, or takes it.
Uploaded(r) ==
    /\ req[r].at = "uploading"
    /\ \/ Ends(r) /\ TurnEnds(r) /\ NoStore
       \/ Stores(r, ReduceAudio(head, "capturing")) /\ Goes(r, "capturing") /\ UNCHANGED turn

\* POST /metis/sessions/{session_id}/cancel, as far as the turn goes.
SessionStop ==
    /\ turn # NoTurn
    /\ turn' = NoTurn
    /\ NoStore /\ UNCHANGED req

-----------------------------------------------------------------------------
\* Capturing and recognizing.

\* capture, of the provider: a recording or none.  An upload, and a recognition
\* that is asked for without a recording, have theirs.
Recordings(trigger) == IF trigger \in {"browser", "transcribe"} THEN {TRUE} ELSE BOOLEAN

Captured(r) ==
    /\ req[r].at = "capturing"
    /\ \/ /\ FALSE \in Recordings(req[r].trigger)
          /\ Stores(r, ReduceAudio(head, "blocked"))
          /\ Leaves(r)
       \/ /\ req[r].trigger = "capture"
          /\ Stores(r, ReduceAudio(head, "complete"))
          /\ Ends(r)
       \/ /\ Cancelled(r)
          /\ NoStore
          /\ Leaves(r)
       \/ /\ req[r].trigger \in Cycles \cup {"transcribe"}
          /\ ~Cancelled(r)
          /\ Stores(r, ReduceAudio(head, "transcribing"))
          /\ Goes(r, IF req[r].trigger = "transcribe" THEN "completing" ELSE "transcribing")
    /\ UNCHANGED turn

\* transcribe, of the provider: a text, or none because it is not enabled, not
\* installed, has no audio, or failed.
Recognitions == {"text", "none"}

\* Recognition raises: the handler ends where it is and nothing is let go.
TranscribeFails(r) ==
    /\ req[r].at = "transcribing"
    /\ Ends(r)
    /\ TurnEnds(r)
    /\ NoStore

\* Recognition returns, after the turn was stopped, or with no text, or with one.
Transcribed(r) ==
    /\ req[r].at = "transcribing"
    /\ \/ /\ Cancelled(r)
          /\ NoStore
          /\ Leaves(r)
          /\ UNCHANGED turn
       \/ /\ ~Cancelled(r)
          /\ "none" \in Recognitions
          /\ Stores(r, ReduceAudio(head, "complete"))
          /\ Leaves(r)
          /\ TurnEnds(r)
       \/ /\ ~Cancelled(r)
          /\ "text" \in Recognitions
          /\ Goes(r, "routing")
          /\ turn' = IF Accepts(r) THEN [turn EXCEPT !.stage = "thinking"] ELSE turn
          /\ NoStore

-----------------------------------------------------------------------------
\* Routing a recognized text, or one that was sent as text.

\* The request is routed, and goes on to the place.
Routes(r, route, place) == req' = [req EXCEPT ![r].at = place, ![r].route = route]

\* POST /metis/voice/command
VoiceCommand(r) == Begins(r, "command", "routing") /\ NoStore /\ UNCHANGED turn

\* voice_command: the switch is looked at again; the text goes to the chat.
\* A refused command ends the request and says nothing to the session.
Command(r) ==
    \/ /\ ~head.mic_hardware_enabled
       /\ Stores(r, ReduceStt(head, "blocked"))
       /\ Goes(r, "closing")
    \/ /\ head.mic_hardware_enabled
       /\ Stores(r, ReduceStt(head, "transcript"))
       /\ Routes(r, "command", "answering")

RouteCommand(r) ==
    /\ req[r].at = "routing"
    /\ req[r].trigger # "confirm"
    /\ Command(r)
    /\ UNCHANGED turn

\* POST /metis/voice/confirm
VoiceConfirm(r) == Begins(r, "confirm", "routing") /\ NoStore /\ UNCHANGED turn

\* voice_confirm, to the event that logs what was said.
Confirm(r) ==
    \/ /\ ~head.mic_hardware_enabled
       /\ Stores(r, ReduceStt(head, "blocked"))
       /\ Routes(r, "confirm", "closing")
    \/ /\ head.mic_hardware_enabled
       /\ Stores(r, head)
       /\ Routes(r, "confirm", "confirming")

\* The fork of _run_stt_route_cycle: with a proposal pending, a text that decides
\* or names one is a confirmation.
RouteConfirm(r) ==
    /\ req[r].at = "routing"
    /\ \/ req[r].trigger = "confirm"
       \/ req[r].trigger \in Cycles /\ PendingIn(head.approval_queue) # {}
    /\ Confirm(r)
    /\ UNCHANGED turn

\* What was said, with the proposal it names, decides one that is pending, which
\* is then logged; or it is answered with a readback, which is logged only.
Confirms(r) ==
    /\ \/ /\ req[r].at = "confirming"
          /\ \E p \in PendingIn(head.approval_queue), d \in {"approved", "denied"} :
                Stores(r, ReduceProposalReview(head, p, d))
          /\ Goes(r, "confirmed")
       \/ /\ req[r].at \in {"confirming", "confirmed"}
          /\ Stores(r, head)
          /\ Goes(r, "responding")
    /\ UNCHANGED turn

\* The chat answered; or the model failed; or it raised before the model was
\* asked, because the turn had been stopped or a store could not be read, which
\* ends the request and leaves the turn as it was.
Answered(r) ==
    /\ req[r].at = "answering"
    /\ \/ /\ \E source \in SourceStates : Stores(r, ReduceChat(head, "complete", source))
          /\ Goes(r, "responding")
          /\ UNCHANGED turn
       \/ /\ Stores(r, ReduceChat(head, "failure", "unsourced"))
          /\ Ends(r)
          /\ TurnEnds(r)
       \/ /\ Ends(r)
          /\ NoStore /\ UNCHANGED turn

\* The answer is committed to its turn, which ends it, and spoken; a turn that was
\* stopped refuses it, which ends the request.  A confirmation's reply is spoken.
Responds(r) ==
    /\ req[r].at = "responding"
    /\ \/ req[r].route = "command" /\ Cancelled(r) /\ Ends(r) /\ UNCHANGED turn
       \/ req[r].route = "command" /\ ~Cancelled(r) /\ Speaks(r) /\ TurnEnds(r)
       \/ req[r].route = "confirm" /\ Speaks(r) /\ UNCHANGED turn
    /\ NoStore

\* The command is complete, or the confirmation's turn.
Closed(r) ==
    /\ req[r].at = "closing"
    /\ \/ /\ req[r].route = "command"
          /\ Stores(r, ReduceStt(head, "complete"))
          /\ UNCHANGED turn
       \/ req[r].route = "confirm" /\ TurnEnds(r) /\ NoStore
       \/ req[r].route = "none" /\ NoStore /\ UNCHANGED turn
    /\ IF req[r].trigger \in Cycles THEN Goes(r, "completing") ELSE Ends(r)

\* Then the capture is.
Completed(r) ==
    /\ req[r].at = "completing"
    /\ Stores(r, ReduceAudio(head, "complete"))
    /\ Leaves(r)
    /\ UNCHANGED turn

\* Then the button is let go; by the browser's route, if it is held.
LetsGo(r) ==
    /\ req[r].at = "releasing"
    /\ \/ /\ req[r].trigger = "ptt" \/ head.listen_session_active
          /\ Stores(r, ReduceAudio(head, "ptt_released"))
       \/ /\ req[r].trigger = "browser" /\ ~head.listen_session_active
          /\ NoStore
    /\ Ends(r)
    /\ UNCHANGED turn

-----------------------------------------------------------------------------
Operator ==
    \/ PressPower \/ PressLoud \/ PressAudioInput \/ PressListenMode \/ PressAfc \/ PressAmFm
    \/ SwitchMic \/ SwitchCamera \/ AskForCapture \/ TriggerFailure \/ Heartbeat \/ ClearFailures
    \/ Chat \/ Intend \/ Review \/ Plan \/ VoiceStop \/ SessionStop \/ OtherEvent

\* A request goes on when what it made is stored.
GoesOn == {r \in Requests : late[r] = {}}

\* Recordings, from the press or the phrase to the text.
Listening ==
    \E r \in GoesOn :
        \/ AudioCapture(r) \/ AudioTranscribe(r) \/ AudioListen(r) \/ AudioWake(r)
        \/ PttPress(r) \/ PttCancel(r) \/ PttRelease(r) \/ SecondEvent(r)
        \/ BrowserPtt(r) \/ Uploaded(r)
        \/ Captured(r) \/ TranscribeFails(r) \/ Transcribed(r)

\* From the text to the end of the answer.
Closing(r) == Responds(r) \/ Closed(r) \/ Completed(r) \/ LetsGo(r)
Commanding == \E r \in GoesOn : RouteCommand(r) \/ Answered(r) \/ Closing(r)
Confirming == \E r \in GoesOn : VoiceConfirm(r) \/ RouteConfirm(r) \/ Confirms(r) \/ Closing(r)
Speaking == \E r \in GoesOn : VoiceSpeak(r) \/ VoiceCommand(r) \/ ApplyVoice(r)

LateStore == \E w \in Writers : StoresLate(w)

HeadNext == Operator \/ Listening \/ Commanding \/ Confirming \/ Speaking \/ LateStore

HeadSpec == HeadInit /\ [][HeadNext]_headVars

-----------------------------------------------------------------------------
\* Properties.

\* The head's state and the requests are of the kinds the handlers make.
HeadTypeOK ==
    /\ head \in HeadStates
    /\ req \in [Requests -> [at: Places, trigger: Triggers,
                             route: {"none", "command", "confirm"},
                             say: {<<>>, <<"muted">>, <<"failure">>, <<"complete">>,
                                   <<"speaking", "complete">>,
                                   <<"synthesizing", "speaking", "complete">>, Spoken}]]
    /\ turn \in [stage: {"none", "transcribing", "thinking"}, owner: Writers]
    /\ \A w \in Writers : late[w] \subseteq HeadStates
    /\ relit \in BOOLEAN

\* The head is never shown speaking while it is muted or in standby, nor listening
\* with its microphone cut off, whenever the switch was thrown: speech that is
\* already synthesized, and a command that is already recognized, meet it again.
AudioRespectsSwitches ==
    /\ head.audio_state = "speaking" => ~head.output_muted /\ Awake(head)
    /\ head.audio_state = "listening" => head.mic_hardware_enabled

\* A head shown speaking has a handler that will apply the end of that speech, or
\* has made the state in which the lamp is off and has yet to store it; unless a
\* store that came late turned the lamp on.  So no order of answers, stops and
\* faults leaves the lamp on, one overlap of two handlers apart: the one that
\* stores a copy in which the head still speaks after another stored the end.
\* The next event that turns the lamp off ends that too.
SpeakingWillEnd ==
    head.audio_state = "speaking" =>
        \/ \E r \in Requests : req[r].say = <<"complete">>
        \/ \E w \in Writers : \E s \in late[w] : s.audio_state # "speaking"
        \/ relit

\* Whatever is pending is counted, and the lamps and the panel show it or something
\* that outranks it; and a head that says it awaits approval has something pending.
PendingIsShown ==
    LET pending == Cardinality(PendingIn(head.approval_queue))
                   + Cardinality(PendingIn(head.tool_plan_queue))
    IN  /\ ApprovalIndicator(head) = pending
        /\ ToolIndicator(head).count + MemoryIndicator(head) = pending
        /\ pending > 0 => ActivityLed(head) \in {"awaiting_approval", "standby", "failure", "blocked"}
        /\ "awaiting_approval" \in {head.authority_state, head.cognition_state} => pending > 0

\* The lamps and the panel are two cascades over one state: unless a cutoff is
\* shown, the panel's label and the activity lamp name the same condition.
PanelAgreesWithLamps ==
    LET label == Precedence(head)
        lamp == ActivityLed(head)
    IN  label \notin {"mic_hardware_cutoff", "camera_hardware_cutoff"} =>
            /\ label = "governance_block" <=> lamp = "blocked"
            /\ label = "provider_failure" <=> lamp = "failure"
            /\ label \in {"standby", "awaiting_approval"} \/ lamp \in {"standby", "awaiting_approval"}
                => label = lamp

\* What the operator is shown is what the head's state holds.
PanelIsTrue == HeadTypeOK /\ PendingIsShown /\ PanelAgreesWithLamps
=============================================================================
