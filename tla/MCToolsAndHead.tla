------------------------------ MODULE MCToolsAndHead -----------------------------
(***************************************************************************)
(* A run of the tool-using model, whose limits are all reached, and the    *)
(* head's state beside it.  Neither touches the other, so that a behaviour *)
(* is about one of them, its focus.                                        *)
(*                                                                         *)
(* HeadState is explored from six sides.  They share the state and every   *)
(* definition, but each lets only the requests and the controls act that   *)
(* its questions are about; all of them together would multiply the audio  *)
(* by the queues of proposals, which hardly touch.  Stores come late in    *)
(* the last of them only.                                                  *)
(***************************************************************************)
EXTENDS ToolOrchestrator, HeadState

VARIABLE focus

\* A run that was stopped before its first round.
Rest ==
    /\ pc = "returned" /\ round = 1 /\ pending = 0 /\ calls = 0 /\ seen = {} /\ total_bytes = 0
    /\ call = NoCall /\ result = NoResult /\ stop_reason = "cancelled"
    /\ cancelled = TRUE /\ stopped = TRUE
    /\ time_up = FALSE /\ call_late = FALSE
    /\ thinking = {} /\ answer = Empty /\ handlers = <<>> /\ late_starts = 0

MCInit ==
    /\ HeadInit
    /\ \/ focus = "orchestrator" /\ Init
       \/ focus \in {"speech", "listening", "switches", "approval", "panel", "overlaps"} /\ Rest

\* Two answers and previews spoken at once, against the switches.
SpeechNext == PressPower \/ PressLoud \/ SwitchMic \/ VoiceStop \/ Speaking \/ Commanding

Busy == {r \in Requests : req[r].at # "idle"}

\* Two recordings at once, against the stop button and the microphone's switch.
ListeningNext ==
    \/ Busy = {} /\ (PressAudioInput \/ PressListenMode)
    \/ SwitchMic \/ SessionStop \/ Listening \/ Commanding

\* Where one request is enough, it is this one.
Lone == CHOOSE r \in Requests : TRUE

\* One of them, against every switch that decides whether it may go on.
SwitchesNext ==
    \/ PressPower \/ PressAudioInput \/ PressListenMode \/ SwitchMic \/ SessionStop
    \/ (Listening \/ Commanding) /\ Busy' \subseteq {Lone}

\* Every event that queues, reviews, fails, grounds or clears.
ApprovalNext ==
    PressPower \/ PressAfc \/ PressAmFm \/ TriggerFailure \/ Heartbeat \/ ClearFailures
    \/ Chat \/ Intend \/ Review \/ Plan

\* The cutoffs, and a spoken confirmation against an operator who decides too.
PanelNext ==
    \/ SwitchMic \/ ClearFailures \/ Review
    \/ Busy = {} /\ (PressPower \/ SwitchCamera \/ AskForCapture \/ Intend)
    \/ (Confirming \/ \E r \in Requests : ApplyVoice(r)) /\ Busy' \subseteq {Lone}

\* Bound: the stores that are late at once.
MaxLate == 1

\* Two previews spoken at once, whose events overlap with each other, with the
\* stop button, the mute, and an event that changes nothing.
OverlapsNext ==
    /\ \/ PressLoud \/ VoiceStop \/ OtherEvent \/ LateStore
       \/ \E r \in GoesOn : VoiceSpeak(r) \/ ApplyVoice(r) \/ Closed(r)
    /\ Cardinality({w \in Writers : late'[w] # {}}) <= MaxLate

\* Elsewhere every state is stored as soon as it is made.
Promptly == UNCHANGED late

MCNext ==
    /\ \/ /\ focus = "orchestrator" /\ Next
          /\ UNCHANGED headVars
       \/ /\ \/ focus = "speech" /\ SpeechNext /\ Promptly
             \/ focus = "listening" /\ ListeningNext /\ Promptly
             \/ focus = "switches" /\ SwitchesNext /\ Promptly
             \/ focus = "approval" /\ ApprovalNext /\ Promptly
             \/ focus = "panel" /\ PanelNext /\ Promptly
             \/ focus = "overlaps" /\ OverlapsNext
          /\ UNCHANGED vars
    /\ UNCHANGED focus

\* The fairness of FairSpec, while the behaviour is about the run.
Works(A) == focus = "orchestrator" /\ A

MCSpec ==
    /\ MCInit /\ [][MCNext]_<<vars, headVars, focus>>
    /\ WF_vars(Works(Loop)) /\ WF_vars(Works(TimePasses)) /\ WF_vars(Works(DeadlinePasses))
==============================================================================
