--------------------------- MODULE MCSharedStores ---------------------------
(***************************************************************************)
(* What the handlers of the server share: the playback queue, with callers *)
(* that may do anything a session store allows, the setup file and the     *)
(* audio artifacts.  A behaviour is about one of them, its focus, and the  *)
(* others stay as they are when the server starts.                         *)
(***************************************************************************)
EXTENDS MCPlaybackQueue, SetupState, AudioArtifacts

VARIABLE focus

-----------------------------------------------------------------------------
\* One client and every patch, or all of them with the patches that end the
\* wizard or change the services.
OneStepPatches ==
    {[Nothing EXCEPT !.services = services] : services \in Services}
    \cup {[Nothing EXCEPT !.wizard = [completed |-> TRUE, version |-> "1"]]}

OneSetupClient == CHOOSE c \in SetupClients : TRUE

SetupFocus ==
    \/ focus = "setup file" /\ SetupStep(OneSetupClient, Patches)
    \/ focus = "setup race" /\ \E c \in SetupClients : SetupStep(c, OneStepPatches)

SetupsInit ==
    CASE focus = "setup file" -> SetupInit({"absent", "v1", "current"})
      [] focus = "setup race" -> SetupInit({"absent", "current"})
      [] OTHER -> SetupInit({"absent"})

-----------------------------------------------------------------------------
\* One speech with every configuration, or all of them, two at a time; of three
\* only the second may be short enough to stay beside another.
OneSpeech == CHOOSE s \in Speeches : TRUE

PiperWorks == {config \in VoiceConfig :
                  config.provider = "piper" /\ config.enabled /\ config.allowed /\ config.ready}

UnderWay == {s \in Speeches : speech[s].at \in {"synthesizing", "made"}}

\* The speeches are alike and begin in the order of their numbers.
MayRun(s) ==
    /\ \A t \in Speeches : t < s => speech[t].at # "idle"
    /\ Cardinality(UnderWay \ {s}) <= 1

ArtifactFocus ==
    \/ /\ focus = "synthesis"
       /\ \/ \E new \in [muted: BOOLEAN, awake: BOOLEAN] : Switches(new)
          \/ Speaking(OneSpeech, VoiceConfig, {1})
          \/ Tick
    \/ /\ focus = "artifacts"
       /\ \/ \E s \in Speeches : MayRun(s) /\ Speaking(s, PiperWorks, IF s = 2 THEN {1, 2} ELSE {2})
          \/ Tick

-----------------------------------------------------------------------------
MCInit ==
    /\ focus \in {"queue", "setup file", "setup race", "synthesis", "artifacts"}
    /\ Init /\ SetupsInit /\ ArtifactsInit

MCNext ==
    /\ \/ focus = "queue" /\ Next /\ UNCHANGED <<setupVars, artifactVars>>
       \/ SetupFocus /\ UNCHANGED <<vars, artifactVars>>
       \/ ArtifactFocus /\ UNCHANGED <<vars, setupVars>>
    /\ UNCHANGED focus

MCSpec == MCInit /\ [][MCNext]_<<vars, setupVars, artifactVars, focus>>
=============================================================================
