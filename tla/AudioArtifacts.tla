---------------------------- MODULE AudioArtifacts ----------------------------
(***************************************************************************)
(* Spoken output: what decides whether a text is spoken and by which       *)
(* provider (src/metis_head/voice.py), and the bounded store that keeps    *)
(* the synthesized audio until a browser fetches it                        *)
(* (src/metis_head/audio/artifacts.py).                                    *)
(*                                                                         *)
(* Each method of the store runs under its lock, so it is one step; the    *)
(* requests that synthesize, bind, queue and fetch take turns.  Audio is   *)
(* its size, time is the age of an artifact.  What is bound to a turn here *)
(* is queued by Conversation.                                              *)
(***************************************************************************)
EXTENDS Naturals, Sequences, SequencesExt, Filtering

CONSTANTS
    Speeches,       \* requests that speak; each makes at most one artifact
    Listeners,      \* sessions of browsers
    NoListener,     \* a request that names no session
    MaxItems,       \* AudioArtifactStore.max_items
    MaxTotalBytes,  \* AudioArtifactStore.max_total_bytes
    Lifetime        \* AudioArtifactStore.ttl_seconds, in ticks

ASSUME AudioArtifactsAssumption ==
    /\ NoListener \notin Listeners
    /\ MaxItems \in Nat \ {0} /\ MaxTotalBytes \in Nat \ {0} /\ Lifetime \in Nat

VARIABLES
    artifacts,      \* _items, oldest first
    switches,   \* the parts of the head's state speak_text reads
    speech,     \* the speaking requests
    fetched     \* bookkeeping: who was handed which artifact, in order

artifactVars == <<artifacts, switches, speech, fetched>>

Owners == Listeners \cup {NoListener}

\* A VoiceConfig: "allowed" and "ready" stand for the gates of its provider.
VoiceConfig == [enabled: BOOLEAN, allowed: BOOLEAN, ready: BOOLEAN,
                provider: {"mock", "system", "piper", "failed"}]

\* How speak_text ends: a VoiceResult and the statuses of its events.
Result(ok, spoken, events) == [ok |-> ok, spoken |-> spoken, events |-> events, audio |-> FALSE]

Failure == Result(FALSE, FALSE, <<"failure">>)

Spoken == Result(TRUE, TRUE, <<"queued", "synthesizing", "speaking", "complete">>)

\* What speak_text decides before it calls a provider.
Unspoken(config, text) ==
    CASE ~config.enabled                       -> Result(TRUE, FALSE, <<>>)
      [] switches.muted \/ ~switches.awake     -> Result(TRUE, FALSE, <<"muted">>)
      [] text = "blank"                        -> Result(FALSE, FALSE, <<>>)

IsRefused(config, text) ==
    ~config.enabled \/ switches.muted \/ ~switches.awake \/ text = "blank"

\* The providers that make no audio: Mock, System and Failed.
SilentResult(config) ==
    IF config.provider = "failed" \/ (config.provider = "system" /\ ~config.allowed)
    THEN Failure ELSE Spoken

-----------------------------------------------------------------------------
(* The store. *)

Bytes(store) == SumFunction([k \in 1..Len(store) |-> store[k].size])

\* _prune
Pruned(store) == Only(store, {item \in ToSet(store) : item.age <= Lifetime})

(* Faulty variant: only the number of artifacts is bounded. *)
TrimmedByCount(store) ==
    LET fits == {k \in 1..Len(store) + 1 : Len(SubSeq(store, k, Len(store))) <= MaxItems}
    IN  SubSeq(store, Min(fits), Len(store))

\* The eviction loop of put: the oldest go until both bounds are met.
Trimmed(store) ==
    LET Rest(k) == SubSeq(store, k, Len(store))
        fits    == {k \in 1..Len(store) + 1 :
                        Len(Rest(k)) <= MaxItems /\ Bytes(Rest(k)) <= MaxTotalBytes}
    IN  Rest(Min(fits))

Kept(store) == {store[k].id : k \in 1..Len(store)}

Without(store, id) == Only(store, {item \in ToSet(store) : item.id # id})

\* put raises on audio it can never keep.
IsStorable(size) == size > 0 /\ size <= MaxTotalBytes

Put(id, size) ==
    artifacts' = Trimmed(Append(Pruned(artifacts),
                            [id |-> id, size |-> size, age |-> 0, owner |-> NoListener]))

(* Faulty variant: whoever asks gets the audio, and it stays for the next. *)
ConsumeAndKeep(id, listener) ==
    \E k \in 1..Len(Pruned(artifacts)) :
        /\ Pruned(artifacts)[k].id = id
        /\ Pruned(artifacts)[k].owner \in {NoListener, listener}
        /\ artifacts' = Pruned(artifacts)
        /\ fetched' = Append(fetched, [id |-> id, by |-> listener])

\* consume: bound audio goes to its session only, unbound audio to anybody.
Consume(id, listener) ==
    LET store == Pruned(artifacts)
    IN  \E k \in 1..Len(store) :
            /\ store[k].id = id
            /\ store[k].owner \in {NoListener, listener}
            /\ artifacts' = Without(store, id)
            /\ fetched' = Append(fetched, [id |-> id, by |-> listener])

-----------------------------------------------------------------------------
NoSpeech == [at |-> "idle", result |-> Failure, turn |-> NoListener]

ArtifactsInit ==
    /\ artifacts = <<>>
    /\ switches = [muted |-> FALSE, awake |-> TRUE]
    /\ speech = [s \in Speeches |-> NoSpeech]
    /\ fetched = <<>>

\* The mute and power switches, moved by other requests.
Switches(new) ==
    /\ new # switches
    /\ switches' = new
    /\ UNCHANGED <<artifacts, speech, fetched>>

Ends(s, result) == speech' = [speech EXCEPT ![s].at = "made", ![s].result = result]

\* speak_text: the request of a session's turn (chat, preview) or of nobody
\* (/metis/voice/speak).  Piper's process runs outside any lock.
Speaks(s, config, text, turn) ==
    /\ speech[s].at = "idle"
    /\ speech' = [speech EXCEPT ![s] =
          IF IsRefused(config, text)
            THEN [at |-> "made", result |-> Unspoken(config, text), turn |-> turn]
          ELSE IF config.provider # "piper"
            THEN [at |-> "made", result |-> SilentResult(config), turn |-> turn]
          ELSE IF config.allowed /\ config.ready
            THEN [at |-> "synthesizing", result |-> Failure, turn |-> turn]
          ELSE [at |-> "made", result |-> Failure, turn |-> turn]]
    /\ UNCHANGED <<artifacts, switches, fetched>>

\* Piper wrote a file: its audio is put into the store.
Synthesizes(s, size) ==
    /\ speech[s].at = "synthesizing" /\ IsStorable(size)
    /\ Put(s, size)
    /\ Ends(s, [Spoken EXCEPT !.audio = TRUE])
    /\ UNCHANGED <<switches, fetched>>

\* Piper timed out or failed, which speak_text answers.
SynthesisFails(s) ==
    /\ speech[s].at = "synthesizing"
    /\ Ends(s, Failure)
    /\ UNCHANGED <<artifacts, switches, fetched>>

\* The server's own player failed, after the audio was put: nobody learns of it.
PlayerFails(s, size) ==
    /\ speech[s].at = "synthesizing" /\ IsStorable(size)
    /\ Put(s, size)
    /\ Ends(s, Failure)
    /\ UNCHANGED <<switches, fetched>>

\* The file cannot be kept: put's ValueError passes through speak_text.
SynthesisRaises(s) ==
    /\ speech[s].at = "synthesizing"
    /\ speech' = [speech EXCEPT ![s].at = "raised"]
    /\ UNCHANGED <<artifacts, switches, fetched>>

(* Faulty variant: bind's answer is not looked at. *)
BindsBlindly(s) ==
    /\ speech[s].at = "made" /\ speech[s].result.spoken /\ speech[s].result.audio
    /\ speech[s].turn # NoListener
    /\ artifacts' = [k \in 1..Len(Pruned(artifacts)) |->
                    IF Pruned(artifacts)[k].id = s
                    THEN [Pruned(artifacts)[k] EXCEPT !.owner = speech[s].turn] ELSE Pruned(artifacts)[k]]
    /\ speech' = [speech EXCEPT ![s].at = "queued"]
    /\ UNCHANGED <<switches, fetched>>

\* bind, and the enqueue of _speak_chat_response when it succeeded.
Binds(s) ==
    LET store == Pruned(artifacts)
    IN  /\ speech[s].at = "made" /\ speech[s].result.spoken /\ speech[s].result.audio
        /\ speech[s].turn # NoListener
        /\ artifacts' = [k \in 1..Len(store) |->
                        IF store[k].id = s
                        THEN [store[k] EXCEPT !.owner = speech[s].turn] ELSE store[k]]
        /\ speech' = [speech EXCEPT ![s].at = IF s \in Kept(store) THEN "queued" ELSE "answered"]
        /\ UNCHANGED <<switches, fetched>>

\* Nothing to bind, or the turn does not accept it any more.
Answers(s) ==
    /\ speech[s].at = "made"
    /\ speech' = [speech EXCEPT ![s].at = "answered"]
    /\ UNCHANGED <<artifacts, switches, fetched>>

\* voice_audio: a browser that has seen the reference fetches it.
Fetches(s, listener) ==
    /\ speech[s].at \in {"made", "queued", "answered"} /\ speech[s].result.audio
    /\ Consume(s, listener)
    /\ UNCHANGED <<switches, speech>>

\* Expired, consumed, evicted or somebody else's: 404.
FetchFails(s, listener) ==
    LET store == Pruned(artifacts)
    IN  /\ speech[s].result.audio
        /\ \A k \in 1..Len(store) :
               store[k].id = s => store[k].owner \notin {NoListener, listener}
        /\ artifacts' = store
        /\ UNCHANGED <<switches, speech, fetched>>

\* Time passes; an artifact past its lifetime waits for the next call.
Tick ==
    /\ \E k \in 1..Len(artifacts) : artifacts[k].age <= Lifetime
    /\ artifacts' = [k \in 1..Len(artifacts) |->
                    [artifacts[k] EXCEPT !.age = IF @ > Lifetime THEN @ ELSE @ + 1]]
    /\ UNCHANGED <<switches, speech, fetched>>

Speaking(s, configs, sizes) ==
    \/ \E config \in configs, text \in {"text", "blank"}, turn \in Owners :
           Speaks(s, config, text, turn)
    \/ \E size \in sizes : Synthesizes(s, size) \/ PlayerFails(s, size)
    \/ SynthesisFails(s)
    \/ SynthesisRaises(s)
    \/ Binds(s)
    \/ Answers(s)
    \/ \E listener \in Owners : Fetches(s, listener) \/ FetchFails(s, listener)

ArtifactsNext(configs, sizes) ==
    \/ \E new \in [muted: BOOLEAN, awake: BOOLEAN] : Switches(new)
    \/ \E s \in Speeches : Speaking(s, configs, sizes)
    \/ Tick

ArtifactsSpec == ArtifactsInit /\ [][ArtifactsNext(VoiceConfig, Nat)]_artifactVars

-----------------------------------------------------------------------------
\* The store keeps to both of its bounds and evicts from the oldest on.
StoreKeepsItsBounds ==
    /\ Len(artifacts) <= MaxItems /\ Bytes(artifacts) <= MaxTotalBytes
    /\ \A j, k \in 1..Len(artifacts) : j < k => artifacts[j].age >= artifacts[k].age

\* Speech that was queued for a session's browser is heard by nobody else,
\* and no audio is handed out twice, whatever was fetched, evicted or expired
\* between the synthesis and the binding.
QueuedAudioIsItsOwn ==
    /\ \A j, k \in 1..Len(fetched) : fetched[j].id = fetched[k].id => j = k
    /\ \A k \in 1..Len(fetched) :
           speech[fetched[k].id].at = "queued" => fetched[k].by = speech[fetched[k].id].turn

\* The store is bounded, and what it hands out goes where it belongs.
AudioIsKeptInBounds == StoreKeepsItsBounds /\ QueuedAudioIsItsOwn
=============================================================================
