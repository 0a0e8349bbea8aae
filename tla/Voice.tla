---------------------------------- MODULE Voice ----------------------------------
(***************************************************************************)
(* The microphone, the wake word and the voice of the agent                *)
(* (agent/voice/pipewire.py, wakeword.py, tts_piper.py), used by several   *)
(* threads of the program while PortAudio calls back from a thread of its  *)
(* own for each stream.                                                    *)
(*                                                                         *)
(* None of the classes has a lock: a step is one statement that reads or   *)
(* assigns an attribute.  What is heard is external: the names of the wake *)
(* words that a chunk scores above the threshold.  PortAudio's stop waits  *)
(* for the callback that is running.                                       *)
(***************************************************************************)
EXTENDS AudioClips, Sequences, FiniteSets

CONSTANTS
  Threads,
  Words,           \* the models of the wakeword detector
  Configs,         \* of the capture, and whether the detector can be loaded
  VoiceRate,       \* the sample rate of Piper's model
  PlaceholderRate, \* 22050, what __init__ puts before it is loaded
  Cooldown,        \* cooldown_seconds
  MaxStreams,      \* bound: streams that are created
  MaxTime          \* bound of the clock

ASSUME VoiceAssumption ==
  /\ Cooldown \in Nat /\ MaxTime \in Nat /\ MaxStreams \in Nat
  /\ Configs \subseteq [rate : Nat \ {0}, channels : Nat \ {0}, dtype : {"int16", "float32"},
                     detector : BOOLEAN]
  /\ VoiceRate \in Nat \ {0} /\ PlaceholderRate \in Nat \ {0}
  /\ None \notin Nat /\ None \notin Words /\ None \notin Clips
  /\ None \notin [time : Nat, words : SUBSET Words]

VARIABLES
  config,  \* CaptureConfig, and whether openwakeword and its models are there
  pc,      \* where each thread is in its call
  stream,  \* AudioCapture._stream: a stream, or None
  streams, \* the streams of PortAudio, and whether they are running
  raced,   \* history: start_stream was called while another thread was in it or
           \* in stop_stream, or stop_stream while another was in it
  failed,  \* history: stop() or close() of a stream raised
  now,     \* time.time()
  hearing, \* the callback of each stream: the time and the words still to look at
  firing,  \* the word that passed the cooldown and is being recorded
  last,    \* WakewordDetector._last_fired
  woke,    \* history: when the last event of a word was made, since reset()
  voice,   \* whether PiperTTSProvider._voice is loaded
  rate,    \* PiperTTSProvider._sample_rate
  clip,    \* the AudioBuffer that each thread has in hand
  hurried  \* history: it was made while another call had loaded the voice and
           \* not yet its rate

capture  == <<stream, streams, raced, failed>>
detector == <<hearing, firing, last, woke>>
speech   == <<voice, rate, clip, hurried>>
vars == <<config, pc, capture, now, detector, speech>>

Places ==
  {"idle", "opening", "starting", "undoing", "stopping", "closing", "dropping",
   "loading", "rating", "speaking", "labelling", "recording", "holding"}

(* What the callback of a stream has in hand. *)
Hearings == [time : Nat, words : SUBSET Words]

States == {"open", "running", "aborted", "stopped", "closed"}

TypeOK ==
  /\ config \in Configs
  /\ pc \in [Threads -> Places]
  /\ streams \in Seq(States)
  /\ stream \in DOMAIN streams \cup {None}
  /\ raced \in BOOLEAN /\ failed \in BOOLEAN
  /\ now \in 0 .. MaxTime
  /\ hearing \in Seq(Hearings \cup {None}) /\ Len(hearing) = Len(streams)
  /\ firing \in Seq(Words \cup {None}) /\ Len(firing) = Len(streams)
  /\ \A s \in DOMAIN streams : hearing[s] = None => firing[s] = None
  /\ last \in [Words -> Nat \cup {None}] /\ woke \in [Words -> Nat \cup {None}]
  /\ voice \in BOOLEAN /\ rate \in {VoiceRate, PlaceholderRate}
  /\ clip \in [Threads -> Clips \cup {None}]
  /\ \A t \in Threads : clip[t] = None <=> pc[t] \notin {"labelling", "holding"}
  /\ hurried \subseteq Threads

Init ==
  /\ config \in Configs
  /\ pc = [t \in Threads |-> "idle"]
  /\ stream = None /\ streams = <<>> /\ raced = FALSE /\ failed = FALSE
  /\ now = 0
  /\ hearing = <<>> /\ firing = <<>>
  /\ last = [w \in Words |-> None] /\ woke = [w \in Words |-> None]
  /\ voice = FALSE /\ rate = PlaceholderRate
  /\ clip = [t \in Threads |-> None] /\ hurried = {}

Goto(t, place) == pc' = [pc EXCEPT ![t] = place]

-------------------------------------------------------------------------------
(* AudioCapture *)

InStart(t) == pc[t] \in {"opening", "starting", "undoing"}
InStop(t)  == pc[t] \in {"stopping", "closing", "dropping"}

EnterStart(t) ==
  /\ Goto(t, "opening")
  /\ raced' = (raced \/ \E u \in Threads \ {t} : InStart(u) \/ InStop(u))

EnterStop(t) ==
  /\ Goto(t, "stopping")
  /\ raced' = (raced \/ \E u \in Threads \ {t} : InStop(u))

(* A fault: a stream is made although one is there. *)
StartStreamAgain(t) ==
  /\ pc[t] = "idle"
  /\ EnterStart(t)
  /\ UNCHANGED <<config, stream, streams, failed, now, detector, speech>>

(* start_stream: the check of self._stream. *)
StartStream(t) ==
  /\ pc[t] = "idle" /\ stream = None
  /\ EnterStart(t)
  /\ UNCHANGED <<config, stream, streams, failed, now, detector, speech>>

(* self._stream = sd.InputStream(...) *)
Open(t) ==
  /\ pc[t] = "opening" /\ Len(streams) < MaxStreams
  /\ streams' = Append(streams, "open") /\ stream' = Len(streams')
  /\ hearing' = Append(hearing, None) /\ firing' = Append(firing, None)
  /\ Goto(t, "starting")
  /\ UNCHANGED <<config, raced, failed, now, last, woke, speech>>

(* self._stream.start(): of whatever stream is there by now.               *)
Begin(t) ==
  /\ pc[t] = "starting" /\ stream # None /\ streams[stream] \in {"open", "stopped"}
  /\ streams' = [streams EXCEPT ![stream] = "running"]
  /\ Goto(t, "idle")
  /\ UNCHANGED <<config, stream, raced, failed, now, detector, speech>>

(* The device is busy, or the stream was dropped or closed by another      *)
(* thread.                                                                 *)
StartFails(t) ==
  /\ pc[t] \in {"opening", "starting"}
  /\ Goto(t, "undoing")
  /\ UNCHANGED <<config, capture, now, detector, speech>>

(* self._stream = None, in the except of start_stream or the finally of    *)
(* stop_stream; nothing is closed.                                         *)
Drop(t) ==
  /\ pc[t] \in {"undoing", "dropping"}
  /\ stream' = None
  /\ Goto(t, "idle")
  /\ UNCHANGED <<config, streams, raced, failed, now, detector, speech>>

(* stop_stream: the check of self._stream. *)
StopStream(t) ==
  /\ pc[t] = "idle" /\ stream # None
  /\ EnterStop(t)
  /\ UNCHANGED <<config, stream, streams, failed, now, detector, speech>>

(* self._stream.stop() returns when its callback does.                     *)
Halt(t) ==
  /\ pc[t] = "stopping" /\ stream # None /\ streams[stream] # "closed"
  /\ hearing[stream] = None
  /\ streams' = [streams EXCEPT ![stream] = "stopped"]
  /\ Goto(t, "closing")
  /\ UNCHANGED <<config, stream, raced, failed, now, detector, speech>>

(* self._stream.close(), which waits for the callback as well, if another  *)
(* thread has started the stream after it was stopped.                     *)
Close(t) ==
  /\ pc[t] = "closing" /\ stream # None
  /\ hearing[stream] = None
  /\ streams' = [streams EXCEPT ![stream] = "closed"]
  /\ Goto(t, "dropping")
  /\ UNCHANGED <<config, stream, raced, failed, now, detector, speech>>

(* stop() or close() raises, or there is no stream any more: the finally   *)
(* is left.                                                                *)
StopFails(t) ==
  /\ pc[t] \in {"stopping", "closing"}
  /\ failed' = (failed \/ stream # None)
  /\ Goto(t, "dropping")
  /\ UNCHANGED <<config, stream, streams, raced, now, detector, speech>>

-------------------------------------------------------------------------------
(* The callback of a stream: a chunk, which is fed to the detector. *)

(* _load: the package and the models are there. *)
Loads == config.detector

(* _audio_to_int16 refuses what is not 16 kHz mono.                        *)
Suits == config.rate = 16000 /\ config.channels = 1

(* An exception in a callback aborts its stream, and AudioCapture is not   *)
(* told.                                                                   *)
ChunkRefused(s) ==
  /\ s \in DOMAIN streams /\ streams[s] = "running" /\ hearing[s] = None
  /\ ~(Loads /\ Suits)
  /\ streams' = [streams EXCEPT ![s] = "aborted"]
  /\ UNCHANGED <<config, pc, stream, raced, failed, now, detector, speech>>

(* feed: predict, and the words over the threshold.                        *)
Chunk(s, words) ==
  /\ s \in DOMAIN streams /\ streams[s] = "running" /\ hearing[s] = None
  /\ Loads /\ Suits
  /\ words # {}
  /\ hearing' = [hearing EXCEPT ![s] = [time |-> now, words |-> words]]
  /\ UNCHANGED <<config, pc, capture, now, firing, last, woke, speech>>

Hearing(s) == s \in DOMAIN streams /\ hearing[s] # None /\ firing[s] = None

(* A fault: the distance to the last event is not signed.                  *)
CoolAbsolute(w, time) ==
  \/ last[w] = None
  \/ time - last[w] >= Cooldown \/ last[w] - time >= Cooldown

(* now - last >= cooldown *)
Cool(w, time) == last[w] = None \/ time - last[w] >= Cooldown

Consider(s, w) ==
  /\ Hearing(s) /\ w \in hearing[s].words
  /\ firing' = [firing EXCEPT ![s] = IF Cool(w, hearing[s].time) THEN w ELSE None]
  /\ hearing' = [hearing EXCEPT ![s].words = @ \ {w}]
  /\ UNCHANGED <<config, pc, capture, now, last, woke, speech>>

(* self._last_fired[name] = now, and the event. *)
Fire(s) ==
  /\ s \in DOMAIN streams /\ firing[s] # None
  /\ last' = [last EXCEPT ![firing[s]] = hearing[s].time]
  /\ woke' = [woke EXCEPT ![firing[s]] = hearing[s].time]
  /\ firing' = [firing EXCEPT ![s] = None]
  /\ UNCHANGED <<config, pc, capture, now, hearing, speech>>

Return(s) ==
  /\ Hearing(s) /\ hearing[s].words = {}
  /\ hearing' = [hearing EXCEPT ![s] = None]
  /\ UNCHANGED <<config, pc, capture, now, firing, last, woke, speech>>

(* reset(), by a thread of the program. *)
Reset ==
  /\ last' = [w \in Words |-> None] /\ woke' = [w \in Words |-> None]
  /\ UNCHANGED <<config, pc, capture, now, hearing, firing, speech>>

(* The clock goes on, or is set back. *)
Clock ==
  /\ now' \in (0 .. MaxTime) \ {now}
  /\ now' < now => now' = 0
  /\ now' > now => now' = now + 1
  /\ UNCHANGED <<config, pc, capture, detector, speech>>

-------------------------------------------------------------------------------
(* PiperTTSProvider *)

(* synthesize: _load looks at self._voice. *)
Synthesize(t) ==
  /\ pc[t] = "idle"
  /\ Goto(t, IF voice THEN "speaking" ELSE "loading")
  /\ UNCHANGED <<config, capture, now, detector, speech>>

(* self._voice = PiperVoice.load(...) *)
Load(t) ==
  /\ pc[t] = "loading"
  /\ voice' = TRUE
  /\ Goto(t, "rating")
  /\ UNCHANGED <<config, capture, now, detector, rate, clip, hurried>>

LoadFails(t) ==
  /\ pc[t] = "loading"
  /\ Goto(t, "idle")
  /\ UNCHANGED <<config, capture, now, detector, speech>>

(* A fault: the rate of the model is not taken. *)
RatePlaceholder(t) ==
  /\ pc[t] = "rating"
  /\ Goto(t, "speaking")
  /\ UNCHANGED <<config, capture, now, detector, speech>>

(* self._sample_rate = ... *)
Rate(t) ==
  /\ pc[t] = "rating"
  /\ rate' = VoiceRate
  /\ Goto(t, "speaking")
  /\ UNCHANGED <<config, capture, now, detector, voice, clip, hurried>>

Hurry(t) ==
  hurried' = IF \E u \in Threads \ {t} : pc[u] = "rating" THEN hurried \cup {t} ELSE hurried

Hold(t, c, place) ==
  /\ clip' = [clip EXCEPT ![t] = c]
  /\ Goto(t, place)
  /\ UNCHANGED <<config, capture, now, detector, voice, rate>>

(* pcm_s16le: labelled with self._sample_rate. *)
Speak(t) ==
  /\ pc[t] = "speaking"
  /\ Hurry(t)
  /\ Hold(t, Spoken(1, VoiceRate, rate, "pcm_s16le", None), "holding")

(* wav: self._sample_rate goes into the header, and is read again for the  *)
(* label.                                                                  *)
Wrap(t) ==
  /\ pc[t] = "speaking"
  /\ Hurry(t)
  /\ Hold(t, Spoken(1, VoiceRate, rate, "wav", rate), "labelling")

Label(t) ==
  /\ pc[t] = "labelling"
  /\ Hurry(t)
  /\ Hold(t, [clip[t] EXCEPT !.rate = rate], "holding")

(* Another format is refused. *)
SpeakRefused(t) ==
  /\ pc[t] = "speaking"
  /\ Goto(t, "idle")
  /\ UNCHANGED <<config, capture, now, detector, speech>>

-------------------------------------------------------------------------------
(* What is done with sound *)

(* AudioCapture.record: the microphone is open until the recording is      *)
(* over or fails, and is_streaming says nothing of it.                     *)
Record(t) ==
  /\ pc[t] = "idle"
  /\ Goto(t, "recording")
  /\ UNCHANGED <<config, capture, now, detector, speech>>

RecordEnds(t) ==
  /\ pc[t] = "recording"
  /\ Hold(t, Recorded(config, 1), "holding")
  /\ UNCHANGED hurried

RecordFails(t) ==
  /\ pc[t] = "recording"
  /\ Goto(t, "idle")
  /\ UNCHANGED <<config, capture, now, detector, speech>>

(* transcribe() or play(): Transcribed or Played of the clip, which changes *)
(* nothing here, or an error.                                              *)
Use(t) ==
  /\ pc[t] = "holding"
  /\ Goto(t, "idle")
  /\ clip' = [clip EXCEPT ![t] = None]
  /\ hurried' = hurried \ {t}
  /\ UNCHANGED <<config, capture, now, detector, voice, rate>>

Call(t) ==
  \/ Open(t) \/ Begin(t) \/ StartFails(t)
  \/ Halt(t) \/ Close(t) \/ StopFails(t) \/ Drop(t)
  \/ RecordEnds(t) \/ RecordFails(t)
  \/ Load(t) \/ LoadFails(t) \/ Rate(t)
  \/ Speak(t) \/ Wrap(t) \/ Label(t) \/ SpeakRefused(t) \/ Use(t)

Callback(s) == (\E w \in Words : Consider(s, w)) \/ Fire(s) \/ Return(s)

Next ==
  \/ \E t \in Threads : StartStream(t) \/ StopStream(t) \/ Synthesize(t) \/ Record(t) \/ Call(t)
  \/ \E s \in DOMAIN streams :
       ChunkRefused(s) \/ (\E words \in SUBSET Words : Chunk(s, words)) \/ Callback(s)
  \/ Reset
  \/ Clock

Spec == Init /\ [][Next]_vars

-------------------------------------------------------------------------------
(* Properties *)

Running == {s \in DOMAIN streams : streams[s] = "running"}

(* pipewire.py:192 and 229: is_streaming tells of each stream that listens *)
(* and stop_stream reaches it, though neither takes a lock: also when      *)
(* stop_stream is called while another thread is still starting, whose     *)
(* start() comes before the stop(), between stop() and close(), or after,  *)
(* and also when that start() fails.  Not so when start_stream is called   *)
(* while another thread is in it or in stop_stream, or stop_stream by two, *)
(* nor after a stop() or a close() that raised.                            *)
StreamsAreShown == raced \/ failed \/ Running \subseteq {stream}

(* wakeword.py:67-69: the events of one word are at least a cooldown       *)
(* apart, whatever the clock does and whenever reset() comes, as long as   *)
(* one stream at a time feeds the detector.                                *)
WakesAreSpaced ==
  [][\A w \in Words :
       woke[w] # None /\ woke'[w] \notin {None, woke[w]} /\ ~raced /\ ~failed
         => woke'[w] - woke[w] >= Cooldown]_vars

(* How many times as long as it is a sound of these samples is read, since *)
(* everyone takes them to be of two bytes.                                 *)
Stretch(c) == c.width \div SampleWidth

(* A second of sound of two bytes a sample stays a second, recorded or     *)
(* synthesized, for Whisper and for the loudspeaker in either format and   *)
(* for duration_seconds, which is 0 of a wav; one of float32, which        *)
(* pipewire.py:181 calls pcm_s16le all the same, is two seconds for all of *)
(* them.  Not so when another call had loaded the voice and not its rate   *)
(* (tts_piper.py:124).                                                     *)
SoundKeepsItsLength ==
  \A t \in Threads :
    pc[t] = "holding" /\ t \notin hurried =>
      LET c      == clip[t]
          length == c.seconds * Stretch(c)
      IN  /\ Transcribed(c) = 16000 * length
          /\ Played(c).frames = Played(c).rate * length
          /\ Duration(c) = IF c.format = "pcm_s16le" THEN length ELSE 0

(* What a comment says and the code does not do. *)

(* pipewire.py:15-18: whoever shows the user that the microphone is open   *)
(* has is_streaming to ask.                                                *)
MicrophoneIsShown ==
  Running # {} \/ (\E t \in Threads : pc[t] = "recording") => stream # None
=================================================================================
