------------------------------- MODULE AudioClips -------------------------------
(***************************************************************************)
(* The audio that the voice of the agent hands around (AudioBuffer of      *)
(* agent/voice/types.py), and what those who make it and those who use it  *)
(* read out of it (pipewire.py, tts_piper.py, stt_whisper.py).             *)
(*                                                                         *)
(* The samples themselves are left out: kept are how many bytes there are  *)
(* and by which rate, channels and format they are read.  `seconds` and    *)
(* `width` are history: how long the sound was, and the bytes of a sample. *)
(***************************************************************************)
EXTENDS Integers

CONSTANT None

(* The size of a sample of sounddevice's dtype, and the one that every     *)
(* reader of an AudioBuffer takes for granted.                             *)
Width(dtype) == IF dtype = "float32" THEN 4 ELSE 2
SampleWidth  == 2

Clips ==
  [seconds : Nat, width : {2, 4}, bytes : Nat, rate : Nat \ {0}, channels : Nat \ {0},
   format : {"pcm_s16le", "wav"}, header : Nat \cup {None}]

(* AudioBuffer; a wav has the rate of its header as well.                  *)
Clip(seconds, width, bytes, rate, channels, format, header) ==
  [seconds |-> seconds, width |-> width, bytes |-> bytes, rate |-> rate, channels |-> channels,
   format |-> format, header |-> header]

(* AudioCapture.record: pcm_s16le, whatever the dtype.                     *)
Recorded(cfg, seconds) ==
  Clip(seconds, Width(cfg.dtype), seconds * cfg.rate * cfg.channels * Width(cfg.dtype),
       cfg.rate, cfg.channels, "pcm_s16le", None)

(* The PCM of Piper is mono, at the rate of its voice.                     *)
Spoken(seconds, voicerate, rate, format, header) ==
  Clip(seconds, SampleWidth, seconds * voicerate * SampleWidth, rate, 1, format, header)

Frames(c) == c.bytes \div (SampleWidth * c.channels)

(* AudioBuffer.duration_seconds, which is of PCM only.                     *)
Duration(c) == IF c.format = "pcm_s16le" THEN Frames(c) \div c.rate ELSE 0

(* The rate by which the samples are read: that of the header of a wav.    *)
RateRead(c) == IF c.format = "wav" THEN c.header ELSE c.rate

(* _audio_to_pcm_array: mono, and resampled to 16 kHz.                     *)
Transcribed(c) ==
  IF RateRead(c) = 16000 THEN Frames(c) ELSE (Frames(c) * 16000) \div RateRead(c)

(* AudioPlayback.play: frames, and how many of them a second.              *)
Played(c) == [frames |-> Frames(c), rate |-> RateRead(c)]
=================================================================================
