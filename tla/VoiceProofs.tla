------------------------------- MODULE VoiceProofs -------------------------------
(***************************************************************************)
(* Theorems about Voice, for every set of threads and words, every capture *)
(* and every number of streams.                                            *)
(***************************************************************************)
EXTENDS Voice, SequenceTheorems, TLAPS

(* What is recorded or synthesized is an AudioBuffer.                      *)
LEMMA ClipType ==
  ASSUME NEW r \in Nat \ {0}, NEW ch \in Nat \ {0}, NEW w \in {2, 4},
         NEW label \in Nat \ {0}, NEW f \in {"pcm_s16le", "wav"}, NEW h \in Nat \cup {None}
  PROVE  Clip(1, w, 1 * r * ch * w, label, ch, f, h) \in Clips
<1>1. 1 * r * ch * w \in Nat
  <2>1. r * ch \in Nat
    OBVIOUS
  <2> QED BY <2>1
<1> QED BY <1>1 DEF Clip, Clips

(* Every thread, stream, word and clip keeps its type.                     *)
THEOREM TypeCorrect == Spec => []TypeOK
<1> USE VoiceAssumption
<1>1. Init => TypeOK
  <2> SUFFICES ASSUME Init PROVE TypeOK
    OBVIOUS
  <2>1. /\ streams \in Seq(States) /\ DOMAIN streams = {}
        /\ hearing \in Seq(Hearings \cup {None}) /\ Len(hearing) = Len(streams)
        /\ firing \in Seq(Words \cup {None}) /\ Len(firing) = Len(streams)
    BY DEF Init
  <2>2. /\ pc \in [Threads -> Places]
        /\ \A t \in Threads : clip[t] = None <=> pc[t] \notin {"labelling", "holding"}
    BY DEF Init, Places
  <2>3. /\ clip \in [Threads -> Clips \cup {None}]
        /\ last \in [Words -> Nat \cup {None}] /\ woke \in [Words -> Nat \cup {None}]
        /\ voice \in BOOLEAN /\ rate \in {VoiceRate, PlaceholderRate} /\ hurried \subseteq Threads
    BY DEF Init
  <2>4. /\ config \in Configs /\ stream \in DOMAIN streams \cup {None}
        /\ raced \in BOOLEAN /\ failed \in BOOLEAN /\ now \in 0 .. MaxTime
    <3>1. 0 \in 0 .. MaxTime
      OBVIOUS
    <3> QED BY <3>1 DEF Init
  <2>5. \A s \in DOMAIN streams : hearing[s] = None => firing[s] = None
    BY <2>1
  <2> QED BY <2>1, <2>2, <2>3, <2>4, <2>5 DEF TypeOK
<1>2. TypeOK /\ [Next]_vars => TypeOK'
  <2> SUFFICES ASSUME TypeOK, [Next]_vars PROVE TypeOK'
    OBVIOUS
  <2>1. ASSUME NEW t \in Threads, StartStream(t) \/ StopStream(t) PROVE TypeOK'
    BY <2>1 DEF StartStream, StopStream, EnterStart, EnterStop, Goto, TypeOK, Places, detector, speech
  <2>2. ASSUME NEW t \in Threads, Open(t) PROVE TypeOK'
    <3>1. /\ streams' = Append(streams, "open") /\ stream' = Len(streams')
          /\ hearing' = Append(hearing, None) /\ firing' = Append(firing, None)
          /\ pc' = [pc EXCEPT ![t] = "starting"] /\ pc[t] = "opening"
          /\ UNCHANGED <<config, raced, failed, now, last, woke, voice, rate, clip, hurried>>
      BY <2>2 DEF Open, Goto, speech
    <3>2. /\ streams' \in Seq(States) /\ Len(streams') = Len(streams) + 1
          /\ stream' \in DOMAIN streams'
      BY <3>1 DEF TypeOK, States
    <3>3. /\ hearing' \in Seq(Hearings \cup {None}) /\ Len(hearing') = Len(streams')
          /\ firing' \in Seq(Words \cup {None}) /\ Len(firing') = Len(streams')
      BY <3>1, <3>2 DEF TypeOK
    <3>4. \A s \in DOMAIN streams' : hearing'[s] = None => firing'[s] = None
      BY <3>1, <3>2 DEF TypeOK
    <3>5. pc' \in [Threads -> Places] /\ \A u \in Threads : clip'[u] = None <=> pc'[u] \notin {"labelling", "holding"}
      BY <3>1 DEF TypeOK, Places
    <3> QED BY <3>1, <3>2, <3>3, <3>4, <3>5 DEF TypeOK
  <2>3. ASSUME NEW t \in Threads, Begin(t) \/ Halt(t) \/ Close(t) PROVE TypeOK'
    <3>1. /\ stream # None /\ UNCHANGED <<config, now, detector, speech>>
          /\ raced' \in BOOLEAN /\ failed' \in BOOLEAN
      BY <2>3 DEF Begin, Halt, Close, TypeOK
    <3>2. PICK state \in States : streams' = [streams EXCEPT ![stream] = state]
      BY <2>3 DEF Begin, Halt, Close, States
    <3>3. /\ streams' \in Seq(States) /\ DOMAIN streams' = DOMAIN streams
          /\ Len(streams') = Len(streams)
      BY <3>1, <3>2 DEF TypeOK
    <3>4. stream' \in DOMAIN streams' \cup {None}
      BY <2>3, <3>3 DEF Begin, Halt, Close, TypeOK
    <3>5. /\ pc' \in [Threads -> Places]
          /\ \A u \in Threads : clip'[u] = None <=> pc'[u] \notin {"labelling", "holding"}
      BY <2>3, <3>1 DEF Begin, Halt, Close, Goto, TypeOK, Places, speech
    <3> QED BY <3>1, <3>3, <3>4, <3>5 DEF TypeOK, detector, speech
  <2>4. ASSUME NEW t \in Threads, StartFails(t) \/ StopFails(t) \/ Drop(t) PROVE TypeOK'
    BY <2>4 DEF StartFails, StopFails, Drop, Goto, TypeOK, Places, capture, detector, speech
  <2>5. ASSUME NEW t \in Threads,
               Synthesize(t) \/ Load(t) \/ LoadFails(t) \/ Rate(t) \/ SpeakRefused(t)
                 \/ Record(t) \/ RecordFails(t)
        PROVE  TypeOK'
    BY <2>5 DEF Synthesize, Load, LoadFails, Rate, SpeakRefused, Record, RecordFails, Goto,
       TypeOK, Places, capture, detector, speech
  <2>6. ASSUME NEW t \in Threads, NEW c \in Clips, NEW place \in {"labelling", "holding"},
               Hold(t, c, place), hurried' \subseteq Threads
        PROVE  TypeOK'
    BY <2>6 DEF Hold, Goto, TypeOK, Places, capture, detector
  <2>7. ASSUME NEW t \in Threads, Hurry(t) PROVE hurried' \subseteq Threads
    BY <2>7 DEF Hurry, TypeOK
  <2>8. ASSUME NEW t \in Threads, Speak(t) \/ Wrap(t) PROVE TypeOK'
    <3>1. rate \in Nat \ {0}
      BY DEF TypeOK
    <3>2. /\ Spoken(1, VoiceRate, rate, "pcm_s16le", None) \in Clips
          /\ Spoken(1, VoiceRate, rate, "wav", rate) \in Clips
      <4>1. 1 * VoiceRate * 2 \in Nat
        OBVIOUS
      <4> QED BY <3>1, <4>1 DEF Spoken, SampleWidth, Clip, Clips
    <3> QED BY <2>6, <2>7, <2>8, <3>2 DEF Speak, Wrap
  <2>9. ASSUME NEW t \in Threads, Label(t) PROVE TypeOK'
    <3>1. clip[t] \in Clips
      BY <2>9 DEF Label, TypeOK
    <3>2. [clip[t] EXCEPT !.rate = rate] \in Clips
      BY <3>1 DEF TypeOK, Clips
    <3> QED BY <2>6, <2>7, <2>9, <3>2 DEF Label
  <2>10. ASSUME NEW t \in Threads, RecordEnds(t) PROVE TypeOK'
    <3>1. config.rate \in Nat \ {0} /\ config.channels \in Nat \ {0} /\ Width(config.dtype) \in {2, 4}
      BY DEF TypeOK, Width
    <3>2. Recorded(config, 1) \in Clips
      BY <3>1, ClipType DEF Recorded
    <3>3. hurried' \subseteq Threads
      BY <2>10 DEF RecordEnds, TypeOK
    <3> QED BY <2>6, <2>10, <3>2, <3>3 DEF RecordEnds
  <2>11. ASSUME NEW t \in Threads, Use(t) PROVE TypeOK'
    BY <2>11 DEF Use, Goto, TypeOK, Places, capture, detector
  <2>12. ASSUME NEW s \in DOMAIN streams, ChunkRefused(s) PROVE TypeOK'
    BY <2>12 DEF ChunkRefused, TypeOK, States, detector, speech
  <2>13. ASSUME NEW s \in DOMAIN streams, NEW words \in SUBSET Words, Chunk(s, words) PROVE TypeOK'
    <3>1. [time |-> now, words |-> words] \in Hearings
      BY DEF TypeOK, Hearings
    <3> QED BY <2>13, <3>1 DEF Chunk, TypeOK, Hearings, capture, speech
  <2>14. ASSUME NEW s \in DOMAIN streams, NEW w \in Words, Consider(s, w) PROVE TypeOK'
    <3>1. hearing[s] \in Hearings
      BY <2>14 DEF Consider, Hearing, TypeOK
    <3>2. [hearing[s] EXCEPT !.words = @ \ {w}] \in Hearings
      BY <3>1 DEF Hearings
    <3>3. /\ \E h \in Hearings : hearing' = [hearing EXCEPT ![s] = h]
          /\ \E f \in Words \cup {None} : firing' = [firing EXCEPT ![s] = f]
          /\ UNCHANGED <<config, pc, stream, streams, raced, failed, now, last, woke,
                         voice, rate, clip, hurried>>
      BY <2>14, <3>2 DEF Consider, capture, speech
    <3>4. None \notin Hearings
      BY DEF Hearings
    <3> QED BY <3>3, <3>4 DEF TypeOK
  <2>15. ASSUME NEW s \in DOMAIN streams, Fire(s) PROVE TypeOK'
    <3>1. hearing[s] \in Hearings /\ firing[s] \in Words
      BY <2>15 DEF Fire, TypeOK
    <3>2. hearing[s].time \in Nat
      BY <3>1 DEF Hearings
    <3> QED BY <2>15, <3>1, <3>2 DEF Fire, TypeOK, capture, speech
  <2>16. ASSUME NEW s \in DOMAIN streams, Return(s) PROVE TypeOK'
    BY <2>16 DEF Return, Hearing, TypeOK, capture, speech
  <2>17. CASE Reset
    BY <2>17 DEF Reset, TypeOK, capture, speech
  <2>18. CASE Clock
    BY <2>18 DEF Clock, TypeOK, capture, detector, speech
  <2>19. CASE UNCHANGED vars
    BY <2>19 DEF vars, capture, detector, speech, TypeOK
  <2> QED
    BY <2>1, <2>2, <2>3, <2>4, <2>5, <2>8, <2>9, <2>10, <2>11, <2>12, <2>13, <2>14, <2>15,
       <2>16, <2>17, <2>18, <2>19 DEF Next, Call, Callback
<1> QED BY <1>1, <1>2, PTL DEF Spec

-------------------------------------------------------------------------------
(* The microphone *)

(* As long as no start_stream met another start or stop, no two stops met, *)
(* and no stop raised: who starts or stops the capture is the only one to  *)
(* do it, what they will drop does not run, and no stream but self._stream *)
(* does.                                                                   *)
Calm == ~raced /\ ~failed

OneStarts == \A t, u \in Threads : InStart(t) /\ InStart(u) => t = u
OneStops  == \A t, u \in Threads : InStop(t) /\ InStop(u) => t = u

OpensAlone == \A t \in Threads : pc[t] = "opening" => stream = None /\ \A u \in Threads : ~InStop(u)

Idles(s) == s = None \/ streams[s] # "running"
Gone(s)  == s = None \/ streams[s] = "closed"

StartsIdle == \A t \in Threads : pc[t] \in {"starting", "undoing"} => Idles(stream)
DropsGone  == \A t \in Threads : pc[t] = "dropping" => Gone(stream)

Alone == OneStarts /\ OneStops /\ OpensAlone /\ StartsIdle /\ DropsGone /\ Running \subseteq {stream}

IInv == Calm => Alone

LEMMA AloneAlways == Spec => []IInv
<1> USE VoiceAssumption
<1>1. Init => IInv
  BY DEF Init, IInv, Alone, OneStarts, OneStops, OpensAlone, StartsIdle, DropsGone, Idles, Gone,
     InStart, InStop, Running
<1>2. TypeOK /\ IInv /\ [Next]_vars => IInv'
  <2> SUFFICES ASSUME TypeOK, IInv, [Next]_vars, Calm' PROVE Alone'
    BY DEF IInv
  <2>0. pc \in [Threads -> Places]
    BY DEF TypeOK
  <2>1. ASSUME NEW t \in Threads, StartStream(t) PROVE Alone'
    <3>1. /\ pc' = [pc EXCEPT ![t] = "opening"] /\ stream = None
          /\ UNCHANGED <<stream, streams, failed>>
          /\ raced' = (raced \/ \E u \in Threads \ {t} : InStart(u) \/ InStop(u))
      BY <2>1 DEF StartStream, EnterStart, Goto
    <3>2. Alone /\ \A u \in Threads \ {t} : ~InStart(u) /\ ~InStop(u)
      BY <3>1 DEF IInv, Calm
    <3>3. /\ ~InStop(t)' /\ pc'[t] = "opening"
          /\ \A u \in Threads \ {t} : ~InStart(u)' /\ ~InStop(u)' /\ pc'[u] = pc[u]
      BY <2>0, <3>1, <3>2 DEF InStart, InStop
    <3>4. OneStarts' /\ OneStops'
      BY <3>3 DEF OneStarts, OneStops
    <3>5. OpensAlone'
      BY <3>1, <3>3 DEF OpensAlone
    <3>6. StartsIdle' /\ DropsGone' /\ Running' \subseteq {stream'}
      BY <3>1, <3>2 DEF Alone, StartsIdle, DropsGone, Idles, Gone, Running
    <3> QED BY <3>4, <3>5, <3>6 DEF Alone
  <2>2. ASSUME NEW t \in Threads, StopStream(t) PROVE Alone'
    <3>1. /\ pc' = [pc EXCEPT ![t] = "stopping"] /\ stream # None
          /\ UNCHANGED <<stream, streams, failed>>
          /\ raced' = (raced \/ \E u \in Threads \ {t} : InStop(u))
      BY <2>2 DEF StopStream, EnterStop, Goto
    <3>2. Alone /\ \A u \in Threads \ {t} : ~InStop(u)
      BY <3>1 DEF IInv, Calm
    <3>3. /\ ~InStart(t)' /\ pc'[t] = "stopping"
          /\ \A u \in Threads \ {t} : ~InStop(u)' /\ pc'[u] = pc[u] /\ (InStart(u)' <=> InStart(u))
      BY <2>0, <3>1, <3>2 DEF InStart, InStop
    <3>4. OneStarts' /\ OneStops'
      BY <3>2, <3>3 DEF Alone, OneStarts, OneStops
    <3>5. OpensAlone'
      BY <3>1, <3>2, <3>3 DEF Alone, OpensAlone
    <3>6. StartsIdle'
      BY <3>1, <3>2, <3>3 DEF Alone, StartsIdle, Idles
    <3>7. DropsGone'
      BY <3>1, <3>2, <3>3 DEF Alone, DropsGone, Gone
    <3> QED BY <3>1, <3>2, <3>4, <3>5, <3>6, <3>7 DEF Alone, Running
  <2>3. ASSUME NEW t \in Threads, NEW place \in Places,
               pc' = [pc EXCEPT ![t] = place], UNCHANGED <<raced, failed>>,
               place \in {"starting", "undoing"} => InStart(t),
               place \in {"closing", "dropping"} => InStop(t),
               place \notin {"opening", "stopping"}
        PROVE  Alone /\ OneStarts' /\ OneStops'
    <3>1. Alone
      BY <2>3 DEF IInv, Calm
    <3>2. \A u \in Threads : InStart(u)' => InStart(u)
      BY <2>0, <2>3 DEF InStart
    <3>3. \A u \in Threads : InStop(u)' => InStop(u)
      BY <2>0, <2>3 DEF InStop
    <3> QED BY <3>1, <3>2, <3>3 DEF Alone, OneStarts, OneStops
  <2>4. ASSUME NEW t \in Threads, Open(t) PROVE Alone'
    <3>1. /\ streams' = Append(streams, "open") /\ stream' = Len(streams')
          /\ pc' = [pc EXCEPT ![t] = "starting"] /\ InStart(t) /\ pc[t] = "opening"
          /\ UNCHANGED <<raced, failed>>
      BY <2>4 DEF Open, Goto, InStart
    <3>2. Alone /\ OneStarts' /\ OneStops'
      BY <2>3, <3>1 DEF Places
    <3>3. stream = None /\ Running = {} /\ \A u \in Threads : ~InStop(u)
      BY <3>1, <3>2 DEF Alone, OpensAlone, Running, TypeOK
    <3>4. /\ DOMAIN streams' = 1 .. Len(streams) + 1 /\ streams'[stream'] = "open"
          /\ \A s \in DOMAIN streams : streams'[s] = streams[s]
          /\ stream' = Len(streams) + 1
      <4>1. streams \in Seq(States) /\ "open" \in States
        BY DEF TypeOK, States
      <4>2. /\ Len(streams') = Len(streams) + 1 /\ Len(streams) \in Nat
            /\ DOMAIN streams' = 1 .. Len(streams) + 1 /\ DOMAIN streams = 1 .. Len(streams)
        BY <3>1, <4>1
      <4>3. streams'[Len(streams) + 1] = "open"
        BY <3>1, <4>1
      <4>4. \A s \in 1 .. Len(streams) : streams'[s] = streams[s]
        BY <3>1, <4>1
      <4> QED BY <3>1, <4>2, <4>3, <4>4
    <3>5. Running' = {}
      <4>1. \A s \in DOMAIN streams : streams[s] # "running"
        BY <3>3 DEF Running
      <4>2. Len(streams) \in Nat /\ DOMAIN streams = 1 .. Len(streams)
        BY DEF TypeOK
      <4>3. \A s \in DOMAIN streams' : s \in DOMAIN streams \/ s = stream'
        BY <3>4, <4>2
      <4>4. \A s \in DOMAIN streams' : streams'[s] # "running"
        BY <3>4, <4>1, <4>3
      <4> QED BY <4>4 DEF Running
    <3>6. OpensAlone'
      <4>1. \A u \in Threads : pc'[u] # "opening"
        BY <2>0, <3>1, <3>2 DEF Alone, OneStarts, InStart
      <4> QED BY <4>1 DEF OpensAlone
    <3>7. StartsIdle'
      BY <3>4 DEF StartsIdle, Idles
    <3>8. DropsGone'
      <4>1. \A u \in Threads : pc'[u] # "dropping"
        BY <2>0, <3>1, <3>3 DEF InStop
      <4> QED BY <4>1 DEF DropsGone
    <3> QED BY <3>2, <3>5, <3>6, <3>7, <3>8 DEF Alone
  <2>5. ASSUME NEW t \in Threads, NEW place \in Places, NEW state \in States,
               pc' = [pc EXCEPT ![t] = place], place # "opening",
               stream # None, stream' = stream, streams' = [streams EXCEPT ![stream] = state],
               Alone, OneStarts', OneStops',
               \A u \in Threads \ {t} : pc[u] \in {"starting", "undoing"} => state # "running",
               place \notin {"starting", "undoing"},
               \A u \in Threads \ {t} : pc[u] = "dropping" => state = "closed",
               place = "dropping" => state = "closed"
        PROVE  Alone'
    <3>1. stream \in DOMAIN streams
      BY <2>5 DEF TypeOK
    <3>2. /\ streams'[stream] = state /\ DOMAIN streams' = DOMAIN streams
          /\ \A s \in DOMAIN streams : s # stream => streams'[s] = streams[s]
      BY <2>5, <3>1 DEF TypeOK
    <3>3. pc'[t] = place /\ \A u \in Threads \ {t} : pc'[u] = pc[u]
      BY <2>0, <2>5
    <3>4. OpensAlone'
      <4>1. \A u \in Threads : pc'[u] # "opening"
        BY <2>5, <3>3 DEF Alone, OpensAlone
      <4> QED BY <4>1 DEF OpensAlone
    <3>5. StartsIdle'
      BY <2>5, <3>2, <3>3 DEF StartsIdle, Idles
    <3>6. DropsGone'
      BY <2>5, <3>2, <3>3 DEF DropsGone, Gone
    <3>7. Running' \subseteq {stream'}
      BY <2>5, <3>2 DEF Alone, Running
    <3> QED BY <2>5, <3>4, <3>5, <3>6, <3>7 DEF Alone
  <2>6. ASSUME NEW t \in Threads, Begin(t) PROVE Alone'
    <3>1. /\ stream # None /\ streams[stream] \in {"open", "stopped"} /\ InStart(t)
          /\ streams' = [streams EXCEPT ![stream] = "running"] /\ stream' = stream
          /\ pc' = [pc EXCEPT ![t] = "idle"] /\ UNCHANGED <<raced, failed>>
      BY <2>6 DEF Begin, Goto, InStart
    <3>2. Alone /\ OneStarts' /\ OneStops'
      BY <2>3, <3>1 DEF Places
    <3>3. \A u \in Threads \ {t} : pc[u] \notin {"starting", "undoing", "dropping"}
      BY <3>1, <3>2 DEF Alone, OneStarts, InStart, DropsGone, Gone
    <3> QED BY <2>5, <3>1, <3>2, <3>3 DEF Places, States
  <2>7. ASSUME NEW t \in Threads, Halt(t) \/ Close(t) PROVE Alone'
    <3>1. PICK place \in {"closing", "dropping"}, state \in {"stopped", "closed"} :
            /\ stream # None /\ stream' = stream /\ InStop(t)
            /\ streams' = [streams EXCEPT ![stream] = state]
            /\ place = "dropping" => state = "closed"
            /\ pc' = [pc EXCEPT ![t] = place] /\ UNCHANGED <<raced, failed>>
      BY <2>7 DEF Halt, Close, Goto, InStop
    <3>2. Alone /\ OneStarts' /\ OneStops'
      BY <2>3, <3>1 DEF Places
    <3>3. \A u \in Threads \ {t} : pc[u] # "dropping"
      BY <3>1, <3>2 DEF Alone, OneStops, InStop
    <3> QED BY <2>5, <3>1, <3>2, <3>3 DEF Places, States
  <2>8. ASSUME NEW t \in Threads, NEW place \in Places,
               pc' = [pc EXCEPT ![t] = place], place # "opening",
               UNCHANGED capture, Alone, OneStarts', OneStops',
               place \in {"starting", "undoing"} => Idles(stream),
               place = "dropping" => Gone(stream),
               place \in {"stopping", "closing", "dropping"} => InStop(t)
        PROVE  Alone'
    <3>1. pc'[t] = place /\ \A u \in Threads \ {t} : pc'[u] = pc[u]
      BY <2>0, <2>8
    <3>2. stream' = stream /\ streams' = streams
      BY <2>8 DEF capture
    <3>3. \A u \in Threads : InStop(u)' => InStop(u)
      BY <2>8, <3>1 DEF InStop
    <3>4. OpensAlone'
      BY <2>8, <3>1, <3>2, <3>3 DEF Alone, OpensAlone
    <3>5. StartsIdle'
      BY <2>8, <3>1, <3>2 DEF Alone, StartsIdle, Idles
    <3>6. DropsGone'
      BY <2>8, <3>1, <3>2 DEF Alone, DropsGone, Gone
    <3> QED BY <2>8, <3>2, <3>4, <3>5, <3>6 DEF Alone, Running
  <2>9. ASSUME NEW t \in Threads, StartFails(t) PROVE Alone'
    <3>1. /\ pc' = [pc EXCEPT ![t] = "undoing"] /\ InStart(t) /\ UNCHANGED capture
          /\ pc[t] \in {"opening", "starting"}
      BY <2>9 DEF StartFails, Goto, InStart
    <3>2. Alone /\ OneStarts' /\ OneStops'
      BY <2>3, <3>1 DEF Places, capture
    <3>3. Idles(stream)
      BY <3>1, <3>2 DEF Alone, OpensAlone, StartsIdle, Idles
    <3> QED BY <2>8, <3>1, <3>2, <3>3 DEF Places
  <2>10. ASSUME NEW t \in Threads, StopFails(t) PROVE Alone'
    <3>1. /\ pc' = [pc EXCEPT ![t] = "dropping"] /\ InStop(t) /\ stream = None
          /\ UNCHANGED capture
      BY <2>10 DEF StopFails, Goto, InStop, Calm, capture, TypeOK
    <3>2. Alone /\ OneStarts' /\ OneStops'
      BY <2>3, <3>1 DEF Places, capture
    <3>3. Gone(stream)
      BY <3>1 DEF Gone
    <3> QED BY <2>8, <3>1, <3>2, <3>3 DEF Places
  <2>11. ASSUME NEW t \in Threads, Drop(t) PROVE Alone'
    <3>1. /\ pc' = [pc EXCEPT ![t] = "idle"] /\ pc[t] \in {"undoing", "dropping"}
          /\ stream' = None /\ UNCHANGED <<streams, raced, failed>>
      BY <2>11 DEF Drop, Goto
    <3>2. Alone /\ OneStarts' /\ OneStops'
      BY <2>3, <3>1 DEF Places
    <3>3. Idles(stream)
      BY <3>1, <3>2 DEF Alone, StartsIdle, DropsGone, Idles, Gone
    <3>4. Running' \subseteq {stream'}
      BY <3>1, <3>2, <3>3 DEF Alone, Idles, Running, TypeOK
    <3>5. pc'[t] = "idle" /\ \A u \in Threads \ {t} : pc'[u] = pc[u]
      BY <2>0, <3>1
    <3>6. \A u \in Threads : InStop(u)' => InStop(u)
      BY <3>5 DEF InStop
    <3>7. OpensAlone'
      BY <3>1, <3>2, <3>5, <3>6 DEF Alone, OpensAlone
    <3>8. StartsIdle' /\ DropsGone'
      BY <3>1 DEF StartsIdle, DropsGone, Idles, Gone
    <3> QED BY <3>2, <3>4, <3>7, <3>8 DEF Alone
  <2>12. ASSUME NEW t \in Threads,
                Synthesize(t) \/ Load(t) \/ LoadFails(t) \/ Rate(t) \/ SpeakRefused(t)
                  \/ Speak(t) \/ Wrap(t) \/ Label(t) \/ Record(t) \/ RecordEnds(t)
                  \/ RecordFails(t) \/ Use(t)
         PROVE  Alone'
    <3>1. PICK place \in {"idle", "loading", "rating", "speaking", "labelling", "recording",
                          "holding"} :
            pc' = [pc EXCEPT ![t] = place]
      BY <2>12 DEF Synthesize, Load, LoadFails, Rate, SpeakRefused, Speak, Wrap, Label, Record,
                   RecordEnds, RecordFails, Use, Hold, Goto
    <3>2. UNCHANGED capture
      BY <2>12 DEF Synthesize, Load, LoadFails, Rate, SpeakRefused, Speak, Wrap, Label, Record,
                   RecordEnds, RecordFails, Use, Hold
    <3>3. Alone /\ OneStarts' /\ OneStops'
      BY <2>3, <3>1, <3>2 DEF Places, capture
    <3> QED BY <2>8, <3>1, <3>2, <3>3 DEF Places
  <2>13. ASSUME NEW s \in DOMAIN streams, ChunkRefused(s) PROVE Alone'
    <3>1. /\ streams[s] = "running" /\ streams' = [streams EXCEPT ![s] = "aborted"]
          /\ UNCHANGED <<pc, stream, raced, failed>>
      BY <2>13 DEF ChunkRefused
    <3>2. Alone
      BY <3>1 DEF IInv, Calm
    <3>3. /\ DOMAIN streams' = DOMAIN streams /\ streams'[s] = "aborted"
          /\ \A r \in DOMAIN streams : r # s => streams'[r] = streams[r]
      BY <3>1 DEF TypeOK
    <3>4. OneStarts' /\ OneStops' /\ OpensAlone'
      BY <3>1, <3>2 DEF Alone, OneStarts, OneStops, OpensAlone, InStart, InStop
    <3>5. s = stream
      BY <3>1, <3>2 DEF Alone, Running
    <3>6. StartsIdle'
      BY <3>1, <3>3, <3>5 DEF StartsIdle, Idles
    <3>7. DropsGone'
      BY <3>1, <3>2, <3>5 DEF Alone, DropsGone, Gone, TypeOK
    <3>8. Running' \subseteq {stream'}
      BY <3>1, <3>2, <3>3 DEF Alone, Running
    <3> QED BY <3>4, <3>6, <3>7, <3>8 DEF Alone
  <2>14. ASSUME UNCHANGED <<pc, capture>> PROVE Alone'
    <3>1. Alone
      BY <2>14 DEF IInv, Calm, capture
    <3> QED BY <2>14, <3>1 DEF Alone, OneStarts, OneStops, OpensAlone, StartsIdle, DropsGone,
            Idles, Gone, InStart, InStop, Running, capture
  <2>15. ASSUME NEW s \in DOMAIN streams, (\E words \in SUBSET Words : Chunk(s, words)) \/ Callback(s)
         PROVE  Alone'
    BY <2>14, <2>15 DEF Chunk, Callback, Consider, Fire, Return
  <2>16. CASE Reset \/ Clock \/ UNCHANGED vars
    BY <2>14, <2>16 DEF Reset, Clock, vars
  <2> QED
    BY <2>1, <2>2, <2>4, <2>6, <2>7, <2>9, <2>10, <2>11, <2>12, <2>13, <2>15, <2>16
       DEF Next, Call
<1> QED BY <1>1, <1>2, TypeCorrect, PTL DEF Spec

(* StreamsAreShown, of AudioCapture: no stream runs that is_streaming does *)
(* not tell of, also when a stop comes while the stream is being started.  *)
THEOREM StreamsShown == Spec => []StreamsAreShown
<1>1. IInv => StreamsAreShown
  BY DEF IInv, Calm, Alone, StreamsAreShown
<1> QED BY <1>1, AloneAlways, PTL

-------------------------------------------------------------------------------
(* The wake words *)

(* Only the stream that runs has a callback; a word it is about to fire    *)
(* has cooled down, whatever reset() and the clock did since.              *)
Listening ==
  \A s \in DOMAIN streams :
    /\ hearing[s] # None => s = stream /\ streams[s] = "running"
    /\ firing[s] # None => Cool(firing[s], hearing[s].time)

WakeInv ==
  /\ \A w \in Words : last[w] = woke[w]
  /\ Calm => Listening

LEMMA WakeInvNext == TypeOK /\ IInv /\ WakeInv /\ [Next]_vars => WakeInv'
<1> USE VoiceAssumption
<1> SUFFICES ASSUME TypeOK, IInv, WakeInv, [Next]_vars PROVE WakeInv'
  OBVIOUS
<1>0. /\ hearing \in [DOMAIN streams -> Hearings \cup {None}]
      /\ firing \in [DOMAIN streams -> Words \cup {None}]
      /\ DOMAIN streams = 1 .. Len(streams) /\ Len(streams) \in Nat
      /\ None \notin Hearings /\ None \notin Words
  BY DEF TypeOK, Hearings
<1>1. ASSUME UNCHANGED <<stream, streams, raced, failed, detector>> PROVE WakeInv'
  BY <1>1 DEF WakeInv, Listening, Calm, Cool, detector
<1>2. ASSUME NEW t \in Threads, StartStream(t) \/ StopStream(t) PROVE WakeInv'
  <2>1. UNCHANGED <<stream, streams, failed, detector>>
    BY <1>2 DEF StartStream, StopStream
  <2>2. raced => raced'
    BY <1>2 DEF StartStream, StopStream, EnterStart, EnterStop
  <2>3. Calm' => Calm
    BY <2>1, <2>2 DEF Calm
  <2> QED BY <2>1, <2>3 DEF WakeInv, Listening, Cool, detector
<1>3. ASSUME NEW t \in Threads, Open(t) PROVE WakeInv'
  <2>1. /\ streams' = Append(streams, "open") /\ pc[t] = "opening"
        /\ hearing' = Append(hearing, None) /\ firing' = Append(firing, None)
        /\ UNCHANGED <<raced, failed, last, woke>>
    BY <1>3 DEF Open
  <2>2. ASSUME Calm
        PROVE  \A s \in DOMAIN streams : hearing[s] = None /\ firing[s] = None
    <3>1. stream = None /\ Listening
      BY <2>1, <2>2 DEF IInv, Alone, OpensAlone, WakeInv
    <3> QED BY <1>0, <3>1 DEF Listening, TypeOK
  <2>3. /\ DOMAIN streams' = 1 .. Len(streams) + 1
        /\ \A s \in DOMAIN streams : hearing'[s] = hearing[s] /\ firing'[s] = firing[s]
        /\ hearing'[Len(streams) + 1] = None /\ firing'[Len(streams) + 1] = None
    BY <1>0, <2>1 DEF TypeOK
  <2>4. Calm => \A s \in DOMAIN streams' : hearing'[s] = None /\ firing'[s] = None
    BY <1>0, <2>2, <2>3
  <2> QED BY <2>1, <2>4 DEF WakeInv, Listening, Calm
<1>4. ASSUME NEW t \in Threads, Begin(t) \/ Halt(t) \/ Close(t) \/ Drop(t) PROVE WakeInv'
  <2>1. /\ DOMAIN streams' = DOMAIN streams /\ UNCHANGED <<raced, failed, detector>>
        /\ \A s \in DOMAIN streams : s # stream => streams'[s] = streams[s]
    BY <1>0, <1>4 DEF Begin, Halt, Close, Drop, TypeOK
  <2>2. ASSUME Calm PROVE \A s \in DOMAIN streams : hearing[s] = None
    <3>1. stream # None => hearing[stream] = None \/ streams[stream] # "running"
      BY <1>4, <2>2 DEF Begin, Halt, Close, Drop, IInv, Alone, StartsIdle, DropsGone, Idles, Gone
    <3>2. Listening
      BY <2>2 DEF WakeInv
    <3> QED BY <1>0, <3>1, <3>2 DEF Listening, TypeOK
  <2>3. Calm => \A s \in DOMAIN streams : hearing[s] = None /\ firing[s] = None
    BY <2>2 DEF TypeOK
  <2> QED BY <2>1, <2>3 DEF WakeInv, Listening, Calm, detector
<1>5. ASSUME NEW t \in Threads, StopFails(t) PROVE WakeInv'
  BY <1>5 DEF StopFails, WakeInv, Listening, Cool, Calm, detector
<1>6. ASSUME NEW t \in Threads,
             Synthesize(t) \/ Load(t) \/ LoadFails(t) \/ Rate(t) \/ SpeakRefused(t)
               \/ Speak(t) \/ Wrap(t) \/ Label(t) \/ Record(t) \/ RecordEnds(t)
               \/ RecordFails(t) \/ Use(t) \/ StartFails(t)
      PROVE  WakeInv'
  BY <1>1, <1>6 DEF Synthesize, Load, LoadFails, Rate, SpeakRefused, Speak, Wrap, Label, Record,
     RecordEnds, RecordFails, Use, StartFails, Hold, capture
<1>7. ASSUME NEW s \in DOMAIN streams, ChunkRefused(s) PROVE WakeInv'
  <2>1. /\ hearing[s] = None /\ UNCHANGED <<stream, raced, failed, detector>>
        /\ streams' = [streams EXCEPT ![s] = "aborted"]
    BY <1>7 DEF ChunkRefused
  <2>2. /\ DOMAIN streams' = DOMAIN streams
        /\ \A r \in DOMAIN streams : r # s => streams'[r] = streams[r]
    BY <1>0, <2>1 DEF TypeOK
  <2> QED BY <2>1, <2>2 DEF WakeInv, Listening, Calm, Cool, detector
<1>8. ASSUME NEW s \in DOMAIN streams, NEW words \in SUBSET Words, Chunk(s, words) PROVE WakeInv'
  <2>1. /\ hearing[s] = None /\ streams[s] = "running"
        /\ hearing' = [hearing EXCEPT ![s] = [time |-> now, words |-> words]]
        /\ UNCHANGED <<stream, streams, raced, failed, firing, last, woke>>
    BY <1>8 DEF Chunk, capture
  <2>2. firing[s] = None /\ \A r \in DOMAIN streams : r # s => hearing'[r] = hearing[r]
    BY <1>0, <2>1 DEF TypeOK
  <2>3. Calm => s = stream
    BY <2>1 DEF IInv, Alone, Running
  <2> QED BY <2>1, <2>2, <2>3 DEF WakeInv, Listening, Calm, Cool
<1>9. ASSUME NEW s \in DOMAIN streams, NEW w \in Words, Consider(s, w) PROVE WakeInv'
  <2>1. /\ hearing[s] # None /\ firing[s] = None
        /\ firing' = [firing EXCEPT ![s] = IF Cool(w, hearing[s].time) THEN w ELSE None]
        /\ hearing' = [hearing EXCEPT ![s].words = @ \ {w}]
        /\ UNCHANGED <<stream, streams, raced, failed, last, woke>>
    BY <1>9 DEF Consider, Hearing, capture
  <2>2. /\ \A r \in DOMAIN streams : r # s => hearing'[r] = hearing[r] /\ firing'[r] = firing[r]
        /\ hearing'[s].time = hearing[s].time
        /\ firing'[s] = IF Cool(w, hearing[s].time) THEN w ELSE None
    BY <1>0, <2>1 DEF Hearings
  <2>3. ASSUME Calm PROVE Listening'
    <3>1. Listening /\ s = stream /\ streams[s] = "running"
      BY <2>1, <2>3 DEF WakeInv, Listening
    <3>2. \A v, time : Cool(v, time)' <=> Cool(v, time)
      BY <2>1 DEF Cool
    <3>3. ASSUME firing'[s] # None PROVE Cool(firing'[s], hearing'[s].time)
      BY <2>2, <3>3
    <3> QED BY <2>1, <2>2, <3>1, <3>3 DEF Listening, Cool
  <2> QED BY <2>1, <2>3 DEF WakeInv, Calm
<1>10. ASSUME NEW s \in DOMAIN streams, Fire(s) PROVE WakeInv'
  <2>1. /\ firing[s] # None /\ firing' = [firing EXCEPT ![s] = None]
        /\ last' = [last EXCEPT ![firing[s]] = hearing[s].time]
        /\ woke' = [woke EXCEPT ![firing[s]] = hearing[s].time]
        /\ UNCHANGED <<hearing, stream, streams, raced, failed>>
    BY <1>10 DEF Fire, capture
  <2>2. \A w \in Words : last'[w] = woke'[w]
    BY <2>1 DEF WakeInv, TypeOK
  <2>3. ASSUME Calm PROVE \A r \in DOMAIN streams : firing'[r] = None
    <3>1. Listening /\ hearing[s] # None
      BY <2>1, <2>3 DEF WakeInv, TypeOK
    <3>2. \A r \in DOMAIN streams : firing[r] # None => r = s
      BY <3>1 DEF Listening, TypeOK
    <3> QED BY <1>0, <2>1, <3>2
  <2> QED BY <2>1, <2>2, <2>3 DEF WakeInv, Listening, Calm
<1>11. ASSUME NEW s \in DOMAIN streams, Return(s) PROVE WakeInv'
  <2>1. /\ firing[s] = None /\ hearing' = [hearing EXCEPT ![s] = None]
        /\ UNCHANGED <<stream, streams, raced, failed, firing, last, woke>>
    BY <1>11 DEF Return, Hearing, capture
  <2>2. hearing'[s] = None /\ \A r \in DOMAIN streams : r # s => hearing'[r] = hearing[r]
    BY <1>0, <2>1
  <2> QED BY <2>1, <2>2 DEF WakeInv, Listening, Calm, Cool
<1>12. CASE Reset
  <2>1. /\ last' = [w \in Words |-> None] /\ woke' = [w \in Words |-> None]
        /\ UNCHANGED <<stream, streams, raced, failed, hearing, firing>>
    BY <1>12 DEF Reset, capture
  <2>2. \A s \in DOMAIN streams : firing[s] # None => last'[firing[s]] = None
    BY <1>0, <2>1
  <2> QED BY <2>1, <2>2 DEF WakeInv, Listening, Calm, Cool
<1>13. CASE Clock \/ UNCHANGED vars
  BY <1>1, <1>13 DEF Clock, vars, capture
<1> QED BY <1>2, <1>3, <1>4, <1>5, <1>6, <1>7, <1>8, <1>9, <1>10, <1>11, <1>12, <1>13
        DEF Next, Call, Callback

(* WakesAreSpaced, of WakewordDetector: the events of a word are a         *)
(* cooldown apart, for any cooldown and any clock, though the check and    *)
(* the assignment of _last_fired are two steps, and reset() may come       *)
(* between them.                                                           *)
THEOREM WakesSpaced == Spec => WakesAreSpaced
<1> USE VoiceAssumption
<1>1. Init => WakeInv
  BY DEF Init, WakeInv, Listening
<1>2. ASSUME TypeOK, WakeInv, [Next]_vars, NEW w \in Words,
             woke[w] # None, woke'[w] \notin {None, woke[w]}, ~raced, ~failed
      PROVE  woke'[w] - woke[w] >= Cooldown
  <2>1. ASSUME NEW s \in DOMAIN streams, Fire(s) PROVE woke'[w] - woke[w] >= Cooldown
    <3>1. firing[s] = w /\ woke'[w] = hearing[s].time /\ woke[w] = last[w]
      BY <1>2, <2>1 DEF Fire, WakeInv, TypeOK
    <3>2. Cool(w, hearing[s].time)
      BY <1>2, <2>1, <3>1 DEF Fire, WakeInv, Listening, Calm
    <3> QED BY <1>2, <3>1, <3>2 DEF Cool
  <2>2. ASSUME UNCHANGED woke \/ Reset PROVE FALSE
    BY <1>2, <2>2 DEF Reset
  <2>3. ASSUME NEW t \in Threads,
               StartStream(t) \/ StopStream(t) \/ Synthesize(t) \/ Record(t) \/ Call(t)
        PROVE  UNCHANGED woke
    BY <2>3 DEF StartStream, StopStream, Synthesize, Record, Call, Open, Begin, StartFails, Halt,
       Close, StopFails, Drop, RecordEnds, RecordFails, Load, LoadFails, Rate, Speak, Wrap, Label,
       SpeakRefused, Use, Hold, detector
  <2>4. ASSUME NEW s \in DOMAIN streams,
               ChunkRefused(s) \/ (\E words \in SUBSET Words : Chunk(s, words))
                 \/ (\E v \in Words : Consider(s, v)) \/ Return(s)
        PROVE  UNCHANGED woke
    BY <2>4 DEF ChunkRefused, Chunk, Consider, Return, detector
  <2>5. Clock \/ UNCHANGED vars => UNCHANGED woke
    BY DEF Clock, vars, detector
  <2> QED BY <1>2, <2>1, <2>2, <2>3, <2>4, <2>5 DEF Next, Callback
<1>3. TypeOK /\ WakeInv /\ [Next]_vars =>
        [\A w \in Words :
           woke[w] # None /\ woke'[w] \notin {None, woke[w]} /\ ~raced /\ ~failed
             => woke'[w] - woke[w] >= Cooldown]_vars
  BY <1>2
<1> QED BY <1>1, <1>3, WakeInvNext, TypeCorrect, AloneAlways, PTL DEF Spec, WakesAreSpaced

-------------------------------------------------------------------------------
(* The length of the sound *)

(* A second of sound at some rate, which is what everyone will read.       *)
Whole(c) ==
  \E r, ch \in Nat \ {0} :
    /\ c.seconds = 1 /\ c.width \in {2, 4} /\ c.bytes = 1 * r * ch * c.width
    /\ c.rate = r /\ c.channels = ch
    /\ c.format = "wav" => c.header = r

LEMMA WholeIsRead ==
  ASSUME NEW c, Whole(c)
  PROVE  /\ Transcribed(c) = 16000 * (c.seconds * Stretch(c))
         /\ Played(c).frames = Played(c).rate * (c.seconds * Stretch(c))
         /\ Duration(c) = IF c.format = "pcm_s16le" THEN c.seconds * Stretch(c) ELSE 0
<1>1. PICK r \in Nat \ {0}, ch \in Nat \ {0} :
        /\ c.seconds = 1 /\ c.width \in {2, 4} /\ c.bytes = 1 * r * ch * c.width
        /\ c.rate = r /\ c.channels = ch
        /\ c.format = "wav" => c.header = r
  BY DEF Whole
<1>2. PICK k \in {1, 2} : c.width = 2 * k /\ c.seconds * Stretch(c) = k
  BY <1>1 DEF Stretch, SampleWidth
<1>3. Frames(c) = r * k
  <2>1. 2 * ch \in Nat \ {0} /\ r * k \in Nat
    OBVIOUS
  <2>2. 1 * r * ch * (2 * k) = (r * k) * (2 * ch)
    <3>1. 1 * r * ch * 2 = r * (2 * ch) /\ 1 * r * ch * 4 = (r * 2) * (2 * ch)
      OBVIOUS
    <3> QED BY <3>1
  <2>3. \A n \in Nat, m \in Nat \ {0} : (n * m) \div m = n
    OBVIOUS
  <2>4. ((r * k) * (2 * ch)) \div (2 * ch) = r * k
    BY <2>1, <2>3
  <2> QED BY <1>1, <1>2, <2>2, <2>4 DEF Frames, SampleWidth
<1>4. RateRead(c) = r
  BY <1>1 DEF RateRead
<1>5. ((r * k) * 16000) \div r = 16000 * k /\ (r * k) \div r = k
  OBVIOUS
<1>6. Transcribed(c) = 16000 * k
  BY <1>3, <1>4, <1>5 DEF Transcribed
<1>7. Played(c).frames = Played(c).rate * k
  BY <1>3, <1>4 DEF Played
<1>8. Duration(c) = IF c.format = "pcm_s16le" THEN k ELSE 0
  BY <1>1, <1>3, <1>5 DEF Duration
<1> QED BY <1>2, <1>6, <1>7, <1>8

(* The rate of the voice is known once it is loaded, but for the moment    *)
(* that a thread takes between the two; a clip that was not made in such a *)
(* moment is whole.                                                        *)
SoundInv ==
  /\ voice => rate = VoiceRate \/ \E u \in Threads : pc[u] = "rating"
  /\ \A t \in Threads : pc[t] \in {"rating", "speaking", "labelling"} => voice
  /\ \A t \in Threads : pc[t] = "labelling" /\ t \notin hurried =>
       clip[t] = Spoken(1, VoiceRate, VoiceRate, "wav", VoiceRate)
  /\ \A t \in Threads :
       pc[t] = "holding" /\ t \notin hurried => Whole(clip[t])

(* SoundKeepsItsLength, of the rates and widths that clips are labelled    *)
(* with and read by.                                                       *)
THEOREM SoundLength == Spec => []SoundKeepsItsLength
<1> USE VoiceAssumption
<1>1. Init => SoundInv
  BY DEF Init, SoundInv
<1>2. TypeOK /\ SoundInv /\ [Next]_vars => SoundInv'
  <2> SUFFICES ASSUME TypeOK, SoundInv, [Next]_vars PROVE SoundInv'
    OBVIOUS
  <2>1. ASSUME NEW t \in Threads, NEW place \in Places,
               pc' = [pc EXCEPT ![t] = place], UNCHANGED <<config, speech>>,
               pc[t] # "rating", place \notin {"rating", "speaking", "labelling", "holding"}
        PROVE  SoundInv'
    BY <2>1 DEF SoundInv, TypeOK, speech
  <2>2. ASSUME NEW t \in Threads,
               StartStream(t) \/ StopStream(t) \/ Open(t) \/ Begin(t) \/ StartFails(t)
                 \/ Halt(t) \/ Close(t) \/ StopFails(t) \/ Drop(t) \/ LoadFails(t)
                 \/ SpeakRefused(t) \/ Record(t) \/ RecordFails(t)
        PROVE  SoundInv'
    <3>1. PICK place \in {"opening", "starting", "undoing", "stopping", "closing", "dropping",
                          "recording", "idle"} :
            pc' = [pc EXCEPT ![t] = place]
      BY <2>2 DEF StartStream, StopStream, Open, Begin, StartFails, Halt, Close, StopFails, Drop,
                  LoadFails, SpeakRefused, Record, RecordFails, EnterStart, EnterStop, Goto
    <3>2. pc[t] # "rating" /\ UNCHANGED <<config, speech>>
      BY <2>2 DEF StartStream, StopStream, Open, Begin, StartFails, Halt, Close, StopFails, Drop,
                  LoadFails, SpeakRefused, Record, RecordFails
    <3> QED BY <2>1, <3>1, <3>2 DEF Places
  <2>3. ASSUME NEW t \in Threads, Synthesize(t) PROVE SoundInv'
    BY <2>3 DEF Synthesize, Goto, SoundInv, TypeOK, speech
  <2>4. ASSUME NEW t \in Threads, Load(t) PROVE SoundInv'
    <3>1. /\ voice' = TRUE /\ pc' = [pc EXCEPT ![t] = "rating"]
          /\ UNCHANGED <<config, rate, clip, hurried>>
      BY <2>4 DEF Load, Goto
    <3>2. pc'[t] = "rating"
      BY <3>1 DEF TypeOK
    <3> QED BY <3>1, <3>2 DEF SoundInv, TypeOK
  <2>5. ASSUME NEW t \in Threads, Rate(t) PROVE SoundInv'
    BY <2>5 DEF Rate, Goto, SoundInv, TypeOK
  <2>6. ASSUME NEW t \in Threads, NEW c \in Clips, NEW place \in {"labelling", "holding"},
               Hold(t, c, place), pc[t] # "rating", hurried \subseteq hurried',
               \A u \in Threads \ {t} : u \in hurried' => u \in hurried,
               place = "labelling" =>
                 voice /\ (t \notin hurried' => c = Spoken(1, VoiceRate, VoiceRate, "wav", VoiceRate)),
               place = "holding" /\ t \notin hurried' => Whole(c)
        PROVE  SoundInv'
    <3>1. /\ clip' = [clip EXCEPT ![t] = c] /\ pc' = [pc EXCEPT ![t] = place]
          /\ UNCHANGED <<config, voice, rate>>
      BY <2>6 DEF Hold, Goto
    <3>2. pc'[t] = place /\ clip'[t] = c
      BY <3>1 DEF TypeOK
    <3>3. \A u \in Threads \ {t} : pc'[u] = pc[u] /\ clip'[u] = clip[u]
      BY <3>1 DEF TypeOK
    <3>4. voice' => rate' = VoiceRate \/ \E u \in Threads : pc'[u] = "rating"
      BY <2>6, <3>1, <3>3 DEF SoundInv
    <3>5. \A u \in Threads : pc'[u] \in {"rating", "speaking", "labelling"} => voice'
      BY <2>6, <3>1, <3>2, <3>3 DEF SoundInv
    <3>6. ASSUME NEW u \in Threads, pc'[u] = "labelling", u \notin hurried'
          PROVE  clip'[u] = Spoken(1, VoiceRate, VoiceRate, "wav", VoiceRate)
      BY <2>6, <3>2, <3>3, <3>6 DEF SoundInv
    <3>7. ASSUME NEW u \in Threads, pc'[u] = "holding", u \notin hurried'
          PROVE  Whole(clip'[u])
      <4>1. CASE u = t
        BY <2>6, <3>1, <3>2, <3>7, <4>1
      <4>2. CASE u # t
        <5>1. Whole(clip[u]) /\ clip'[u] = clip[u]
          BY <2>6, <3>1, <3>3, <3>7, <4>2 DEF SoundInv
        <5> QED BY <5>1
      <4> QED BY <4>1, <4>2
    <3> QED BY <3>4, <3>5, <3>6, <3>7 DEF SoundInv, Whole
  <2>7. ASSUME NEW t \in Threads, Hurry(t), pc[t] \in {"speaking", "labelling"}
        PROVE  /\ t \notin hurried' => rate = VoiceRate /\ t \notin hurried
               /\ hurried \subseteq hurried'
               /\ \A u \in Threads \ {t} : u \in hurried' => u \in hurried
               /\ voice
    <3>1. voice
      BY <2>7 DEF SoundInv
    <3>2. CASE \E u \in Threads \ {t} : pc[u] = "rating"
      BY <2>7, <3>1, <3>2 DEF Hurry
    <3>3. CASE ~\E u \in Threads \ {t} : pc[u] = "rating"
      <4>1. rate = VoiceRate
        BY <2>7, <3>1, <3>3 DEF SoundInv
      <4> QED BY <2>7, <3>1, <3>3, <4>1 DEF Hurry
    <3> QED BY <3>2, <3>3
  <2>8. Spoken(1, VoiceRate, VoiceRate, "wav", VoiceRate) \in Clips
        /\ Spoken(1, VoiceRate, VoiceRate, "pcm_s16le", None) \in Clips
        /\ Spoken(1, VoiceRate, rate, "wav", rate) \in Clips
        /\ Spoken(1, VoiceRate, rate, "pcm_s16le", None) \in Clips
    <3>1. 1 * VoiceRate * 2 \in Nat /\ rate \in Nat \ {0}
      BY DEF TypeOK
    <3> QED BY <3>1 DEF Spoken, SampleWidth, Clip, Clips
  <2>9. Whole(Spoken(1, VoiceRate, VoiceRate, "pcm_s16le", None))
        /\ Whole(Spoken(1, VoiceRate, VoiceRate, "wav", VoiceRate))
    <3>1. 1 * VoiceRate * 2 = 1 * VoiceRate * 1 * 2 /\ 1 \in Nat \ {0}
      OBVIOUS
    <3> QED BY <3>1 DEF Whole, Spoken, SampleWidth, Clip
  <2>10. ASSUME NEW t \in Threads, Speak(t) PROVE SoundInv'
    <3>1. /\ Hurry(t) /\ pc[t] = "speaking"
          /\ Hold(t, Spoken(1, VoiceRate, rate, "pcm_s16le", None), "holding")
      BY <2>10 DEF Speak
    <3> QED BY <2>6, <2>7, <2>8, <2>9, <3>1
  <2>11. ASSUME NEW t \in Threads, Wrap(t) PROVE SoundInv'
    <3>1. /\ Hurry(t) /\ pc[t] = "speaking"
          /\ Hold(t, Spoken(1, VoiceRate, rate, "wav", rate), "labelling")
      BY <2>11 DEF Wrap
    <3> QED BY <2>6, <2>7, <2>8, <3>1
  <2>12. ASSUME NEW t \in Threads, Label(t) PROVE SoundInv'
    <3>1. /\ Hurry(t) /\ pc[t] = "labelling"
          /\ Hold(t, [clip[t] EXCEPT !.rate = rate], "holding")
      BY <2>12 DEF Label
    <3>2. clip[t] \in Clips
      BY <3>1 DEF TypeOK
    <3>3. [clip[t] EXCEPT !.rate = rate] \in Clips
      BY <3>2 DEF TypeOK, Clips
    <3>4. ASSUME t \notin hurried' PROVE Whole([clip[t] EXCEPT !.rate = rate])
      <4>1. rate = VoiceRate /\ clip[t] = Spoken(1, VoiceRate, VoiceRate, "wav", VoiceRate)
        BY <2>7, <3>1, <3>4 DEF SoundInv
      <4>2. [clip[t] EXCEPT !.rate = rate] = clip[t]
        BY <4>1 DEF Spoken, Clip
      <4> QED BY <2>9, <4>1, <4>2
    <3> QED BY <2>6, <2>7, <3>1, <3>3, <3>4
  <2>13. ASSUME NEW t \in Threads, RecordEnds(t) PROVE SoundInv'
    <3>1. config.rate \in Nat \ {0} /\ config.channels \in Nat \ {0} /\ Width(config.dtype) \in {2, 4}
      BY DEF TypeOK, Width
    <3>2. Recorded(config, 1) \in Clips
      BY <3>1, ClipType DEF Recorded
    <3>3. Whole(Recorded(config, 1))
      BY <3>1 DEF Whole, Recorded, Clip
    <3>4. pc[t] = "recording" /\ hurried' = hurried /\ Hold(t, Recorded(config, 1), "holding")
      BY <2>13 DEF RecordEnds
    <3> QED BY <2>6, <3>2, <3>3, <3>4
  <2>14. ASSUME NEW t \in Threads, Use(t) PROVE SoundInv'
    <3>1. /\ clip' = [clip EXCEPT ![t] = None] /\ pc' = [pc EXCEPT ![t] = "idle"]
          /\ hurried' = hurried \ {t} /\ UNCHANGED <<config, voice, rate>> /\ pc[t] = "holding"
      BY <2>14 DEF Use, Goto
    <3>2. pc'[t] = "idle" /\ \A u \in Threads \ {t} : pc'[u] = pc[u] /\ clip'[u] = clip[u]
      BY <3>1 DEF TypeOK
    <3> QED BY <3>1, <3>2 DEF SoundInv, Whole
  <2>15. ASSUME UNCHANGED <<config, pc, speech>> PROVE SoundInv'
    BY <2>15 DEF SoundInv, Whole, speech
  <2>16. ASSUME NEW s \in DOMAIN streams,
                ChunkRefused(s) \/ (\E words \in SUBSET Words : Chunk(s, words)) \/ Callback(s)
         PROVE  SoundInv'
    BY <2>15, <2>16 DEF ChunkRefused, Chunk, Callback, Consider, Fire, Return
  <2>17. CASE Reset \/ Clock \/ UNCHANGED vars
    BY <2>15, <2>17 DEF Reset, Clock, vars
  <2> QED
    BY <2>2, <2>3, <2>4, <2>5, <2>10, <2>11, <2>12, <2>13, <2>14, <2>16, <2>17 DEF Next, Call
<1>3. SoundInv => SoundKeepsItsLength
  BY WholeIsRead DEF SoundInv, SoundKeepsItsLength
<1> QED BY <1>1, <1>2, <1>3, TypeCorrect, PTL DEF Spec
=================================================================================
