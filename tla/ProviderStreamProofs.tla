-------------------------- MODULE ProviderStreamProofs --------------------------
(***************************************************************************)
(* Theorems about ProviderStream, for every plan of the router and answers *)
(* of any length.                                                          *)
(***************************************************************************)
EXTENDS ProviderStream, SequenceTheorems, TLAPS

(* Every event is well typed, of the candidate being tried. *)
LEMMA EventType ==
  ASSUME TypeOK
  PROVE  /\ \A i \in Nat : /\ TextDelta(i) \in Event /\ TextDelta(i).kind # "stop"
                           /\ ToolUseStart(i) \in Event /\ ToolUseStart(i).kind # "stop"
                           /\ ToolUseDelta(i) \in Event /\ ToolUseDelta(i).kind # "stop"
         /\ \A r \in StopReasons : /\ MessageStop(r) \in Event
                                   /\ MessageStop(r).kind = "stop" /\ MessageStop(r).by = at
<1>1. at \in Nat
  BY StreamAssumption DEF TypeOK
<1> QED BY <1>1 DEF TextDelta, ToolUseStart, ToolUseDelta, MessageStop, Event

(* The chunks that are enumerated are sequences of parts.                  *)
LEMMA GeminiChunksType == GeminiChunks \subseteq Seq({"text", "call"})
<1> SUFFICES ASSUME NEW kinds \in GeminiChunks PROVE kinds \in Seq({"text", "call"})
  OBVIOUS
<1>1. PICK n \in 0 .. 2 : kinds \in [1 .. n -> {"text", "call"}]
  BY DEF GeminiChunks
<1>2. n \in Nat
  OBVIOUS
<1> QED BY <1>1, <1>2

(* A chunk of Gemini becomes events, none of them a MessageStop.           *)
LEMMA GeminiEventsType ==
  ASSUME TypeOK, NEW kinds \in Seq({"text", "call"})
  PROVE  /\ GeminiEvents(kinds) \in Seq(Event)
         /\ \A i \in DOMAIN GeminiEvents(kinds) : GeminiEvents(kinds)[i].kind # "stop"
<1>1. Len(said) \in Nat
  BY DEF TypeOK
<1>2. /\ DOMAIN GeminiEvents(kinds) = 1 .. Len(kinds)
      /\ \A i \in 1 .. Len(kinds) : GeminiEvents(kinds)[i] \in Event /\ GeminiEvents(kinds)[i].kind # "stop"
  BY <1>1, EventType DEF GeminiEvents
<1>3. GeminiEvents(kinds) = [i \in 1 .. Len(kinds) |-> GeminiEvents(kinds)[i]]
  BY <1>2 DEF GeminiEvents
<1>4. GeminiEvents(kinds) \in [1 .. Len(kinds) -> Event]
  BY <1>2, <1>3
<1> QED BY <1>2, <1>4

(* A chunk of Ollama becomes events; the last one of the chunk that is     *)
(* done, and only it, is a MessageStop.                                    *)
LEMMA OllamaEventsType ==
  ASSUME TypeOK, NEW text, NEW calls \in Nat, NEW done \in BOOLEAN
  PROVE  /\ OllamaEvents(text, calls, done) \in Seq(Event)
         /\ \A i \in DOMAIN OllamaEvents(text, calls, done) :
              OllamaEvents(text, calls, done)[i].kind = "stop" =>
                /\ done /\ i = Len(OllamaEvents(text, calls, done))
                /\ OllamaEvents(text, calls, done)[i].by = at
         /\ done => /\ OllamaEvents(text, calls, done) # <<>>
                    /\ OllamaEvents(text, calls, done)[Len(OllamaEvents(text, calls, done))].kind = "stop"
<1> DEFINE first == Len(said) + IF text = None THEN 0 ELSE 1
           reason == IF calls > 0 THEN "tool_use" ELSE "end_turn"
           head == IF text = None THEN <<>> ELSE <<TextDelta(Len(said) + 1)>>
           middle == OllamaCalls(first, calls)
           tail == IF done THEN middle \o <<MessageStop(reason)>> ELSE <<>>
<1>1. OllamaEvents(text, calls, done) = head \o tail
  BY DEF OllamaEvents
<1>2. Len(said) \in Nat /\ first \in Nat
  BY DEF TypeOK
<1>3. /\ head \in Seq(Event) /\ Len(head) \in 0 .. 1
      /\ \A i \in 1 .. Len(head) : head[i].kind # "stop"
  <2>1. CASE text = None
    BY <2>1
  <2>2. CASE text # None
    <3>1. /\ head = <<TextDelta(Len(said) + 1)>>
          /\ TextDelta(Len(said) + 1) \in Event /\ TextDelta(Len(said) + 1).kind # "stop"
      BY <1>2, <2>2, EventType
    <3> HIDE DEF head
    <3> QED BY <3>1
  <2> QED BY <2>1, <2>2
<1>4. /\ middle \in Seq(Event) /\ Len(middle) \in Nat
      /\ \A i \in 1 .. Len(middle) : middle[i].kind # "stop"
  <2>1. \A k \in 1 .. 2 * calls : first + k \div 2 \in Nat /\ first + k \div 2 + 1 \in Nat
    <3> HIDE DEF first
    <3>1. \A k \in 1 .. 2 * calls : k \in Nat /\ k \div 2 \in Nat
      OBVIOUS
    <3> QED BY <1>2, <3>1
  <2>2. \A k \in 1 .. 2 * calls :
          (IF k % 2 = 1 THEN ToolUseStart(first + k \div 2 + 1) ELSE ToolUseDelta(first + k \div 2))
            \in {e \in Event : e.kind # "stop"}
    BY <2>1, EventType
  <2>3. middle \in [1 .. 2 * calls -> {e \in Event : e.kind # "stop"}]
    BY <2>2 DEF OllamaCalls
  <2>4. 2 * calls \in Nat
    OBVIOUS
  <2>5. middle \in Seq({e \in Event : e.kind # "stop"})
    BY <2>3, <2>4
  <2> HIDE DEF middle
  <2> QED BY <2>5
<1>5. MessageStop(reason) \in Event /\ MessageStop(reason).kind = "stop" /\ MessageStop(reason).by = at
  <2>1. reason \in StopReasons
    BY DEF StopReasons
  <2> HIDE DEF reason
  <2> QED BY <2>1, EventType
<1> HIDE DEF head, middle, reason
<1>6. CASE done
  <2>1. head \o tail = head \o (middle \o <<MessageStop(reason)>>)
    BY <1>6
  <2>2. /\ middle \o <<MessageStop(reason)>> \in Seq(Event)
        /\ Len(middle \o <<MessageStop(reason)>>) = Len(middle) + 1
        /\ \A i \in 1 .. Len(middle) : (middle \o <<MessageStop(reason)>>)[i] = middle[i]
        /\ (middle \o <<MessageStop(reason)>>)[Len(middle) + 1] = MessageStop(reason)
    BY <1>4, <1>5
  <2> QED BY <1>1, <1>3, <1>4, <1>5, <1>6, <2>1, <2>2
<1>7. CASE ~done
  <2>1. head \o tail = head
    BY <1>3, <1>7
  <2> QED BY <1>1, <1>3, <1>7, <2>1
<1> QED BY <1>6, <1>7

(* What a call leaves when a candidate raises. *)
LEMMA RaiseType ==
  ASSUME TypeOK, NEW err \in Results, Raise(err)
  PROVE  TypeOK'
<1>1. CASE err = "ProviderUnavailableError" /\ at < Len(chain)
  <2>1. /\ at' = at + 1 /\ phase' = "opening" /\ said' = <<>> /\ cut' = FALSE
        /\ stop' = "end_turn" /\ saw' = FALSE /\ due' = <<>>
        /\ UNCHANGED <<chain, events, result>>
    BY <1>1 DEF Raise
  <2>2. at' \in 1 .. Len(chain')
    BY <1>1, <2>1, StreamAssumption DEF TypeOK
  <2>3. "end_turn" \in StopReasons
    BY DEF StopReasons
  <2>4. said' \in Seq(Block) /\ due' \in Seq(Event)
    BY <2>1
  <2> QED BY <2>1, <2>2, <2>3, <2>4 DEF TypeOK
<1>2. CASE ~(err = "ProviderUnavailableError" /\ at < Len(chain))
  <2>1. /\ result' = IF err = "ProviderUnavailableError" THEN "NoProviderAvailableError" ELSE err
        /\ UNCHANGED <<chain, at, decoder, events>>
    BY <1>2 DEF Raise
  <2> QED BY <2>1 DEF TypeOK, decoder, Results
<1> QED BY <1>1, <1>2

(* The errors of the providers. *)
LEMMA ErrorType ==
  ASSUME TypeOK
  PROVE  /\ BuildErrors(Provider) \subseteq ProviderErrors
         /\ \A e \in SdkErrors : Translated(Provider, e) \in ProviderErrors \cup {"untranslated"}
<1>1. Provider \in {"claude", "gemini", "ollama"}
  BY StreamAssumption DEF TypeOK, Provider
<1> QED
  BY <1>1 DEF BuildErrors, ClaudeBuild, GeminiBuild, OllamaBuild, Translated, ClaudeError,
              GeminiError, OllamaError, ProviderErrors

(* Every call keeps its type, whatever the SDKs deliver. *)
THEOREM TypeCorrect == Spec => []TypeOK
<1>1. Init => TypeOK
  <2> SUFFICES ASSUME Init PROVE TypeOK
    OBVIOUS
  <2>1. 1 \in 1 .. Len(chain)
    BY StreamAssumption DEF Init
  <2>2. said \in Seq(Block) /\ due \in Seq(Event) /\ events \in Seq(Event)
    BY DEF Init, Fresh
  <2>3. "end_turn" \in StopReasons
    BY DEF StopReasons
  <2> QED BY <2>1, <2>2, <2>3 DEF Init, Fresh, TypeOK
<1>2. TypeOK /\ [Next]_vars => TypeOK'
  <2> SUFFICES ASSUME TypeOK, [Next]_vars PROVE TypeOK'
    OBVIOUS
  <2>1. CASE Build
    BY <2>1, ErrorType, RaiseType DEF Build, Results
  <2>2. CASE Open
    BY <2>2 DEF Open, TypeOK
  <2>3. ASSUME NEW kind \in {"text", "call"}, ClaudeBlock(kind) PROVE TypeOK'
    <3>1. /\ said' = Append(said, [kind |-> kind, final |-> FALSE])
          /\ due' = (IF kind = "call" THEN <<ToolUseStart(Len(said) + 1)>> ELSE <<>>)
          /\ UNCHANGED <<chain, at, phase, cut, stop, saw, events, result>>
      BY <2>3 DEF ClaudeBlock, Yield
    <3>2. [kind |-> kind, final |-> FALSE] \in Block /\ Len(said) + 1 \in Nat
      BY DEF Block, Kinds, TypeOK
    <3>3. said' \in Seq(Block) /\ due' \in Seq(Event)
      BY <3>1, <3>2, EventType DEF TypeOK
    <3> QED BY <3>1, <3>3 DEF TypeOK
  <2>4. CASE ClaudeDelta
    <3>1. /\ due' = <<IF Last(said).kind = "call" THEN ToolUseDelta(Len(said)) ELSE TextDelta(Len(said))>>
          /\ UNCHANGED <<chain, at, phase, said, cut, stop, saw, events, result>>
      BY <2>4 DEF ClaudeDelta, Yield
    <3>2. Len(said) \in Nat
      BY DEF TypeOK
    <3>3. due' \in Seq(Event)
      BY <3>1, <3>2, EventType
    <3> QED BY <3>1, <3>3 DEF TypeOK
  <2>5. ASSUME NEW sr, ClaudeMessageDelta(sr) PROVE TypeOK'
    BY <2>5 DEF ClaudeMessageDelta, ClaudeReason, TypeOK, StopReasons
  <2>6. ASSUME NEW kinds \in Seq({"text", "call"}), NEW finish, GeminiChunk(kinds, finish)
        PROVE  TypeOK'
    <3>1. /\ said' = said \o [i \in DOMAIN kinds |-> [kind |-> kinds[i], final |-> finish # None]]
          /\ saw' = (saw \/ \E i \in DOMAIN kinds : kinds[i] = "call")
          /\ due' = GeminiEvents(kinds)
          /\ stop' = (IF finish = None THEN stop ELSE IF saw' THEN "tool_use" ELSE GeminiReason(finish))
          /\ phase' = (IF finish = None THEN "reading" ELSE "stopping")
          /\ UNCHANGED <<chain, at, cut, events, result>>
      BY <2>6 DEF GeminiChunk, Yield
    <3>2. [i \in DOMAIN kinds |-> [kind |-> kinds[i], final |-> finish # None]] \in Seq(Block)
      <4>1. \A i \in 1 .. Len(kinds) : [kind |-> kinds[i], final |-> finish # None] \in Block
        BY DEF Block, Kinds
      <4> QED BY <4>1
    <3>3. said' \in Seq(Block)
      BY <3>1, <3>2 DEF TypeOK
    <3>4. due' \in Seq(Event)
      BY <3>1, GeminiEventsType
    <3>5. stop' \in StopReasons
      <4>1. GeminiReason(finish) \in StopReasons
        BY DEF GeminiReason, StopReasons
      <4>2. "tool_use" \in StopReasons
        BY DEF StopReasons
      <4> QED BY <3>1, <4>1, <4>2 DEF TypeOK
    <3>6. saw' \in BOOLEAN
      BY <3>1
    <3> QED BY <3>1, <3>3, <3>4, <3>5, <3>6 DEF TypeOK
  <2>7. ASSUME NEW text, NEW calls \in Nat, NEW done \in BOOLEAN, OllamaChunk(text, calls, done)
        PROVE  TypeOK'
    <3>1. /\ text \in {None, "text", "json"}
          /\ said' = said \o OllamaBlocks(text, calls, done)
          /\ due' = OllamaEvents(text, calls, done)
          /\ saw' = (done /\ calls > 0)
          /\ phase' = (IF done THEN "stopped" ELSE "reading")
          /\ UNCHANGED <<chain, at, cut, stop, events, result>>
      BY <2>7 DEF OllamaChunk, Yield
    <3>2. OllamaBlocks(text, calls, done) \in Seq(Block)
      <4> DEFINE n == (IF text = None THEN 0 ELSE 1) + calls
      <4>1. n \in Nat
        OBVIOUS
      <4>2. \A i \in 1 .. n :
              [kind |-> IF i = 1 /\ text # None THEN text ELSE "call", final |-> done] \in Block
        BY <3>1 DEF Block, Kinds
      <4>3. OllamaBlocks(text, calls, done) =
              [i \in 1 .. n |-> [kind |-> IF i = 1 /\ text # None THEN text ELSE "call", final |-> done]]
        BY DEF OllamaBlocks
      <4> HIDE DEF n
      <4> QED BY <4>1, <4>2, <4>3
    <3>3. said' \in Seq(Block) /\ due' \in Seq(Event)
      BY <3>1, <3>2, OllamaEventsType DEF TypeOK
    <3> QED BY <3>1, <3>3 DEF TypeOK
  <2>8. CASE Close
    <3>1. due' = <<MessageStop(stop)>> /\ due' \in Seq(Event)
      BY <2>8, EventType DEF Close, Yield, TypeOK
    <3> QED BY <2>8, <3>1 DEF Close, TypeOK
  <2>9. CASE Finish
    BY <2>9 DEF Finish, TypeOK, decoder, Results
  <2>10. ASSUME NEW e \in SdkErrors, Fail(e) PROVE TypeOK'
    BY <2>10, ErrorType, RaiseType DEF Fail, Results
  <2>11. CASE Deliver
    <3>1. Head(due) \in Event /\ Tail(due) \in Seq(Event)
      BY <2>11 DEF Deliver, TypeOK
    <3> QED BY <2>11, <3>1 DEF Deliver, TypeOK
  <2>12. CASE Abandon
    BY <2>12 DEF Abandon, TypeOK, decoder, Results
  <2>13. CASE UNCHANGED vars
    BY <2>13 DEF vars, decoder, TypeOK
  <2> QED
    BY <2>1, <2>2, <2>3, <2>4, <2>5, <2>6, <2>7, <2>8, <2>9, <2>10, <2>11, <2>12, <2>13, GeminiChunksType
       DEF Next
<1> QED BY <1>1, <1>2, PTL DEF Spec

-------------------------------------------------------------------------------
(* The end of a stream *)

Errors == ProviderErrors \cup {"NoProviderAvailableError", "untranslated"}

(* A MessageStop is made by the step that stops the decoder, it is the     *)
(* last event that is due and then the last one delivered.                 *)
StopIsLast ==
  /\ \A i \in DOMAIN due : due[i].kind = "stop" =>
       i = Len(due) /\ due[i].by = at /\ phase = "stopped"
  /\ \A i \in DOMAIN events : events[i].kind = "stop" =>
       i = Len(events) /\ events[i].by = at /\ phase = "stopped" /\ due = <<>>

StoppedByStop ==
  phase = "stopped" =>
    IF due = <<>> THEN events # <<>> /\ events[Len(events)].kind = "stop"
    ELSE due[Len(due)].kind = "stop"

EndsByPhase ==
  /\ result = "ok" => phase = "stopped" /\ due = <<>>
  /\ result \in Errors => phase # "stopped"

IInv == StopIsLast /\ StoppedByStop /\ EndsByPhase

(* What a decoder makes of a chunk: it was called when nothing was due.    *)
LEMMA ChunkKeepsIInv ==
  ASSUME TypeOK, IInv, Running, due = <<>>, phase # "stopped",
         due' \in Seq(Event), UNCHANGED <<at, events, result>>,
         \A i \in DOMAIN due' : due'[i].kind = "stop" =>
           phase' = "stopped" /\ i = Len(due') /\ due'[i].by = at,
         phase' = "stopped" => due' # <<>> /\ due'[Len(due')].kind = "stop"
  PROVE  IInv'
<1>1. \A i \in DOMAIN events : events[i].kind # "stop"
  BY DEF IInv, StopIsLast
<1>2. StopIsLast'
  BY <1>1 DEF StopIsLast
<1>3. StoppedByStop'
  BY DEF StoppedByStop
<1>4. result' = None /\ None \notin Errors /\ None # "ok"
  BY StreamAssumption DEF Running, Results, Errors
<1>5. EndsByPhase'
  BY <1>4 DEF EndsByPhase
<1> QED BY <1>2, <1>3, <1>5 DEF IInv

(* An error leaves what was delivered unclosed. *)
LEMMA RaiseKeepsIInv ==
  ASSUME TypeOK, IInv, Running, phase # "stopped", NEW err \in Errors, Raise(err)
  PROVE  IInv'
<1>1. \A i \in DOMAIN events : events[i].kind # "stop"
  BY DEF IInv, StopIsLast
<1>2. CASE err = "ProviderUnavailableError" /\ at < Len(chain)
  <2>1. /\ due' = <<>> /\ phase' = "opening" /\ result' = None /\ events' = events
    BY <1>2 DEF Raise, Running
  <2>2. None \notin Errors /\ None # "ok"
    BY StreamAssumption DEF Results, Errors
  <2> QED BY <1>1, <2>1, <2>2 DEF IInv, StopIsLast, StoppedByStop, EndsByPhase
<1>3. CASE ~(err = "ProviderUnavailableError" /\ at < Len(chain))
  <2>1. /\ result' \in Errors /\ UNCHANGED <<at, phase, due, events>>
    BY <1>3 DEF Raise, decoder, Errors
  <2>2. "ok" \notin Errors
    BY DEF Errors, ProviderErrors
  <2> QED BY <1>1, <2>1, <2>2 DEF IInv, StopIsLast, StoppedByStop, EndsByPhase
<1> QED BY <1>2, <1>3

(* The inductive invariant of the end of a stream. *)
LEMMA IInvHolds == Spec => []IInv
<1>1. Init => IInv
  <2> SUFFICES ASSUME Init PROVE IInv
    OBVIOUS
  <2>1. None \notin Errors /\ None # "ok"
    BY StreamAssumption DEF Results, Errors
  <2> QED BY <2>1 DEF Init, Fresh, IInv, StopIsLast, StoppedByStop, EndsByPhase
<1>2. TypeOK /\ TypeOK' /\ IInv /\ [Next]_vars => IInv'
  <2> SUFFICES ASSUME TypeOK, TypeOK', IInv, [Next]_vars PROVE IInv'
    OBVIOUS
  <2> DEFINE Plain(es) == \A i \in DOMAIN es : es[i].kind # "stop"
  <2>1. ASSUME Running, due = <<>>, phase # "stopped", phase' # "stopped", Plain(due'),
               UNCHANGED <<at, events, result>>
        PROVE  IInv'
    <3>1. due' \in Seq(Event)
      BY DEF TypeOK
    <3> QED BY <2>1, <3>1, ChunkKeepsIInv
  <2>2. CASE Build
    BY <2>2, ErrorType, RaiseKeepsIInv DEF Build, Errors
  <2>3. CASE Open
    <3>1. None \notin Errors /\ None # "ok"
      BY StreamAssumption DEF Results, Errors
    <3> QED BY <2>3, <3>1 DEF Open, Running, IInv, StopIsLast, StoppedByStop, EndsByPhase
  <2>4. ASSUME NEW kind \in {"text", "call"}, ClaudeBlock(kind) PROVE IInv'
    <3>1. /\ Running /\ due = <<>> /\ phase = "reading" /\ phase' = phase
          /\ due' = (IF kind = "call" THEN <<ToolUseStart(Len(said) + 1)>> ELSE <<>>)
          /\ UNCHANGED <<at, events, result>>
      BY <2>4 DEF ClaudeBlock, Pulling, Yield
    <3>2. Len(said) + 1 \in Nat
      BY DEF TypeOK
    <3>3. Plain(due')
      BY <3>1, <3>2, EventType
    <3> QED BY <2>1, <3>1, <3>3
  <2>5. CASE ClaudeDelta
    <3>1. /\ Running /\ due = <<>> /\ phase = "reading" /\ phase' = phase
          /\ due' = <<IF Last(said).kind = "call" THEN ToolUseDelta(Len(said)) ELSE TextDelta(Len(said))>>
          /\ UNCHANGED <<at, events, result>>
      BY <2>5 DEF ClaudeDelta, Pulling, Yield
    <3>2. Len(said) \in Nat
      BY DEF TypeOK
    <3>3. Plain(due')
      BY <3>1, <3>2, EventType
    <3> QED BY <2>1, <3>1, <3>3
  <2>6. ASSUME NEW sr, ClaudeMessageDelta(sr) PROVE IInv'
    BY <2>1, <2>6 DEF ClaudeMessageDelta, Pulling
  <2>7. ASSUME NEW kinds \in Seq({"text", "call"}), NEW finish, GeminiChunk(kinds, finish)
        PROVE  IInv'
    <3>1. /\ Running /\ due = <<>> /\ phase = "reading" /\ phase' # "stopped"
          /\ due' = GeminiEvents(kinds) /\ UNCHANGED <<at, events, result>>
      BY <2>7 DEF GeminiChunk, Pulling, Yield
    <3>2. Plain(due')
      BY <3>1, GeminiEventsType
    <3> QED BY <2>1, <3>1, <3>2
  <2>8. ASSUME NEW text, NEW calls \in Nat, NEW done \in BOOLEAN, OllamaChunk(text, calls, done)
        PROVE  IInv'
    <3>1. /\ Running /\ due = <<>> /\ phase = "reading"
          /\ phase' = (IF done THEN "stopped" ELSE "reading")
          /\ due' = OllamaEvents(text, calls, done) /\ UNCHANGED <<at, events, result>>
      BY <2>8 DEF OllamaChunk, Pulling, Yield
    <3>2. /\ due' \in Seq(Event)
          /\ \A i \in DOMAIN due' : due'[i].kind = "stop" => done /\ i = Len(due') /\ due'[i].by = at
          /\ done => due' # <<>> /\ due'[Len(due')].kind = "stop"
      BY <3>1, OllamaEventsType
    <3> QED BY <3>1, <3>2, ChunkKeepsIInv
  <2>9. CASE Close
    <3>1. /\ Running /\ due = <<>> /\ phase # "stopped" /\ phase' = "stopped"
          /\ due' = <<MessageStop(stop)>> /\ UNCHANGED <<at, events, result>>
      BY <2>9 DEF Close, Yield
    <3>2. MessageStop(stop) \in Event /\ MessageStop(stop).kind = "stop" /\ MessageStop(stop).by = at
      BY EventType DEF TypeOK
    <3>3. /\ due' \in Seq(Event) /\ Len(due') = 1 /\ due'[1] = MessageStop(stop)
          /\ DOMAIN due' = {1} /\ due' # <<>>
      BY <3>1, <3>2
    <3> QED BY <3>1, <3>2, <3>3, ChunkKeepsIInv
  <2>10. CASE Finish
    <3>1. phase = "stopped" /\ due = <<>> /\ result' = "ok" /\ UNCHANGED <<at, phase, due, events>>
      BY <2>10 DEF Finish, decoder
    <3>2. "ok" \notin Errors
      BY DEF Errors, ProviderErrors
    <3> QED BY <3>1, <3>2 DEF IInv, StopIsLast, StoppedByStop, EndsByPhase
  <2>11. ASSUME NEW e \in SdkErrors, Fail(e) PROVE IInv'
    BY <2>11, ErrorType, RaiseKeepsIInv DEF Fail, Errors
  <2>12. CASE Deliver
    <3>1. /\ due # <<>> /\ events' = Append(events, Head(due)) /\ due' = Tail(due)
          /\ result = None /\ UNCHANGED <<at, phase, result>>
      BY <2>12 DEF Deliver, Running
    <3>2. \A i \in DOMAIN events : events[i].kind # "stop"
      BY <3>1 DEF IInv, StopIsLast
    <3>3. /\ due \in Seq(Event) /\ Len(due) \in Nat \ {0} /\ due' \in Seq(Event)
          /\ Len(due') = Len(due) - 1
          /\ \A i \in 1 .. Len(due') : due'[i] = due[i + 1]
          /\ Len(due) = 1 => due' = <<>>
          /\ Len(due) # 1 => due' # <<>>
      <4>1. due \in Seq(Event) /\ Len(due) \in Nat \ {0}
        BY <3>1, EmptySeq DEF TypeOK
      <4>2. /\ Tail(due) \in Seq(Event) /\ Len(Tail(due)) = Len(due) - 1
            /\ \A i \in 1 .. Len(Tail(due)) : Tail(due)[i] = due[i + 1]
        BY <3>1, <4>1, HeadTailProperties
      <4> QED BY <3>1, <4>1, <4>2
    <3>4. /\ Len(events') = Len(events) + 1 /\ events'[Len(events')] = due[1]
          /\ \A i \in 1 .. Len(events) : events'[i] = events[i]
          /\ events' # <<>> /\ Len(events) \in Nat /\ events' \in Seq(Event)
      BY <3>1 DEF TypeOK
    <3>5. StopIsLast'
      <4>1. ASSUME NEW i \in DOMAIN due', due'[i].kind = "stop"
            PROVE  i = Len(due') /\ due'[i].by = at /\ phase = "stopped"
        <5>1. i + 1 \in DOMAIN due /\ due'[i] = due[i + 1]
          BY <3>3
        <5> QED BY <3>3, <4>1, <5>1 DEF IInv, StopIsLast
      <4>2. ASSUME NEW i \in DOMAIN events', events'[i].kind = "stop"
            PROVE  i = Len(events') /\ events'[i].by = at /\ phase = "stopped" /\ due' = <<>>
        <5>1. /\ DOMAIN events' = 1 .. Len(events) + 1 /\ DOMAIN events = 1 .. Len(events)
              /\ 1 \in DOMAIN due
          BY <3>3, <3>4 DEF TypeOK
        <5>2. i = Len(events')
          <6>1. i \notin DOMAIN events
            BY <3>2, <3>4, <4>2, <5>1
          <6> QED BY <3>4, <4>2, <5>1, <6>1
        <5>3. events'[i] = due[1]
          BY <3>4, <5>2
        <5>4. 1 = Len(due) /\ due[1].by = at /\ phase = "stopped"
          BY <4>2, <5>1, <5>3 DEF IInv, StopIsLast
        <5> QED BY <3>3, <5>2, <5>3, <5>4
      <4> QED BY <3>1, <4>1, <4>2 DEF StopIsLast
    <3>6. StoppedByStop'
      <4>1. phase = "stopped" => due[Len(due)].kind = "stop"
        BY <3>1 DEF IInv, StoppedByStop
      <4> QED BY <3>1, <3>3, <3>4, <4>1 DEF StoppedByStop
    <3>7. EndsByPhase'
      <4>1. None \notin Errors /\ None # "ok"
        BY StreamAssumption DEF Results, Errors
      <4> QED BY <3>1, <4>1 DEF EndsByPhase
    <3> QED BY <3>5, <3>6, <3>7 DEF IInv
  <2>13. CASE Abandon
    <3>1. result' = "abandoned" /\ UNCHANGED <<at, phase, due, events>>
      BY <2>13 DEF Abandon, decoder
    <3>2. "abandoned" \notin Errors
      BY DEF Errors, ProviderErrors
    <3> QED BY <3>1, <3>2 DEF IInv, StopIsLast, StoppedByStop, EndsByPhase
  <2>14. CASE UNCHANGED vars
    BY <2>14 DEF vars, decoder, IInv, StopIsLast, StoppedByStop, EndsByPhase
  <2> QED
    BY <2>2, <2>3, <2>4, <2>5, <2>6, <2>7, <2>8, <2>9, <2>10, <2>11, <2>12, <2>13, <2>14, GeminiChunksType
       DEF Next
<1> QED BY <1>1, <1>2, TypeCorrect, PTL DEF Spec

(* StopEndsTheStream, of chat_stream() and the decoders: whatever the SDKs *)
(* deliver and wherever they raise, a MessageStop is the last event, and   *)
(* only an answer that came to its end has one.                            *)
THEOREM StreamsAreClosed == Spec => []StopEndsTheStream
<1>1. TypeOK /\ IInv => StopEndsTheStream
  <2> SUFFICES ASSUME TypeOK, IInv PROVE StopEndsTheStream
    OBVIOUS
  <2>1. result \in Errors => OfLast("stop") = {}
    BY DEF OfLast, IInv, StopIsLast, EndsByPhase
  <2>2. result = "ok" => events # <<>> /\ Last(events).kind = "stop"
    BY DEF IInv, StoppedByStop, EndsByPhase, Last
  <2> QED BY <2>1, <2>2 DEF IInv, StopIsLast, StopEndsTheStream, Errors
<1> QED BY <1>1, TypeCorrect, IInvHolds, PTL

-------------------------------------------------------------------------------
(* The calls of a stream *)

(* What a stream is: what was delivered and what is due.                   *)
Stream == events \o due

StartsOf(s, p) == {i \in DOMAIN s : s[i].by = p /\ s[i].kind = "start"}

AboutsOf(s, p) == {s[i].about : i \in StartsOf(s, p)}

Ordered(s, p) == \A i, j \in StartsOf(s, p) : i < j => s[i].about < s[j].about

Starts(e, f) == e.kind = "start" /\ e.by = f.by /\ e.about = f.about

Followed(s) ==
  \A i \in DOMAIN s : s[i].kind = "args" =>
    \E j \in 1 .. i - 1 :
      Starts(s[j], s[i]) /\ \A k \in j + 1 .. i - 1 : s[k].kind # "start"

(* The last call that was started in s is the one of e. *)
LastStarted(s, e) ==
  \E j \in DOMAIN s : Starts(s[j], e) /\ \A k \in j + 1 .. Len(s) : s[k].kind # "start"

(* What is said of the calls: by Claude and Gemini at once, by Ollama with *)
(* its last chunk.                                                         *)
CallsAreTold ==
  /\ \A i \in DOMAIN Stream : Stream[i].by <= at
  /\ AboutsOf(Stream, at) \subseteq Calls(said)
  /\ Provider # "ollama" => Calls(said) \subseteq AboutsOf(Stream, at)
  /\ Provider = "ollama" /\ phase # "stopped" => AboutsOf(Stream, at) = {}
  /\ Ordered(Stream, at)

ArgumentsAreNear ==
  /\ Followed(Stream)
  /\ Provider = "claude" /\ said # <<>> /\ said[Len(said)].kind = "call" =>
       LastStarted(Stream, ToolUseDelta(Len(said)))

(* The reason that a decoder has, and that it gives.                       *)
Tells(reason, called) ==
  /\ reason = "tool_use" => called
  /\ called => reason \in {"tool_use", "max_tokens", "error"}

ReasonIsKept ==
  /\ phase = "opening" => said = <<>> /\ ~saw /\ due = <<>>
  /\ phase \in {"opening", "reading"} => stop = "end_turn"
  /\ phase = "stopping" => Provider # "ollama" /\ Tells(stop, Calls(said) # {})
  /\ Provider = "gemini" /\ phase = "reading" => (saw <=> Calls(said) # {})
  /\ phase = "stopped" =>
       /\ Stream # <<>>
       /\ Stream[Len(Stream)].reason = "tool_use" => AboutsOf(Stream, at) # {}
       /\ ~cut => Tells(Stream[Len(Stream)].reason, AboutsOf(Stream, at) # {})

CInv == CallsAreTold /\ ArgumentsAreNear /\ ReasonIsKept

(* Two sequences of events, one after the other. *)
Joined(u, s, t) ==
  /\ Len(s) \in Nat /\ Len(t) \in Nat
  /\ DOMAIN s = 1 .. Len(s) /\ DOMAIN t = 1 .. Len(t) /\ DOMAIN u = 1 .. Len(s) + Len(t)
  /\ \A i \in 1 .. Len(s) : u[i] = s[i]
  /\ \A i \in 1 .. Len(t) : u[Len(s) + i] = t[i]

(* Concatenation joins.                                                    *)
LEMMA ConcatJoined ==
  ASSUME NEW s \in Seq(Event), NEW t \in Seq(Event)
  PROVE  Joined(s \o t, s, t)
BY DEF Joined

(* What is started by two sequences, what it is about, its order and the  *)
(* place of the arguments.                                                *)
LEMMA JoinedStarts ==
  ASSUME NEW s, NEW t, NEW p, NEW u, Joined(u, s, t)
  PROVE  /\ \A i \in StartsOf(u, p) :
              \/ i \in StartsOf(s, p) /\ u[i] = s[i]
              \/ i - Len(s) \in StartsOf(t, p) /\ u[i] = t[i - Len(s)]
         /\ \A i \in StartsOf(s, p) : i \in StartsOf(u, p) /\ u[i] = s[i]
         /\ \A i \in StartsOf(t, p) : Len(s) + i \in StartsOf(u, p) /\ u[Len(s) + i] = t[i]
<1>1. /\ Len(s) \in Nat /\ Len(t) \in Nat
      /\ DOMAIN s = 1 .. Len(s) /\ DOMAIN t = 1 .. Len(t) /\ DOMAIN u = 1 .. Len(s) + Len(t)
      /\ \A i \in 1 .. Len(s) : u[i] = s[i]
      /\ \A i \in 1 .. Len(t) : u[Len(s) + i] = t[i]
  BY DEF Joined
<1>2. ASSUME NEW i \in StartsOf(u, p)
      PROVE  \/ i \in StartsOf(s, p) /\ u[i] = s[i]
             \/ i - Len(s) \in StartsOf(t, p) /\ u[i] = t[i - Len(s)]
  <2>1. CASE i \in 1 .. Len(s)
    BY <1>1, <2>1 DEF StartsOf
  <2>2. CASE i \notin 1 .. Len(s)
    <3>1. i \in 1 .. Len(s) + Len(t)
      BY <1>1 DEF StartsOf
    <3>2. i - Len(s) \in 1 .. Len(t) /\ Len(s) + (i - Len(s)) = i
      BY <1>1, <2>2, <3>1
    <3>3. u[i] = t[i - Len(s)]
      BY <1>1, <3>2
    <3> QED BY <1>1, <3>2, <3>3 DEF StartsOf
  <2> QED BY <2>1, <2>2
<1>3. \A i \in StartsOf(s, p) : i \in StartsOf(u, p) /\ u[i] = s[i]
  BY <1>1 DEF StartsOf
<1>4. \A i \in StartsOf(t, p) : Len(s) + i \in StartsOf(u, p) /\ u[Len(s) + i] = t[i]
  BY <1>1 DEF StartsOf
<1> QED BY <1>2, <1>3, <1>4

LEMMA JoinedAbouts ==
  ASSUME NEW s, NEW t, NEW p, NEW u, Joined(u, s, t)
  PROVE  AboutsOf(u, p) = AboutsOf(s, p) \cup AboutsOf(t, p)
<1>1. /\ \A i \in StartsOf(u, p) :
           \/ i \in StartsOf(s, p) /\ u[i] = s[i]
           \/ i - Len(s) \in StartsOf(t, p) /\ u[i] = t[i - Len(s)]
      /\ \A i \in StartsOf(s, p) : i \in StartsOf(u, p) /\ u[i] = s[i]
      /\ \A i \in StartsOf(t, p) : Len(s) + i \in StartsOf(u, p) /\ u[Len(s) + i] = t[i]
  BY JoinedStarts
<1>2. AboutsOf(u, p) \subseteq AboutsOf(s, p) \cup AboutsOf(t, p)
  BY <1>1 DEF AboutsOf
<1>3. AboutsOf(s, p) \subseteq AboutsOf(u, p)
  BY <1>1 DEF AboutsOf
<1>4. AboutsOf(t, p) \subseteq AboutsOf(u, p)
  BY <1>1 DEF AboutsOf
<1> QED BY <1>2, <1>3, <1>4

LEMMA JoinedOrdered ==
  ASSUME NEW s, NEW t, NEW p, NEW u, Joined(u, s, t),
         Ordered(s, p), Ordered(t, p),
         \A x \in AboutsOf(s, p), y \in AboutsOf(t, p) : x < y
  PROVE  Ordered(u, p)
<1> SUFFICES ASSUME NEW i \in StartsOf(u, p), NEW j \in StartsOf(u, p), i < j
             PROVE  u[i].about < u[j].about
  BY DEF Ordered
<1>1. /\ StartsOf(s, p) \subseteq 1 .. Len(s) /\ StartsOf(t, p) \subseteq 1 .. Len(t)
      /\ StartsOf(u, p) \subseteq 1 .. Len(s) + Len(t) /\ Len(s) \in Nat /\ Len(t) \in Nat
  BY DEF StartsOf, Joined
<1>2. \A k \in StartsOf(u, p) : \/ k \in StartsOf(s, p) /\ u[k] = s[k]
                                \/ k - Len(s) \in StartsOf(t, p) /\ u[k] = t[k - Len(s)]
  BY JoinedStarts
<1>3. CASE i \in StartsOf(s, p) /\ u[i] = s[i] /\ j \in StartsOf(s, p) /\ u[j] = s[j]
  BY <1>3 DEF Ordered
<1>4. CASE i \in StartsOf(s, p) /\ u[i] = s[i] /\ j - Len(s) \in StartsOf(t, p) /\ u[j] = t[j - Len(s)]
  BY <1>4 DEF AboutsOf
<1>5. CASE i - Len(s) \in StartsOf(t, p) /\ u[i] = t[i - Len(s)]
           /\ j - Len(s) \in StartsOf(t, p) /\ u[j] = t[j - Len(s)]
  <2>1. i - Len(s) < j - Len(s)
    BY <1>1
  <2> QED BY <1>5, <2>1 DEF Ordered
<1>6. ~(i - Len(s) \in StartsOf(t, p) /\ j \in StartsOf(s, p))
  BY <1>1
<1> QED BY <1>2, <1>3, <1>4, <1>5, <1>6

LEMMA JoinedFollowed ==
  ASSUME NEW s, NEW t, NEW u, Joined(u, s, t), Followed(s), Followed(t)
  PROVE  Followed(u)
<1>1. /\ Len(s) \in Nat /\ Len(t) \in Nat
      /\ DOMAIN s = 1 .. Len(s) /\ DOMAIN t = 1 .. Len(t) /\ DOMAIN u = 1 .. Len(s) + Len(t)
      /\ \A i \in 1 .. Len(s) : u[i] = s[i]
      /\ \A i \in 1 .. Len(t) : u[Len(s) + i] = t[i]
  BY DEF Joined
<1> SUFFICES ASSUME NEW i \in DOMAIN u, u[i].kind = "args"
             PROVE  \E j \in 1 .. i - 1 :
                      Starts(u[j], u[i]) /\ \A k \in j + 1 .. i - 1 : u[k].kind # "start"
  BY DEF Followed
<1>2. CASE i \in 1 .. Len(s)
  <2>1. PICK j \in 1 .. i - 1 : Starts(s[j], s[i]) /\ \A k \in j + 1 .. i - 1 : s[k].kind # "start"
    BY <1>1, <1>2 DEF Followed
  <2>2. \A k \in 1 .. i : k \in 1 .. Len(s)
    BY <1>1, <1>2
  <2>3. Starts(u[j], u[i]) /\ \A k \in j + 1 .. i - 1 : u[k].kind # "start"
    BY <1>1, <2>1, <2>2
  <2> QED BY <2>3
<1>3. CASE i \notin 1 .. Len(s)
  <2> DEFINE n == i - Len(s)
  <2>1. n \in 1 .. Len(t) /\ u[i] = t[n] /\ i = Len(s) + n
    BY <1>1, <1>3
  <2>2. PICK j \in 1 .. n - 1 : Starts(t[j], t[n]) /\ \A k \in j + 1 .. n - 1 : t[k].kind # "start"
    BY <1>1, <2>1 DEF Followed
  <2> HIDE DEF n
  <2>3. Len(s) + j \in 1 .. i - 1 /\ u[Len(s) + j] = t[j]
    BY <1>1, <2>1
  <2>4. ASSUME NEW k \in Len(s) + j + 1 .. i - 1 PROVE u[k].kind # "start"
    <3>1. k - Len(s) \in j + 1 .. n - 1 /\ k - Len(s) \in 1 .. Len(t) /\ Len(s) + (k - Len(s)) = k
      BY <1>1, <2>1, <2>4
    <3> QED BY <1>1, <2>2, <3>1
  <2> QED BY <2>1, <2>2, <2>3, <2>4
<1> QED BY <1>2, <1>3

(* The arguments of the last call that was started. *)
LEMMA AppendFollowed ==
  ASSUME NEW s \in Seq(Event), NEW e \in Event, Followed(s), LastStarted(s, e)
  PROVE  Followed(s \o <<e>>)
<1> DEFINE u == s \o <<e>>
<1>1. /\ Len(s) \in Nat /\ DOMAIN s = 1 .. Len(s) /\ DOMAIN u = 1 .. Len(s) + 1
      /\ \A i \in 1 .. Len(s) : u[i] = s[i]
      /\ u[Len(s) + 1] = e
  OBVIOUS
<1> HIDE DEF u
<1> SUFFICES ASSUME NEW i \in DOMAIN u, u[i].kind = "args"
             PROVE  \E j \in 1 .. i - 1 :
                      Starts(u[j], u[i]) /\ \A k \in j + 1 .. i - 1 : u[k].kind # "start"
  BY DEF Followed, u
<1>2. CASE i \in 1 .. Len(s)
  <2>1. PICK j \in 1 .. i - 1 : Starts(s[j], s[i]) /\ \A k \in j + 1 .. i - 1 : s[k].kind # "start"
    BY <1>1, <1>2 DEF Followed
  <2>2. \A k \in 1 .. i : k \in 1 .. Len(s)
    BY <1>1, <1>2
  <2>3. Starts(u[j], u[i]) /\ \A k \in j + 1 .. i - 1 : u[k].kind # "start"
    BY <1>1, <2>1, <2>2
  <2> QED BY <2>3
<1>3. CASE i = Len(s) + 1
  <2>1. PICK j \in DOMAIN s : Starts(s[j], e) /\ \A k \in j + 1 .. Len(s) : s[k].kind # "start"
    BY DEF LastStarted
  <2>2. Starts(u[j], u[i]) /\ j \in 1 .. i - 1 /\ \A k \in j + 1 .. i - 1 : u[k].kind # "start"
    BY <1>1, <1>3, <2>1
  <2> QED BY <2>2
<1> QED BY <1>1, <1>2, <1>3

(* An event that is handed over leaves the stream as it is. *)
LEMMA DeliverStream ==
  ASSUME TypeOK, Deliver
  PROVE  Stream' = Stream /\ Stream \in Seq(Event)
<1>1. /\ due \in Seq(Event) /\ due # <<>> /\ events \in Seq(Event)
      /\ events' = Append(events, Head(due)) /\ due' = Tail(due)
  BY DEF Deliver, TypeOK
<1>2. /\ Head(due) = due[1] /\ Tail(due) \in Seq(Event) /\ Len(Tail(due)) = Len(due) - 1
      /\ \A i \in 1 .. Len(Tail(due)) : Tail(due)[i] = due[i + 1]
      /\ Len(due) \in Nat \ {0} /\ due[1] \in Event
  BY <1>1, HeadTailProperties, EmptySeq
<1> DEFINE a == Append(events, due[1])
           b == Tail(due)
<1>3. /\ a \in Seq(Event) /\ Len(a) = Len(events) + 1 /\ a[Len(events) + 1] = due[1]
      /\ \A i \in 1 .. Len(events) : a[i] = events[i]
  BY <1>1, <1>2
<1>4. b \in Seq(Event) /\ Len(b) = Len(due) - 1 /\ \A i \in 1 .. Len(b) : b[i] = due[i + 1]
  BY <1>2
<1>5. Joined(a \o b, a, b) /\ a \o b \in Seq(Event)
  <2> HIDE DEF a, b
  <2> QED BY <1>3, <1>4, ConcatJoined
<1>6. Joined(events \o due, events, due) /\ events \o due \in Seq(Event)
  BY <1>1, ConcatJoined
<1> DEFINE u == a \o b
           v == events \o due
<1>7. u \in Seq(Event) /\ v \in Seq(Event) /\ Joined(u, a, b) /\ Joined(v, events, due)
  BY <1>5, <1>6
<1>8. u = v
  <2> HIDE DEF a, b, u, v
  <2>1. Len(u) = Len(v)
    BY <1>2, <1>3, <1>4, <1>7 DEF Joined
  <2>2. ASSUME NEW i \in 1 .. Len(u) PROVE u[i] = v[i]
    <3>0. Len(u) = Len(events) + Len(due) /\ Len(events) \in Nat /\ Len(due) \in Nat \ {0}
      BY <1>2, <1>7, <2>1 DEF Joined
    <3>1. CASE i \in 1 .. Len(events)
      <4>1. u[i] = a[i] /\ v[i] = events[i]
        BY <1>3, <1>7, <3>0, <3>1 DEF Joined
      <4> QED BY <1>3, <3>1, <4>1
    <3>2. CASE i = Len(events) + 1
      <4>1. u[i] = a[i] /\ v[i] = due[1]
        BY <1>3, <1>7, <3>0, <3>2 DEF Joined
      <4> QED BY <1>3, <3>2, <4>1
    <3>3. CASE i > Len(events) + 1
      <4> DEFINE n == i - Len(events) - 1
      <4>1. n \in 1 .. Len(b) /\ i = Len(a) + n /\ n + 1 \in 1 .. Len(due) /\ i = Len(events) + (n + 1)
        BY <1>3, <1>4, <3>0, <3>3
      <4> HIDE DEF n
      <4>2. u[i] = b[n] /\ v[i] = due[n + 1]
        BY <1>7, <4>1 DEF Joined
      <4> QED BY <1>4, <4>1, <4>2
    <3> QED BY <3>0, <3>1, <3>2, <3>3
  <2> QED BY <1>7, <2>1, <2>2, SeqEqual
<1> QED BY <1>1, <1>2, <1>6, <1>8 DEF Stream

(* Nothing was due: the stream goes on with the events of a chunk. *)
LEMMA ChunkStream ==
  ASSUME TypeOK, due = <<>>, events' = events, due' \in Seq(Event)
  PROVE  /\ Stream \in Seq(Event) /\ Stream' \in Seq(Event)
         /\ Joined(Stream', Stream, due')
         /\ Stream = events /\ Stream' = events \o due'
<1>1. events \in Seq(Event)
  BY DEF TypeOK
<1>2. Stream = events
  BY <1>1 DEF Stream
<1>3. Stream' = events \o due'
  BY DEF Stream
<1> QED BY <1>1, <1>2, <1>3, ConcatJoined

(* A decoder that tells of blocks behind those it had told of. *)
LEMMA ChunkTells ==
  ASSUME TypeOK, CallsAreTold, due = <<>>, UNCHANGED <<chain, at, events>>, due' \in Seq(Event),
         \A i \in DOMAIN due' : due'[i].by = at,
         Ordered(due', at),
         \A n \in AboutsOf(due', at) : n > Len(said),
         Calls(said) \cup AboutsOf(due', at) \subseteq Calls(said'),
         Provider # "ollama" => Calls(said') \subseteq Calls(said) \cup AboutsOf(due', at),
         Provider = "ollama" => phase # "stopped",
         Provider = "ollama" /\ phase' # "stopped" => AboutsOf(due', at) = {}
  PROVE  CallsAreTold'
<1>1. Joined(Stream', Stream, due') /\ Stream \in Seq(Event) /\ Stream' \in Seq(Event)
  BY ChunkStream
<1>2. AboutsOf(Stream', at) = AboutsOf(Stream, at) \cup AboutsOf(due', at)
  BY <1>1, JoinedAbouts
<1>3. Provider' = Provider /\ at' = at
  BY DEF Provider
<1>4. \A n \in AboutsOf(Stream, at) : n \in Nat /\ n <= Len(said)
  <2>1. \A n \in Calls(said) : n \in Nat /\ n <= Len(said)
    BY DEF Calls, TypeOK
  <2> QED BY <2>1 DEF CallsAreTold
<1>5. \A n \in AboutsOf(due', at) : n \in Nat
  <2>1. \A i \in DOMAIN due' : due'[i] \in Event
    OBVIOUS
  <2> QED BY <2>1 DEF AboutsOf, StartsOf, Event
<1>6. Ordered(Stream', at)
  <2>1. Len(said) \in Nat
    BY DEF TypeOK
  <2>2. \A x \in AboutsOf(Stream, at), y \in AboutsOf(due', at) : x < y
    BY <1>4, <1>5, <2>1
  <2>3. Ordered(Stream, at)
    BY DEF CallsAreTold
  <2> QED BY <1>1, <2>2, <2>3, JoinedOrdered
<1>7. \A i \in DOMAIN Stream' : Stream'[i].by <= at
  <2>1. ASSUME NEW i \in DOMAIN Stream' PROVE Stream'[i].by <= at
    <3>1. at \in Nat
      BY StreamAssumption DEF TypeOK
    <3>2. CASE i \in DOMAIN Stream
      BY <1>1, <3>2 DEF Joined, CallsAreTold
    <3>3. CASE i \notin DOMAIN Stream
      <4>1. i - Len(Stream) \in DOMAIN due' /\ Len(Stream) + (i - Len(Stream)) = i
        BY <1>1, <3>3 DEF Joined
      <4>2. Stream'[i] = due'[i - Len(Stream)]
        BY <1>1, <4>1 DEF Joined
      <4> QED BY <3>1, <4>1, <4>2
    <3> QED BY <3>2, <3>3
  <2> QED BY <2>1
<1> QED BY <1>2, <1>3, <1>6, <1>7 DEF CallsAreTold

(* A chunk of no event, or of one. *)
LEMMA FewEvents ==
  ASSUME NEW p
  PROVE  /\ AboutsOf(<<>>, p) = {} /\ Ordered(<<>>, p) /\ Followed(<<>>)
         /\ \A e \in Event :
              /\ <<e>> \in Seq(Event) /\ DOMAIN <<e>> = {1} /\ Len(<<e>>) = 1 /\ <<e>>[1] = e
              /\ AboutsOf(<<e>>, p) = IF e.kind = "start" /\ e.by = p THEN {e.about} ELSE {}
              /\ Ordered(<<e>>, p)
              /\ e.kind # "args" => Followed(<<e>>)
<1>1. AboutsOf(<<>>, p) = {} /\ Ordered(<<>>, p) /\ Followed(<<>>)
  BY DEF AboutsOf, StartsOf, Ordered, Followed
<1>2. ASSUME NEW e \in Event
      PROVE  /\ <<e>> \in Seq(Event) /\ DOMAIN <<e>> = {1} /\ Len(<<e>>) = 1 /\ <<e>>[1] = e
             /\ AboutsOf(<<e>>, p) = IF e.kind = "start" /\ e.by = p THEN {e.about} ELSE {}
             /\ Ordered(<<e>>, p)
             /\ e.kind # "args" => Followed(<<e>>)
  <2> DEFINE s == <<e>>
  <2>1. s \in Seq(Event) /\ DOMAIN s = {1} /\ Len(s) = 1 /\ s[1] = e
    OBVIOUS
  <2> HIDE DEF s
  <2>2. StartsOf(s, p) = IF e.kind = "start" /\ e.by = p THEN {1} ELSE {}
    BY <2>1 DEF StartsOf
  <2>3. AboutsOf(s, p) = IF e.kind = "start" /\ e.by = p THEN {e.about} ELSE {}
    BY <2>1, <2>2 DEF AboutsOf
  <2>4. Ordered(s, p)
    BY <2>2 DEF Ordered
  <2>5. e.kind # "args" => Followed(s)
    BY <2>1 DEF Followed
  <2> QED BY <2>1, <2>3, <2>4, <2>5 DEF s
<1> QED BY <1>1, <1>2

(* The calls of an answer that goes on. *)
LEMMA MoreCalls ==
  ASSUME NEW s \in Seq(Block), NEW t \in Seq(Block)
  PROVE  Calls(s \o t) = Calls(s) \cup {Len(s) + i : i \in Calls(t)}
<1> DEFINE u == s \o t
<1>1. /\ Len(s) \in Nat /\ Len(t) \in Nat
      /\ DOMAIN s = 1 .. Len(s) /\ DOMAIN t = 1 .. Len(t) /\ DOMAIN u = 1 .. Len(s) + Len(t)
      /\ \A i \in 1 .. Len(s) : u[i] = s[i]
      /\ \A i \in 1 .. Len(t) : u[Len(s) + i] = t[i]
  OBVIOUS
<1> HIDE DEF u
<1>2. ASSUME NEW i \in Calls(u) PROVE i \in Calls(s) \cup {Len(s) + k : k \in Calls(t)}
  <2>1. CASE i \in 1 .. Len(s)
    BY <1>1, <2>1 DEF Calls
  <2>2. CASE i \notin 1 .. Len(s)
    <3>1. i - Len(s) \in 1 .. Len(t) /\ i = Len(s) + (i - Len(s))
      BY <1>1, <2>2 DEF Calls
    <3>2. i - Len(s) \in Calls(t)
      BY <1>1, <3>1 DEF Calls
    <3> QED BY <3>1, <3>2
  <2> QED BY <2>1, <2>2
<1>3. ASSUME NEW k \in Calls(t) PROVE Len(s) + k \in Calls(u)
  BY <1>1 DEF Calls
<1>4. Calls(s) \subseteq Calls(u)
  BY <1>1 DEF Calls
<1> QED BY <1>2, <1>3, <1>4 DEF u

(* A chunk of Gemini tells of the calls it has. *)
LEMMA GeminiTells ==
  ASSUME TypeOK, NEW kinds \in Seq({"text", "call"})
  PROVE  /\ AboutsOf(GeminiEvents(kinds), at) = {Len(said) + i : i \in {n \in DOMAIN kinds : kinds[n] = "call"}}
         /\ Ordered(GeminiEvents(kinds), at)
         /\ Followed(GeminiEvents(kinds))
         /\ \A i \in DOMAIN GeminiEvents(kinds) : GeminiEvents(kinds)[i].by = at
<1> DEFINE s == GeminiEvents(kinds)
<1>1. /\ Len(said) \in Nat /\ Len(kinds) \in Nat
      /\ DOMAIN s = 1 .. Len(kinds) /\ DOMAIN kinds = 1 .. Len(kinds)
      /\ \A i \in 1 .. Len(kinds) :
           /\ s[i].by = at /\ s[i].about = Len(said) + i
           /\ s[i].kind = IF kinds[i] = "call" THEN "start" ELSE "text"
  BY DEF TypeOK, GeminiEvents, ToolUseStart, TextDelta
<1> HIDE DEF s
<1>2. StartsOf(s, at) = {n \in DOMAIN kinds : kinds[n] = "call"}
  BY <1>1 DEF StartsOf
<1>3. AboutsOf(s, at) = {Len(said) + i : i \in {n \in DOMAIN kinds : kinds[n] = "call"}}
  BY <1>1, <1>2 DEF AboutsOf
<1>4. Ordered(s, at)
  BY <1>1, <1>2 DEF Ordered
<1>5. Followed(s)
  BY <1>1 DEF Followed
<1> QED BY <1>1, <1>3, <1>4, <1>5 DEF s

(* The last chunk of Ollama tells of the calls it has, each with its      *)
(* arguments.                                                             *)
LEMMA OllamaCallsTell ==
  ASSUME at \in Nat, NEW first \in Nat, NEW calls \in Nat
  PROVE  /\ OllamaCalls(first, calls) \in Seq(Event)
         /\ AboutsOf(OllamaCalls(first, calls), at) = first + 1 .. first + calls
         /\ Ordered(OllamaCalls(first, calls), at)
         /\ Followed(OllamaCalls(first, calls))
         /\ \A i \in DOMAIN OllamaCalls(first, calls) : OllamaCalls(first, calls)[i].by = at
<1> DEFINE s == OllamaCalls(first, calls)
<1>1. DOMAIN s = 1 .. 2 * calls /\ 2 * calls \in Nat
  BY DEF OllamaCalls
<1>2. ASSUME NEW m \in 1 .. calls
      PROVE  /\ 2 * m - 1 \in DOMAIN s /\ 2 * m \in DOMAIN s
             /\ s[2 * m - 1] = ToolUseStart(first + m) /\ s[2 * m] = ToolUseDelta(first + m)
  <2>1. /\ 2 * m - 1 \in 1 .. 2 * calls /\ 2 * m \in 1 .. 2 * calls
        /\ (2 * m - 1) % 2 = 1 /\ (2 * m) % 2 = 0
        /\ (2 * m - 1) \div 2 = m - 1 /\ (2 * m) \div 2 = m
        /\ first + (m - 1) + 1 = first + m
    OBVIOUS
  <2>2. s[2 * m - 1] = ToolUseStart(first + m)
    BY <2>1 DEF OllamaCalls
  <2>3. s[2 * m] = ToolUseDelta(first + m)
    BY <2>1 DEF OllamaCalls
  <2> QED BY <1>1, <2>1, <2>2, <2>3
<1>3. \A k \in 1 .. 2 * calls : \E m \in 1 .. calls : k = 2 * m - 1 \/ k = 2 * m
  <2> SUFFICES ASSUME NEW k \in 1 .. 2 * calls PROVE \E m \in 1 .. calls : k = 2 * m - 1 \/ k = 2 * m
    OBVIOUS
  <2>1. CASE k % 2 = 1
    <3>1. (k + 1) \div 2 \in 1 .. calls /\ k = 2 * ((k + 1) \div 2) - 1
      BY <2>1
    <3> QED BY <3>1
  <2>2. CASE k % 2 # 1
    <3>1. k \div 2 \in 1 .. calls /\ k = 2 * (k \div 2)
      BY <2>2
    <3> QED BY <3>1
  <2> QED BY <2>1, <2>2
<1>4. \A i \in Nat : /\ ToolUseStart(i) \in Event /\ ToolUseStart(i).kind = "start"
                     /\ ToolUseStart(i).by = at /\ ToolUseStart(i).about = i
                     /\ ToolUseDelta(i) \in Event /\ ToolUseDelta(i).kind = "args"
                     /\ ToolUseDelta(i).by = at /\ ToolUseDelta(i).about = i
  BY DEF ToolUseStart, ToolUseDelta, Event
<1>5. s = [k \in 1 .. 2 * calls |-> s[k]]
  BY DEF OllamaCalls
<1> HIDE DEF s
<1>6. \A m \in 1 .. calls : first + m \in Nat
  OBVIOUS
<1>7. \A k \in 1 .. 2 * calls : s[k] \in Event /\ s[k].by = at
  <2> SUFFICES ASSUME NEW k \in 1 .. 2 * calls PROVE s[k] \in Event /\ s[k].by = at
    OBVIOUS
  <2>1. PICK m \in 1 .. calls : k = 2 * m - 1 \/ k = 2 * m
    BY <1>3
  <2>2. s[k] \in {ToolUseStart(first + m), ToolUseDelta(first + m)}
    BY <1>2, <2>1
  <2> QED BY <1>4, <1>6, <2>2
<1>8. s \in Seq(Event)
  <2>1. s \in [1 .. 2 * calls -> Event]
    BY <1>5, <1>7
  <2> QED BY <1>1, <2>1
<1>9. StartsOf(s, at) = {2 * m - 1 : m \in 1 .. calls}
  <2>1. ASSUME NEW m \in 1 .. calls PROVE 2 * m - 1 \in StartsOf(s, at)
    BY <1>2, <1>4, <1>6 DEF StartsOf
  <2>2. ASSUME NEW k \in StartsOf(s, at) PROVE \E m \in 1 .. calls : k = 2 * m - 1
    <3>1. k \in 1 .. 2 * calls /\ s[k].kind = "start"
      BY <1>1 DEF StartsOf
    <3>2. PICK m \in 1 .. calls : k = 2 * m - 1 \/ k = 2 * m
      BY <1>3, <3>1
    <3>3. s[2 * m].kind = "args"
      BY <1>2, <1>4, <1>6
    <3> QED BY <3>1, <3>2, <3>3
  <2> QED BY <2>1, <2>2
<1>10. AboutsOf(s, at) = first + 1 .. first + calls
  <2>1. AboutsOf(s, at) \subseteq first + 1 .. first + calls
    BY <1>2, <1>4, <1>6, <1>9 DEF AboutsOf
  <2>2. ASSUME NEW n \in first + 1 .. first + calls PROVE n \in AboutsOf(s, at)
    <3> DEFINE m == n - first
    <3>1. m \in 1 .. calls /\ first + m = n
      OBVIOUS
    <3> HIDE DEF m
    <3>2. 2 * m - 1 \in StartsOf(s, at) /\ s[2 * m - 1].about = n
      BY <1>2, <1>4, <1>6, <1>9, <3>1
    <3> QED BY <3>2 DEF AboutsOf
  <2> QED BY <2>1, <2>2
<1>11. Ordered(s, at)
  <2> SUFFICES ASSUME NEW i \in StartsOf(s, at), NEW j \in StartsOf(s, at), i < j
               PROVE  s[i].about < s[j].about
    BY DEF Ordered
  <2>1. PICK m \in 1 .. calls : i = 2 * m - 1
    BY <1>9
  <2>2. PICK n \in 1 .. calls : j = 2 * n - 1
    BY <1>9
  <2>3. m < n
    BY <2>1, <2>2
  <2>4. s[i].about = first + m /\ s[j].about = first + n
    BY <1>2, <1>4, <1>6, <2>1, <2>2
  <2> QED BY <2>3, <2>4
<1>12. Followed(s)
  <2> SUFFICES ASSUME NEW i \in DOMAIN s, s[i].kind = "args"
               PROVE  \E j \in 1 .. i - 1 :
                        Starts(s[j], s[i]) /\ \A k \in j + 1 .. i - 1 : s[k].kind # "start"
    BY DEF Followed
  <2>1. PICK m \in 1 .. calls : i = 2 * m - 1 \/ i = 2 * m
    BY <1>1, <1>3
  <2>2. i = 2 * m
    BY <1>2, <1>4, <1>6, <2>1
  <2>3. Starts(s[i - 1], s[i])
    BY <1>2, <1>4, <1>6, <2>2 DEF Starts
  <2>4. i - 1 \in 1 .. i - 1 /\ \A k \in (i - 1) + 1 .. i - 1 : s[k].kind # "start"
    BY <1>1, <2>2
  <2> QED BY <2>3, <2>4
<1> QED BY <1>1, <1>7, <1>8, <1>10, <1>11, <1>12 DEF s

(* What a chunk of Ollama has, and what its events tell of it. *)
LEMMA OllamaBlocksType ==
  ASSUME NEW text \in {None, "text", "json"}, NEW calls \in Nat, NEW done \in BOOLEAN
  PROVE  /\ OllamaBlocks(text, calls, done) \in Seq(Block)
         /\ Calls(OllamaBlocks(text, calls, done)) =
              (IF text = None THEN 0 ELSE 1) + 1 .. (IF text = None THEN 0 ELSE 1) + calls
<1> DEFINE n == (IF text = None THEN 0 ELSE 1) + calls
           s == OllamaBlocks(text, calls, done)
<1>1. n \in Nat
  OBVIOUS
<1>2. s = [i \in 1 .. n |-> [kind |-> IF i = 1 /\ text # None THEN text ELSE "call", final |-> done]]
  BY DEF OllamaBlocks
<1>3. \A i \in 1 .. n :
        [kind |-> IF i = 1 /\ text # None THEN text ELSE "call", final |-> done] \in Block
  BY DEF Block, Kinds
<1>4. s \in Seq(Block)
  <2> HIDE DEF n, s
  <2> QED BY <1>1, <1>2, <1>3
<1>5. DOMAIN s = 1 .. n /\ \A i \in 1 .. n : s[i].kind = IF i = 1 /\ text # None THEN text ELSE "call"
  <2> HIDE DEF n, s
  <2> QED BY <1>2
<1>6. Calls(s) = (IF text = None THEN 0 ELSE 1) + 1 .. n
  <2> HIDE DEF s
  <2>1. CASE text = None
    <3>1. n = calls /\ \A i \in 1 .. n : s[i].kind = "call"
      BY <1>5, <2>1
    <3> QED BY <1>5, <2>1, <3>1 DEF Calls
  <2>2. CASE text # None
    <3>1. n = calls + 1 /\ \A i \in 1 .. n : s[i].kind = "call" <=> i # 1
      BY <1>5, <2>2
    <3> QED BY <1>5, <2>2, <3>1 DEF Calls
  <2> QED BY <2>1, <2>2
<1> QED BY <1>4, <1>6

(* Only the last chunk of Ollama tells of its calls, and says so. *)
LEMMA OllamaTells ==
  ASSUME TypeOK, NEW text \in {None, "text", "json"}, NEW calls \in Nat, NEW done \in BOOLEAN
  PROVE  /\ AboutsOf(OllamaEvents(text, calls, done), at) =
              IF done THEN {Len(said) + i : i \in Calls(OllamaBlocks(text, calls, done))} ELSE {}
         /\ Ordered(OllamaEvents(text, calls, done), at)
         /\ Followed(OllamaEvents(text, calls, done))
         /\ \A i \in DOMAIN OllamaEvents(text, calls, done) : OllamaEvents(text, calls, done)[i].by = at
         /\ done => OllamaEvents(text, calls, done)[Len(OllamaEvents(text, calls, done))].reason
                      = IF calls > 0 THEN "tool_use" ELSE "end_turn"
<1> DEFINE first == Len(said) + IF text = None THEN 0 ELSE 1
           reason == IF calls > 0 THEN "tool_use" ELSE "end_turn"
           stopped == <<MessageStop(reason)>>
           head == IF text = None THEN <<>> ELSE <<TextDelta(Len(said) + 1)>>
           middle == OllamaCalls(first, calls)
           tail == IF done THEN middle \o stopped ELSE <<>>
           blocks == Calls(OllamaBlocks(text, calls, done))
<1>1. OllamaEvents(text, calls, done) = head \o tail
  BY DEF OllamaEvents
<1>2. Len(said) \in Nat /\ first \in Nat /\ at \in Nat
  BY StreamAssumption DEF TypeOK
<1>3. /\ MessageStop(reason) \in Event /\ MessageStop(reason).kind = "stop"
      /\ MessageStop(reason).by = at /\ MessageStop(reason).reason = reason
  <2>1. reason \in StopReasons
    BY DEF StopReasons
  <2> HIDE DEF reason
  <2> QED BY <2>1, EventType DEF MessageStop
<1>4. /\ stopped \in Seq(Event) /\ Len(stopped) = 1 /\ stopped[1] = MessageStop(reason)
      /\ AboutsOf(stopped, at) = {} /\ Ordered(stopped, at) /\ Followed(stopped)
      /\ \A i \in DOMAIN stopped : stopped[i].by = at
  <2> DEFINE e == MessageStop(reason)
  <2> HIDE DEF reason, e
  <2>1. e \in Event /\ e.kind = "stop" /\ e.by = at
    BY <1>3 DEF e
  <2>2. /\ <<e>> \in Seq(Event) /\ DOMAIN <<e>> = {1} /\ Len(<<e>>) = 1 /\ <<e>>[1] = e
        /\ AboutsOf(<<e>>, at) = {} /\ Ordered(<<e>>, at) /\ Followed(<<e>>)
    <3>1. Ordered(<<e>>, at) /\ Followed(<<e>>)
      BY <2>1, FewEvents
    <3>2. AboutsOf(<<e>>, at) = {}
      BY <2>1, FewEvents
    <3> QED BY <2>1, <3>1, <3>2
  <2>3. stopped = <<e>>
    BY DEF e
  <2> HIDE DEF stopped
  <2> QED BY <2>1, <2>2, <2>3 DEF e
<1>5. /\ head \in Seq(Event) /\ AboutsOf(head, at) = {} /\ Ordered(head, at) /\ Followed(head)
      /\ \A i \in DOMAIN head : head[i].by = at
  <2>1. CASE text = None
    <3>1. head = <<>>
      BY <2>1
    <3> HIDE DEF head
    <3> QED BY <3>1, FewEvents
  <2>2. CASE text # None
    <3>1. /\ head = <<TextDelta(Len(said) + 1)>> /\ TextDelta(Len(said) + 1) \in Event
          /\ TextDelta(Len(said) + 1).kind = "text" /\ TextDelta(Len(said) + 1).by = at
      BY <1>2, <2>2, EventType DEF TextDelta
    <3> HIDE DEF head
    <3>2. /\ <<TextDelta(Len(said) + 1)>> \in Seq(Event) /\ DOMAIN <<TextDelta(Len(said) + 1)>> = {1}
          /\ <<TextDelta(Len(said) + 1)>>[1] = TextDelta(Len(said) + 1)
      BY <3>1, FewEvents
    <3>3. /\ AboutsOf(<<TextDelta(Len(said) + 1)>>, at) = {}
          /\ Ordered(<<TextDelta(Len(said) + 1)>>, at)
          /\ Followed(<<TextDelta(Len(said) + 1)>>)
      BY <3>1, FewEvents
    <3> QED BY <3>1, <3>2, <3>3
  <2> QED BY <2>1, <2>2
<1>6. /\ middle \in Seq(Event) /\ AboutsOf(middle, at) = first + 1 .. first + calls
      /\ Ordered(middle, at) /\ Followed(middle)
      /\ \A i \in DOMAIN middle : middle[i].by = at
  <2> HIDE DEF first
  <2> QED BY <1>2, OllamaCallsTell
<1>7. {Len(said) + i : i \in blocks} = first + 1 .. first + calls
  <2> DEFINE skip == IF text = None THEN 0 ELSE 1
  <2>1. blocks = skip + 1 .. skip + calls /\ first = Len(said) + skip /\ skip \in Nat
    BY OllamaBlocksType
  <2> HIDE DEF blocks, first, skip
  <2>2. {Len(said) + i : i \in blocks} \subseteq first + 1 .. first + calls
    BY <1>2, <2>1
  <2>3. ASSUME NEW n \in first + 1 .. first + calls PROVE \E i \in blocks : n = Len(said) + i
    <3>1. n - Len(said) \in blocks /\ n = Len(said) + (n - Len(said))
      BY <1>2, <2>1
    <3> QED BY <3>1
  <2> QED BY <2>2, <2>3
<1> DEFINE end == middle \o stopped
<1>8. /\ end \in Seq(Event) /\ Joined(end, middle, stopped) /\ Len(end) = Len(middle) + 1
      /\ AboutsOf(end, at) = first + 1 .. first + calls
      /\ Ordered(end, at) /\ Followed(end)
      /\ \A i \in DOMAIN end : end[i].by = at
      /\ end[Len(end)] = MessageStop(reason)
  <2> HIDE DEF middle, stopped, first, reason
  <2>1. end \in Seq(Event) /\ Joined(end, middle, stopped) /\ Len(end) = Len(middle) + 1
    <3>1. Joined(middle \o stopped, middle, stopped)
      BY <1>4, <1>6, ConcatJoined
    <3>2. middle \in Seq(Event) /\ stopped \in Seq(Event) /\ Len(stopped) = 1
      BY <1>4, <1>6
    <3>3. middle \o stopped \in Seq(Event) /\ Len(middle \o stopped) = Len(middle) + Len(stopped)
      BY <3>2, ConcatProperties
    <3> QED BY <3>1, <3>2, <3>3
  <2> HIDE DEF end
  <2>2. AboutsOf(end, at) = first + 1 .. first + calls
    <3>1. AboutsOf(end, at) = AboutsOf(middle, at) \cup AboutsOf(stopped, at)
      BY <2>1, JoinedAbouts
    <3> QED BY <1>4, <1>6, <3>1
  <2>3. Ordered(end, at) /\ Followed(end)
    BY <1>4, <1>6, <2>1, JoinedOrdered, JoinedFollowed
  <2>4. end[Len(end)] = MessageStop(reason)
    BY <1>4, <2>1 DEF Joined
  <2>5. ASSUME NEW i \in DOMAIN end PROVE end[i].by = at
    <3>1. i \in 1 .. Len(middle) \/ i = Len(middle) + 1
      BY <1>4, <2>1 DEF Joined
    <3> QED BY <1>3, <1>6, <2>1, <2>4, <3>1 DEF Joined
  <2> QED BY <2>1, <2>2, <2>3, <2>4, <2>5
<1> HIDE DEF head, middle, reason, stopped, first, blocks, end
<1>9. CASE done
  <2> DEFINE es == head \o end
  <2>1. OllamaEvents(text, calls, done) = es
    BY <1>1, <1>9 DEF end
  <2>2. es \in Seq(Event) /\ Joined(es, head, end) /\ Len(es) = Len(head) + Len(end)
    <3>1. Joined(head \o end, head, end)
      BY <1>5, <1>8, ConcatJoined
    <3>2. head \in Seq(Event) /\ end \in Seq(Event)
      BY <1>5, <1>8
    <3>3. head \o end \in Seq(Event) /\ Len(head \o end) = Len(head) + Len(end)
      BY ONLY <3>2, ConcatProperties
    <3> QED BY <3>1, <3>3
  <2> HIDE DEF es
  <2>3. AboutsOf(es, at) = first + 1 .. first + calls
    <3>1. AboutsOf(es, at) = AboutsOf(head, at) \cup AboutsOf(end, at)
      BY <2>2, JoinedAbouts
    <3> QED BY <1>5, <1>8, <3>1
  <2>4. Ordered(es, at) /\ Followed(es)
    BY <1>5, <1>8, <2>2, JoinedOrdered, JoinedFollowed
  <2>5. Len(end) \in Nat \ {0} /\ Len(head) \in Nat
    BY <1>5, <1>6, <1>8
  <2>6. es[Len(es)] = end[Len(end)]
    BY <2>2, <2>5 DEF Joined
  <2>7. ASSUME NEW i \in DOMAIN es PROVE es[i].by = at
    <3>1. CASE i \in 1 .. Len(head)
      BY <1>5, <2>2, <3>1 DEF Joined
    <3>2. CASE i \notin 1 .. Len(head)
      <4>1. i - Len(head) \in 1 .. Len(end) /\ Len(head) + (i - Len(head)) = i
        BY <2>2, <2>5, <3>2 DEF Joined
      <4> QED BY <1>8, <2>2, <4>1 DEF Joined
    <3> QED BY <3>1, <3>2
  <2> QED BY <1>3, <1>7, <1>8, <1>9, <2>1, <2>3, <2>4, <2>6, <2>7 DEF blocks, reason
<1>10. CASE ~done
  <2>1. OllamaEvents(text, calls, done) = head
    BY <1>1, <1>5, <1>10
  <2> QED BY <1>5, <1>10, <2>1
<1> QED BY <1>9, <1>10

(* A chunk without a new call leaves the last one as it is. *)
LEMMA JoinedLastStarted ==
  ASSUME NEW s, NEW t, NEW u, Joined(u, s, t), Len(u) = Len(s) + Len(t), NEW e, LastStarted(s, e),
         \A i \in DOMAIN t : t[i].kind # "start"
  PROVE  LastStarted(u, e)
<1>1. PICK j \in DOMAIN s : Starts(s[j], e) /\ \A k \in j + 1 .. Len(s) : s[k].kind # "start"
  BY DEF LastStarted
<1>2. j \in DOMAIN u /\ u[j] = s[j]
  BY <1>1 DEF Joined
<1>3. ASSUME NEW k \in j + 1 .. Len(u) PROVE u[k].kind # "start"
  <2>1. CASE k \in 1 .. Len(s)
    BY <1>1, <2>1 DEF Joined
  <2>2. CASE k \notin 1 .. Len(s)
    <3>1. k - Len(s) \in 1 .. Len(t) /\ Len(s) + (k - Len(s)) = k
      BY <1>1, <2>2 DEF Joined
    <3> QED BY <3>1 DEF Joined
  <2> QED BY <2>1, <2>2
<1> QED BY <1>1, <1>2, <1>3 DEF LastStarted

(* The next candidate starts with nothing told, and nothing of the others  *)
(* is taken for its own.                                                   *)
LEMMA RaiseKeepsCInv ==
  ASSUME TypeOK, CInv, due = <<>>, phase # "stopped", NEW err, Raise(err)
  PROVE  CInv'
<1>1. events \in Seq(Event) /\ Stream = events /\ at \in Nat
  BY StreamAssumption DEF TypeOK, Stream
<1>2. CASE err = "ProviderUnavailableError" /\ at < Len(chain)
  <2>1. /\ at' = at + 1 /\ phase' = "opening" /\ said' = <<>> /\ stop' = "end_turn" /\ saw' = FALSE
        /\ due' = <<>> /\ events' = events
    BY <1>2 DEF Raise
  <2>2. Stream' = Stream
    BY <1>1, <2>1 DEF Stream
  <2>3. StartsOf(Stream, at + 1) = {}
    <3>1. \A i \in DOMAIN Stream : Stream[i].by <= at /\ Stream[i].by \in Nat
      <4>1. \A i \in DOMAIN Stream : Stream[i] \in Event
        BY <1>1
      <4> QED BY <4>1 DEF CInv, CallsAreTold, Event
    <3>2. \A i \in DOMAIN Stream : Stream[i].by # at + 1
      BY <1>1, <3>1
    <3> QED BY <3>2 DEF StartsOf
  <2>4. AboutsOf(Stream', at') = {} /\ Ordered(Stream', at') /\ Calls(said') = {}
    BY <2>1, <2>2, <2>3 DEF AboutsOf, Ordered, Calls
  <2>5. \A i \in DOMAIN Stream' : Stream'[i].by <= at'
    <3>1. \A i \in DOMAIN Stream : Stream[i].by <= at /\ Stream[i].by \in Nat
      <4>1. \A i \in DOMAIN Stream : Stream[i] \in Event
        BY <1>1
      <4> QED BY <4>1 DEF CInv, CallsAreTold, Event
    <3> QED BY <1>1, <2>1, <2>2, <3>1
  <2>6. CallsAreTold'
    BY <2>4, <2>5 DEF CallsAreTold
  <2>7. ArgumentsAreNear'
    BY <2>1, <2>2 DEF CInv, ArgumentsAreNear
  <2>8. ReasonIsKept'
    BY <2>1 DEF ReasonIsKept
  <2> QED BY <2>6, <2>7, <2>8 DEF CInv
<1>3. CASE ~(err = "ProviderUnavailableError" /\ at < Len(chain))
  <2>1. UNCHANGED <<chain, at, phase, said, cut, stop, saw, due, events>>
    BY <1>3 DEF Raise, decoder
  <2> QED BY <2>1 DEF CInv, CallsAreTold, ArgumentsAreNear, ReasonIsKept, Stream, Provider, ToolUseDelta
<1> QED BY <1>2, <1>3

(* The inductive invariant of the calls: every decoder tells what was said *)
(* as it goes, and an answer that was left is not mixed with the next one. *)
LEMMA CInvHolds == Spec => []CInv
<1>1. Init => CInv
  <2> SUFFICES ASSUME Init PROVE CInv
    OBVIOUS
  <2>1. Stream = <<>> /\ said = <<>> /\ due = <<>> /\ phase = "opening" /\ stop = "end_turn" /\ saw = FALSE
    BY DEF Init, Fresh, Stream
  <2>2. AboutsOf(Stream, at) = {} /\ Ordered(Stream, at) /\ Followed(Stream)
    BY <2>1, FewEvents
  <2>3. Calls(said) = {} /\ DOMAIN Stream = {}
    BY <2>1 DEF Calls
  <2> QED BY <2>1, <2>2, <2>3 DEF CInv, CallsAreTold, ArgumentsAreNear, ReasonIsKept
<1>2. TypeOK /\ TypeOK' /\ CInv /\ [Next]_vars => CInv'
  <2> SUFFICES ASSUME TypeOK, TypeOK', CInv, [Next]_vars PROVE CInv'
    OBVIOUS
  <2>0. /\ due' \in Seq(Event) /\ at \in Nat /\ said \in Seq(Block) /\ said' \in Seq(Block)
        /\ Len(said) \in Nat /\ stop \in StopReasons
        /\ Provider \in {"claude", "gemini", "ollama"}
    BY StreamAssumption DEF TypeOK, Provider
  <2>1. CASE Build
    <3>1. due = <<>> /\ phase # "stopped"
      BY <2>1 DEF Build, CInv, ReasonIsKept
    <3> QED BY <2>1, <3>1, RaiseKeepsCInv DEF Build
  <2>2. CASE Open
    <3>1. Calls(said) = {} /\ ~saw
      BY <2>2 DEF Open, CInv, ReasonIsKept, Calls
    <3> QED
      BY <2>2, <3>1 DEF Open, CInv, CallsAreTold, ArgumentsAreNear, ReasonIsKept, Stream, Provider, ToolUseDelta
  <2>3. ASSUME NEW kind \in {"text", "call"}, ClaudeBlock(kind) PROVE CInv'
    <3>1. /\ due = <<>> /\ phase = "reading" /\ Provider = "claude"
          /\ said' = Append(said, [kind |-> kind, final |-> FALSE])
          /\ due' = (IF kind = "call" THEN <<ToolUseStart(Len(said) + 1)>> ELSE <<>>)
          /\ UNCHANGED <<chain, at, phase, cut, stop, saw, events, result>>
      BY <2>3 DEF ClaudeBlock, Pulling, Yield
    <3>2. /\ Len(said') = Len(said) + 1 /\ said'[Len(said) + 1].kind = kind
          /\ \A i \in 1 .. Len(said) : said'[i] = said[i]
          /\ DOMAIN said' = 1 .. Len(said) + 1 /\ DOMAIN said = 1 .. Len(said)
      BY <2>0, <3>1
    <3>3. Calls(said') = Calls(said) \cup (IF kind = "call" THEN {Len(said) + 1} ELSE {})
      BY <2>0, <3>2 DEF Calls
    <3>4. /\ ToolUseStart(Len(said) + 1) \in Event /\ ToolUseStart(Len(said) + 1).kind = "start"
          /\ ToolUseStart(Len(said) + 1).by = at /\ ToolUseStart(Len(said) + 1).about = Len(said) + 1
      BY <2>0 DEF ToolUseStart, Event
    <3>5. /\ AboutsOf(due', at) = (IF kind = "call" THEN {Len(said) + 1} ELSE {})
          /\ Ordered(due', at) /\ Followed(due')
          /\ \A i \in DOMAIN due' : due'[i].by = at
      <4>1. CASE kind = "call"
        <5> DEFINE e == ToolUseStart(Len(said) + 1)
        <5> HIDE DEF e
        <5>1. /\ <<e>> \in Seq(Event) /\ DOMAIN <<e>> = {1} /\ <<e>>[1] = e
              /\ AboutsOf(<<e>>, at) = {e.about} /\ Ordered(<<e>>, at) /\ Followed(<<e>>)
          <6>1. e \in Event /\ e.kind = "start" /\ e.by = at
            BY <3>4 DEF e
          <6>2. Ordered(<<e>>, at) /\ Followed(<<e>>)
            BY <6>1, FewEvents
          <6>3. AboutsOf(<<e>>, at) = {e.about}
            BY <6>1, FewEvents
          <6> QED BY <6>1, <6>2, <6>3
        <5>2. due' = <<e>>
          BY <3>1, <4>1 DEF e
        <5>3. e.about = Len(said) + 1 /\ e.by = at
          BY <3>4 DEF e
        <5> QED BY <4>1, <5>1, <5>2, <5>3
      <4>2. CASE kind # "call"
        <5>1. due' = <<>>
          BY <3>1, <4>2
        <5> QED BY <4>2, <5>1, FewEvents
      <4> QED BY <4>1, <4>2
    <3>6. CallsAreTold'
      <4>1. \A n \in AboutsOf(due', at) : n > Len(said)
        BY <2>0, <3>5
      <4>2. /\ Calls(said) \cup AboutsOf(due', at) \subseteq Calls(said')
            /\ Calls(said') \subseteq Calls(said) \cup AboutsOf(due', at)
        BY <3>3, <3>5
      <4> QED BY <2>0, <3>1, <3>5, <4>1, <4>2, ChunkTells DEF CInv
    <3>7. Joined(Stream', Stream, due') /\ Stream' \in Seq(Event) /\ Stream = events /\ Stream' = events \o due'
      BY <2>0, <3>1, ChunkStream
    <3>8. ArgumentsAreNear'
      <4>1. Followed(Stream')
        BY <3>5, <3>7, JoinedFollowed DEF CInv, ArgumentsAreNear
      <4>2. ASSUME kind = "call" PROVE LastStarted(Stream', ToolUseDelta(Len(said))')
        <5>1. /\ due' = <<ToolUseStart(Len(said) + 1)>> /\ Len(due') = 1
              /\ due'[1] = ToolUseStart(Len(said) + 1)
          BY <3>1, <4>2
        <5>2. Len(Stream) + 1 \in DOMAIN Stream' /\ Stream'[Len(Stream) + 1] = ToolUseStart(Len(said) + 1)
          BY <3>7, <5>1 DEF Joined
        <5>3. Len(Stream') = Len(Stream) + 1 /\ Len(Stream) \in Nat
          BY <3>7, <5>1 DEF Joined
        <5>4. Starts(ToolUseStart(Len(said) + 1), ToolUseDelta(Len(said))')
          BY <3>1, <3>2 DEF Starts, ToolUseStart, ToolUseDelta
        <5>5. \A k \in (Len(Stream) + 1) + 1 .. Len(Stream') : Stream'[k].kind # "start"
          BY <5>3
        <5> QED BY <5>2, <5>4, <5>5 DEF LastStarted
      <4>3. said'[Len(said')].kind = kind
        BY <3>2
      <4> QED BY <4>1, <4>2, <4>3 DEF ArgumentsAreNear
    <3>9. ReasonIsKept'
      BY <3>1 DEF CInv, ReasonIsKept, Provider
    <3> QED BY <3>6, <3>8, <3>9 DEF CInv
  <2>4. CASE ClaudeDelta
    <3> DEFINE e == IF Last(said).kind = "call" THEN ToolUseDelta(Len(said)) ELSE TextDelta(Len(said))
    <3>1. /\ due = <<>> /\ phase = "reading" /\ Provider = "claude" /\ said # <<>> /\ due' = <<e>>
          /\ UNCHANGED <<chain, at, phase, said, cut, stop, saw, events, result>>
      BY <2>4 DEF ClaudeDelta, Pulling, Yield
    <3>2. /\ e \in Event /\ e.kind # "start" /\ e.by = at
          /\ e.kind = "args" => said[Len(said)].kind = "call" /\ e = ToolUseDelta(Len(said))
      BY <2>0 DEF ToolUseDelta, TextDelta, Event, Last
    <3> HIDE DEF e
    <3>3. /\ DOMAIN due' = {1} /\ due'[1] = e /\ Len(due') = 1
          /\ AboutsOf(due', at) = {} /\ Ordered(due', at)
          /\ e.kind # "args" => Followed(due')
      <4>1. /\ DOMAIN <<e>> = {1} /\ <<e>>[1] = e /\ Len(<<e>>) = 1
        OBVIOUS
      <4>2. Ordered(<<e>>, at) /\ (e.kind # "args" => Followed(<<e>>))
        BY <3>2, FewEvents
      <4>3. AboutsOf(<<e>>, at) = {}
        BY <3>2, FewEvents
      <4> QED BY <3>1, <4>1, <4>2, <4>3
    <3>4. CallsAreTold'
      BY <2>0, <3>1, <3>2, <3>3, ChunkTells DEF CInv
    <3>5. /\ Joined(Stream', Stream, due') /\ Stream \in Seq(Event) /\ Stream' \in Seq(Event)
          /\ Stream = events /\ Stream' = events \o due'
      BY <2>0, <3>1, ChunkStream
    <3>6. Followed(Stream')
      <4>1. Followed(Stream)
        BY DEF CInv, ArgumentsAreNear
      <4>2. CASE e.kind = "args"
        <5>1. LastStarted(Stream, e)
          BY <3>1, <3>2, <4>2 DEF CInv, ArgumentsAreNear
        <5>2. Stream' = Stream \o <<e>>
          BY <3>1, <3>5
        <5> QED BY <3>2, <3>5, <4>1, <5>1, <5>2, AppendFollowed
      <4>3. CASE e.kind # "args"
        BY <3>3, <3>5, <4>1, <4>3, JoinedFollowed
      <4> QED BY <4>2, <4>3
    <3>7. said[Len(said)].kind = "call" => LastStarted(Stream', ToolUseDelta(Len(said)))
      <4>1. said[Len(said)].kind = "call" => LastStarted(Stream, ToolUseDelta(Len(said)))
        BY <3>1 DEF CInv, ArgumentsAreNear
      <4>2. Len(Stream') = Len(Stream) + Len(due')
        BY <2>0, <3>5, ConcatProperties
      <4> QED BY <3>2, <3>3, <3>5, <4>1, <4>2, JoinedLastStarted
    <3>8. ArgumentsAreNear'
      BY <3>1, <3>6, <3>7 DEF ArgumentsAreNear, ToolUseDelta, Provider
    <3>9. ReasonIsKept'
      BY <3>1 DEF CInv, ReasonIsKept, Provider
    <3> QED BY <3>4, <3>8, <3>9 DEF CInv
  <2>5. ASSUME NEW sr, ClaudeMessageDelta(sr) PROVE CInv'
    <3>1. /\ due = <<>> /\ phase = "reading" /\ Provider = "claude" /\ phase' = "stopping"
          /\ Tells(stop', Calls(said) # {})
          /\ UNCHANGED <<chain, at, said, cut, saw, due, events, result>>
      BY <2>5 DEF ClaudeMessageDelta, Pulling, ClaudeReason, StopReasons, Tells
    <3>2. Stream' = Stream /\ Provider' = Provider
      BY <3>1 DEF Stream, Provider
    <3>3. CallsAreTold' /\ ArgumentsAreNear'
      BY <3>1, <3>2 DEF CInv, CallsAreTold, ArgumentsAreNear, ToolUseDelta
    <3>4. ReasonIsKept'
      BY <3>1, <3>2 DEF ReasonIsKept
    <3> QED BY <3>3, <3>4 DEF CInv
  <2>6. ASSUME NEW kinds \in Seq({"text", "call"}), NEW finish \in FinishReasons, GeminiChunk(kinds, finish)
        PROVE  CInv'
    <3> DEFINE blocks == [i \in DOMAIN kinds |-> [kind |-> kinds[i], final |-> finish # None]]
               calling == {n \in DOMAIN kinds : kinds[n] = "call"}
    <3>1. /\ due = <<>> /\ phase = "reading" /\ Provider = "gemini"
          /\ said' = said \o blocks
          /\ saw' = (saw \/ \E i \in DOMAIN kinds : kinds[i] = "call")
          /\ due' = GeminiEvents(kinds)
          /\ stop' = (IF finish = None THEN stop ELSE IF saw' THEN "tool_use" ELSE GeminiReason(finish))
          /\ phase' = (IF finish = None THEN "reading" ELSE "stopping")
          /\ UNCHANGED <<chain, at, cut, events, result>>
      BY <2>6 DEF GeminiChunk, Pulling, Yield
    <3>2. blocks \in Seq(Block) /\ Calls(blocks) = calling
      <4>1. \A i \in 1 .. Len(kinds) : [kind |-> kinds[i], final |-> finish # None] \in Block
        BY DEF Block, Kinds
      <4>2. blocks \in Seq(Block)
        BY <4>1
      <4> QED BY <4>2 DEF Calls
    <3> HIDE DEF blocks
    <3>3. Calls(said') = Calls(said) \cup {Len(said) + i : i \in calling}
      BY <2>0, <3>1, <3>2, MoreCalls
    <3>4. /\ AboutsOf(due', at) = {Len(said) + i : i \in calling}
          /\ Ordered(due', at) /\ Followed(due') /\ \A i \in DOMAIN due' : due'[i].by = at
      BY <3>1, GeminiTells
    <3>5. calling \subseteq Nat \ {0}
      OBVIOUS
    <3>6. calling # {} <=> \E i \in DOMAIN kinds : kinds[i] = "call"
      OBVIOUS
    <3> HIDE DEF calling
    <3>7. CallsAreTold'
      <4>1. \A n \in AboutsOf(due', at) : n > Len(said)
        BY <2>0, <3>4, <3>5
      <4>2. /\ Calls(said) \cup AboutsOf(due', at) \subseteq Calls(said')
            /\ Calls(said') \subseteq Calls(said) \cup AboutsOf(due', at)
        BY <3>3, <3>4
      <4> QED BY <2>0, <3>1, <3>4, <4>1, <4>2, ChunkTells DEF CInv
    <3>8. ArgumentsAreNear'
      <4>1. Joined(Stream', Stream, due')
        BY <2>0, <3>1, ChunkStream
      <4>2. Followed(Stream')
        BY <3>4, <4>1, JoinedFollowed DEF CInv, ArgumentsAreNear
      <4> QED BY <3>1, <4>2 DEF ArgumentsAreNear, Provider
    <3>9. ReasonIsKept'
      <4>1. saw' <=> Calls(said') # {}
        BY <3>1, <3>3, <3>6 DEF CInv, ReasonIsKept
      <4>2. finish # None => GeminiReason(finish) \in {"end_turn", "max_tokens", "error"}
        BY DEF FinishReasons, GeminiReason
      <4>3. finish # None => Tells(stop', Calls(said') # {})
        BY <3>1, <4>1, <4>2 DEF Tells
      <4> QED BY <3>1, <4>1, <4>3 DEF CInv, ReasonIsKept, Provider
    <3> QED BY <3>7, <3>8, <3>9 DEF CInv
  <2>7. ASSUME NEW text, NEW calls \in Nat, NEW done \in BOOLEAN, OllamaChunk(text, calls, done)
        PROVE  CInv'
    <3> DEFINE blocks == OllamaBlocks(text, calls, done)
    <3>1. /\ text \in {None, "text", "json"}
          /\ due = <<>> /\ phase = "reading" /\ Provider = "ollama"
          /\ said' = said \o blocks
          /\ due' = OllamaEvents(text, calls, done)
          /\ saw' = (done /\ calls > 0)
          /\ phase' = (IF done THEN "stopped" ELSE "reading")
          /\ UNCHANGED <<chain, at, cut, stop, events, result>>
      BY <2>7 DEF OllamaChunk, Pulling, Yield
    <3>2. blocks \in Seq(Block) /\ Calls(blocks) \subseteq Nat \ {0} /\ (calls > 0 <=> Calls(blocks) # {})
      <4> DEFINE skip == IF text = None THEN 0 ELSE 1
      <4>1. blocks \in Seq(Block) /\ Calls(blocks) = skip + 1 .. skip + calls /\ skip \in Nat
        BY <3>1, OllamaBlocksType
      <4> HIDE DEF blocks, skip
      <4>2. Calls(blocks) \subseteq Nat \ {0}
        BY <4>1
      <4>3. CASE calls > 0
        <5>1. skip + 1 \in Calls(blocks)
          BY <4>1, <4>3
        <5> QED BY <4>1, <4>2, <4>3, <5>1
      <4>4. CASE ~(calls > 0)
        <5>1. Calls(blocks) = {}
          BY <4>1, <4>4
        <5> QED BY <4>1, <4>4, <5>1
      <4> QED BY <4>3, <4>4
    <3> HIDE DEF blocks
    <3>3. Calls(said') = Calls(said) \cup {Len(said) + i : i \in Calls(blocks)}
      BY <2>0, <3>1, <3>2, MoreCalls
    <3>4. /\ AboutsOf(due', at) = IF done THEN {Len(said) + i : i \in Calls(blocks)} ELSE {}
          /\ Ordered(due', at) /\ Followed(due') /\ \A i \in DOMAIN due' : due'[i].by = at
          /\ done => due'[Len(due')].reason = IF calls > 0 THEN "tool_use" ELSE "end_turn"
          /\ done => due' # <<>>
      <4> DEFINE es == OllamaEvents(text, calls, done)
      <4>1. /\ AboutsOf(es, at) = IF done THEN {Len(said) + i : i \in Calls(OllamaBlocks(text, calls, done))} ELSE {}
            /\ Ordered(es, at) /\ Followed(es) /\ \A i \in DOMAIN es : es[i].by = at
            /\ done => es[Len(es)].reason = IF calls > 0 THEN "tool_use" ELSE "end_turn"
        BY <3>1, OllamaTells
      <4>2. done => es # <<>>
        BY OllamaEventsType
      <4>3. due' = es
        BY <3>1
      <4> HIDE DEF es
      <4> QED BY <4>1, <4>2, <4>3 DEF blocks
    <3>5. Joined(Stream', Stream, due') /\ Stream' = events \o due' /\ Stream = events /\ Stream \in Seq(Event)
      BY <2>0, <3>1, ChunkStream
    <3>6. CallsAreTold'
      <4>1. \A n \in AboutsOf(due', at) : n > Len(said)
        BY <2>0, <3>2, <3>4
      <4>2. Calls(said) \cup AboutsOf(due', at) \subseteq Calls(said')
        BY <3>3, <3>4
      <4>3. phase' # "stopped" => AboutsOf(due', at) = {}
        BY <3>1, <3>4
      <4> QED BY <2>0, <3>1, <3>4, <4>1, <4>2, <4>3, ChunkTells DEF CInv
    <3>7. ArgumentsAreNear'
      <4>1. Followed(Stream')
        BY <3>4, <3>5, JoinedFollowed DEF CInv, ArgumentsAreNear
      <4> QED BY <3>1, <4>1 DEF ArgumentsAreNear, Provider
    <3>8. ReasonIsKept'
      <4>1. CASE done
        <5>1. /\ Len(due') \in Nat \ {0} /\ Len(Stream') = Len(Stream) + Len(due') /\ Len(Stream) \in Nat
          BY <2>0, <3>4, <3>5, <4>1, EmptySeq, ConcatProperties
        <5>2. Stream' # <<>> /\ Stream'[Len(Stream')] = due'[Len(due')]
          BY <3>5, <5>1 DEF Joined
        <5>3. AboutsOf(Stream', at) = AboutsOf(Stream, at) \cup AboutsOf(due', at)
          BY <3>5, JoinedAbouts
        <5>4. AboutsOf(Stream, at) = {}
          BY <3>1 DEF CInv, CallsAreTold
        <5>5. AboutsOf(Stream', at) # {} <=> calls > 0
          BY <3>2, <3>4, <4>1, <5>3, <5>4
        <5>6. Tells(Stream'[Len(Stream')].reason, AboutsOf(Stream', at') # {})
          BY <3>1, <3>4, <4>1, <5>2, <5>5 DEF Tells
        <5> QED BY <3>1, <4>1, <5>2, <5>6 DEF ReasonIsKept, Tells
      <4>2. CASE ~done
        BY <3>1, <4>2 DEF CInv, ReasonIsKept, Provider
      <4> QED BY <4>1, <4>2
    <3> QED BY <3>6, <3>7, <3>8 DEF CInv
  <2>8. CASE Close
    <3> DEFINE e == MessageStop(stop)
    <3>1. /\ due = <<>> /\ phase \in {"reading", "stopping"} /\ phase' = "stopped" /\ due' = <<e>>
          /\ cut' = (phase = "reading")
          /\ UNCHANGED <<chain, at, said, stop, saw, events, result>>
      BY <2>8 DEF Close, Yield
    <3>2. e \in Event /\ e.kind = "stop" /\ e.by = at /\ e.reason = stop
      BY <2>0, EventType DEF MessageStop
    <3> HIDE DEF e
    <3>3. /\ DOMAIN due' = {1} /\ due'[1] = e /\ Len(due') = 1
          /\ AboutsOf(due', at) = {} /\ Ordered(due', at) /\ Followed(due')
      <4>1. /\ DOMAIN <<e>> = {1} /\ <<e>>[1] = e /\ Len(<<e>>) = 1
        OBVIOUS
      <4>2. AboutsOf(<<e>>, at) = {} /\ Ordered(<<e>>, at) /\ Followed(<<e>>)
        BY <3>2, FewEvents
      <4> QED BY <3>1, <4>1, <4>2
    <3>4. CallsAreTold'
      <4>1. Provider = "ollama" => phase # "stopped"
        BY <3>1
      <4> QED BY <2>0, <3>1, <3>2, <3>3, <4>1, ChunkTells DEF CInv
    <3>5. /\ Joined(Stream', Stream, due') /\ Stream \in Seq(Event) /\ Stream' \in Seq(Event)
          /\ Stream' = events \o due' /\ Stream = events
      BY <2>0, <3>1, ChunkStream
    <3>6. Followed(Stream')
      BY <3>3, <3>5, JoinedFollowed DEF CInv, ArgumentsAreNear
    <3>7. Len(Stream') = Len(Stream) + Len(due')
      BY <2>0, <3>5, ConcatProperties
    <3>8. Provider = "claude" /\ said # <<>> /\ said[Len(said)].kind = "call" =>
            LastStarted(Stream', ToolUseDelta(Len(said)))
      <4>1. \A i \in DOMAIN due' : due'[i].kind # "start"
        BY <3>2, <3>3
      <4> QED BY <3>5, <3>7, <4>1, JoinedLastStarted DEF CInv, ArgumentsAreNear
    <3>9. ArgumentsAreNear'
      BY <3>1, <3>6, <3>8 DEF ArgumentsAreNear, ToolUseDelta, Provider
    <3>10. ReasonIsKept'
      <4>1. Len(Stream) \in Nat /\ Stream' # <<>> /\ Stream'[Len(Stream')] = e
        BY <3>3, <3>5, <3>7 DEF Joined
      <4>2. AboutsOf(Stream', at) = AboutsOf(Stream, at)
        <5>1. AboutsOf(Stream', at) = AboutsOf(Stream, at) \cup AboutsOf(due', at)
          BY <3>5, JoinedAbouts
        <5>2. AboutsOf(due', at) = {}
          BY <3>3
        <5> QED BY <5>1, <5>2
      <4>3. CASE phase = "reading"
        <5>1. stop = "end_turn"
          BY <4>3 DEF CInv, ReasonIsKept
        <5> QED BY <3>1, <3>2, <4>1, <4>3, <5>1 DEF ReasonIsKept
      <4>4. CASE phase = "stopping"
        <5>1. Provider # "ollama" /\ Tells(stop, Calls(said) # {})
          BY <4>4 DEF CInv, ReasonIsKept
        <5>2. Calls(said) = AboutsOf(Stream, at)
          BY <5>1 DEF CInv, CallsAreTold
        <5>3. Tells(stop, AboutsOf(Stream', at') # {})
          BY <3>1, <4>2, <5>1, <5>2
        <5> QED BY <3>1, <3>2, <4>1, <5>3 DEF ReasonIsKept, Tells
      <4> QED BY <3>1, <4>3, <4>4
    <3> QED BY <3>4, <3>9, <3>10 DEF CInv
  <2>9. ASSUME UNCHANGED <<chain, at, phase, said, cut, stop, saw, due, events>> PROVE CInv'
    BY <2>9 DEF CInv, CallsAreTold, ArgumentsAreNear, ReasonIsKept, Stream, Provider, ToolUseDelta
  <2>10. CASE Finish
    BY <2>9, <2>10 DEF Finish, decoder
  <2>11. ASSUME NEW e \in SdkErrors, Fail(e) PROVE CInv'
    BY <2>11, RaiseKeepsCInv DEF Fail
  <2>12. CASE Deliver
    <3>1. Stream' = Stream
      BY <2>12, DeliverStream
    <3>2. due # <<>> /\ UNCHANGED <<chain, at, phase, said, cut, stop, saw, result>>
      BY <2>12 DEF Deliver
    <3>3. CallsAreTold' /\ ArgumentsAreNear'
      BY <3>1, <3>2 DEF CInv, CallsAreTold, ArgumentsAreNear, Provider, ToolUseDelta
    <3>4. ReasonIsKept'
      BY <3>1, <3>2 DEF CInv, ReasonIsKept, Provider
    <3> QED BY <3>3, <3>4 DEF CInv
  <2>13. CASE Abandon
    BY <2>9, <2>13 DEF Abandon, decoder
  <2>14. CASE UNCHANGED vars
    BY <2>9, <2>14 DEF vars, decoder
  <2>15. ASSUME NEW kinds \in GeminiChunks, NEW finish \in FinishReasons, GeminiChunk(kinds, finish)
         PROVE  CInv'
    BY <2>6, <2>15, GeminiChunksType
  <2> QED
    BY <2>1, <2>2, <2>3, <2>4, <2>5, <2>7, <2>8, <2>10, <2>11, <2>12, <2>13, <2>14, <2>15 DEF Next
<1> QED BY <1>1, <1>2, TypeCorrect, PTL DEF Spec

(* What was delivered when a call ends well is the stream.                 *)
LEMMA EndOfStream ==
  ASSUME TypeOK, IInv, result = "ok"
  PROVE  /\ Stream = events /\ events # <<>> /\ phase = "stopped"
         /\ Started = AboutsOf(Stream, at) /\ OfLast("start") = StartsOf(Stream, at)
<1>1. due = <<>> /\ phase = "stopped" /\ events # <<>>
  BY DEF IInv, EndsByPhase, StoppedByStop
<1>2. Stream = events
  BY <1>1 DEF Stream, TypeOK
<1>3. OfLast("start") = StartsOf(events, at)
  BY DEF OfLast, StartsOf
<1> QED BY <1>1, <1>2, <1>3 DEF Started, AboutsOf

(* StreamSaysWhatChatWould, of the decoders of claude.py, gemini.py and    *)
(* ollama.py: whatever the chunks, the calls of a stream that ended well   *)
(* are those of chat(), each once and in order, or fewer with Ollama.      *)
THEOREM StreamsSayTheCalls == Spec => []StreamSaysWhatChatWould
<1>1. TypeOK /\ IInv /\ CInv => StreamSaysWhatChatWould
  <2> SUFFICES ASSUME TypeOK, IInv, CInv, result = "ok"
               PROVE  /\ Provider # "ollama" => Started = ChatCalls(Provider, said)
                      /\ Started \subseteq ChatCalls(Provider, said)
                      /\ \A i, j \in OfLast("start") : i < j => events[i].about < events[j].about
    BY DEF StreamSaysWhatChatWould
  <2>1. /\ Started \subseteq Calls(said)
        /\ Provider # "ollama" => Calls(said) \subseteq Started
        /\ Ordered(Stream, at)
    BY EndOfStream DEF CInv, CallsAreTold
  <2>2. \A i, j \in OfLast("start") : i < j => events[i].about < events[j].about
    BY <2>1, EndOfStream DEF Ordered
  <2>3. CASE Calls(said) = {}
    BY <2>1, <2>2, <2>3 DEF ChatCalls
  <2>4. CASE Calls(said) # {}
    <3>1. ChatCalls(Provider, said) = Calls(said)
      BY <2>4 DEF ChatCalls
    <3> QED BY <2>1, <2>2, <3>1
  <2> QED BY <2>3, <2>4
<1> QED BY <1>1, TypeCorrect, IInvHolds, CInvHolds, PTL

(* ArgumentsFollowTheirCall, of the same decoders and of chat_stream():    *)
(* the events of one candidate or of several, cut anywhere, never give     *)
(* arguments to a call that is not the last one started.                   *)
THEOREM ArgumentsFollow == Spec => []ArgumentsFollowTheirCall
<1>1. TypeOK /\ CInv => ArgumentsFollowTheirCall
  <2> SUFFICES ASSUME TypeOK, CInv, NEW i \in DOMAIN events, events[i].kind = "args"
               PROVE  \E j \in 1 .. i - 1 :
                        /\ events[j].kind = "start"
                        /\ events[j].by = events[i].by /\ events[j].about = events[i].about
                        /\ \A k \in j + 1 .. i - 1 : events[k].kind # "start"
    BY DEF ArgumentsFollowTheirCall
  <2>1. Joined(Stream, events, due)
    BY ConcatJoined DEF TypeOK, Stream
  <2>2. /\ i \in 1 .. Len(events) /\ Len(events) \in Nat /\ i \in DOMAIN Stream
        /\ \A j \in 1 .. i : Stream[j] = events[j]
    BY <2>1 DEF Joined
  <2>3. PICK j \in 1 .. i - 1 :
          Starts(Stream[j], Stream[i]) /\ \A k \in j + 1 .. i - 1 : Stream[k].kind # "start"
    BY <2>2 DEF CInv, ArgumentsAreNear, Followed
  <2>4. events[j] = Stream[j] /\ \A k \in j + 1 .. i - 1 : events[k] = Stream[k]
    BY <2>2
  <2> QED BY <2>2, <2>3, <2>4 DEF Starts
<1> QED BY <1>1, TypeCorrect, CInvHolds, PTL

(* StopTellsOfCalls, of final_stop, saw_tool and tool_emitted of the       *)
(* decoders: the reason of the MessageStop and the calls before it agree.  *)
THEOREM StopsTell == Spec => []StopTellsOfCalls
<1>1. TypeOK /\ IInv /\ CInv => StopTellsOfCalls
  <2> SUFFICES ASSUME TypeOK, IInv, CInv, result = "ok"
               PROVE  /\ Last(events).reason = "tool_use" => Started # {}
                      /\ Started # {} /\ ~cut =>
                           Last(events).reason \in {"tool_use", "max_tokens", "error"}
    BY DEF StopTellsOfCalls
  <2>1. /\ Stream[Len(Stream)].reason = "tool_use" => AboutsOf(Stream, at) # {}
        /\ ~cut => Tells(Stream[Len(Stream)].reason, AboutsOf(Stream, at) # {})
    BY EndOfStream DEF CInv, ReasonIsKept
  <2>2. Last(events) = Stream[Len(Stream)] /\ Started = AboutsOf(Stream, at)
    BY EndOfStream DEF Last
  <2> QED BY <2>1, <2>2 DEF Tells
<1> QED BY <1>1, TypeCorrect, IInvHolds, CInvHolds, PTL
=================================================================================
