----------------------------- MODULE ProviderStream -----------------------------
(***************************************************************************)
(* One Router.chat_stream() (agent/core/router.py) over the decoders that  *)
(* turn the stream of each provider's SDK into our events                  *)
(* (agent/providers/claude.py, gemini.py, ollama.py).                      *)
(*                                                                         *)
(* The generators are lazy: each step of the reader runs the router, the   *)
(* provider and its decoder up to the next event, and the reader may close *)
(* the generator between two events.  What the SDKs deliver, and when they *)
(* raise, is external; what was said is kept to compare the events with    *)
(* what chat() makes of the same answer.  Text is kept only as its         *)
(* presence; for Ollama also as the JSON of an emulated tool call.         *)
(***************************************************************************)
EXTENDS Naturals, FiniteSets, SequencesExt

CONSTANTS
  Chains,     \* the plans of the router: sequences of providers
  MaxBlocks,  \* bound: blocks of one answer
  MaxDeltas,  \* bound: deltas of one block
  None

(* A block of an answer; `final` tells the blocks of the last chunk.       *)
Kinds == {"text", "json", "call"}
Block == [kind : Kinds, final : BOOLEAN]

StopReasons == {"end_turn", "tool_use", "max_tokens", "stop_sequence", "error"}

(* What an SDK raises, with the words of its message that gemini.py reads. *)
SdkErrors ==
  [kind : {"auth", "rate", "connection", "bad_request", "missing_model", "status"},
   words : SUBSET {"authentication", "rate", "invalid", "connection"}]

ProviderErrors ==
  {"ProviderError", "AuthenticationError", "RateLimitError", "InvalidRequestError",
   "ProviderUnavailableError"}

Results ==
  ProviderErrors \cup {"ok", "abandoned", "NoProviderAvailableError", "untranslated"}

ASSUME StreamAssumption ==
  /\ Chains \subseteq Seq({"claude", "gemini", "ollama"}) /\ <<>> \notin Chains
  /\ None \notin Results \cup StopReasons
  /\ MaxBlocks \in Nat /\ MaxDeltas \in Nat

VARIABLES
  chain,   \* RoutingDecision.chain
  at,      \* the candidate being tried
  phase,   \* of its generator: "opening", "reading", "stopping" or "stopped"
  said,    \* history: the blocks of its answer so far
  cut,     \* history: its stream ended without saying that it was complete
  stop,    \* _decode_stream.final_stop
  saw,     \* _decode_stream.saw_tool, or tool_emitted
  due,     \* events of the chunk in hand that are not yielded yet
  events,  \* what the reader received
  result   \* how the call ended, None while it goes on

decoder == <<phase, said, cut, stop, saw, due>>
vars == <<chain, at, decoder, events, result>>

Event ==
  [by : Nat, kind : {"text", "start", "args", "stop"}, about : Nat,
   reason : StopReasons \cup {None}]

TypeOK ==
  /\ chain \in Chains
  /\ at \in 1 .. Len(chain)
  /\ phase \in {"opening", "reading", "stopping", "stopped"}
  /\ said \in Seq(Block)
  /\ cut \in BOOLEAN
  /\ stop \in StopReasons
  /\ saw \in BOOLEAN
  /\ due \in Seq(Event)
  /\ events \in Seq(Event)
  /\ result \in Results \cup {None}

Fresh ==
  /\ phase = "opening" /\ said = <<>> /\ cut = FALSE
  /\ stop = "end_turn" /\ saw = FALSE /\ due = <<>>

Init ==
  /\ chain \in Chains /\ at = 1
  /\ Fresh
  /\ events = <<>>
  /\ result = None

-------------------------------------------------------------------------------
(* Events *)

Provider == chain[at]

(* messages.py: TextDelta, ToolUseStart, ToolUseDelta and MessageStop, with *)
(* the candidate they come from and the block they are about.              *)
TextDelta(i)    == [by |-> at, kind |-> "text", about |-> i, reason |-> None]
ToolUseStart(i) == [by |-> at, kind |-> "start", about |-> i, reason |-> None]
ToolUseDelta(i) == [by |-> at, kind |-> "args", about |-> i, reason |-> None]
MessageStop(r)  == [by |-> at, kind |-> "stop", about |-> 0, reason |-> r]

Running == result = None
Pulling(p) == Running /\ Provider = p /\ phase = "reading" /\ due = <<>>

Yield(es) == due' = es

Calls(blocks) == {i \in DOMAIN blocks : blocks[i].kind = "call"}

-------------------------------------------------------------------------------
(* Claude: one event of the SDK at a time. *)

(* content_block_start *)
ClaudeBlock(kind) ==
  /\ Pulling("claude") /\ Len(said) < MaxBlocks
  /\ kind \in {"text", "call"}
  /\ said' = Append(said, [kind |-> kind, final |-> FALSE])
  /\ Yield(IF kind = "call" THEN <<ToolUseStart(Len(said) + 1)>> ELSE <<>>)
  /\ UNCHANGED <<chain, at, phase, cut, stop, saw, events, result>>

DeltasOf(i) ==
  {j \in DOMAIN events : /\ events[j].by = at /\ events[j].about = i
                         /\ events[j].kind \in {"text", "args"}}

(* content_block_delta: a block is complete before the next one starts.    *)
ClaudeDelta ==
  /\ Pulling("claude") /\ said # <<>>
  /\ Cardinality(DeltasOf(Len(said))) < MaxDeltas
  /\ Yield(<<IF Last(said).kind = "call" THEN ToolUseDelta(Len(said))
             ELSE TextDelta(Len(said))>>)
  /\ UNCHANGED <<chain, at, phase, said, cut, stop, saw, events, result>>

(* A fault: the reason is handed on as it comes.                           *)
ClaudeReasonRaw(sr) == sr

(* _STOP_REASON_MAP: a reason that it does not know is an error.           *)
ClaudeReason(sr) == IF sr \in StopReasons THEN sr ELSE "error"

(* message_delta: the API says tool_use when it calls a tool and was not   *)
(* stopped by a limit.                                                     *)
ClaudeMessageDelta(sr) ==
  /\ Pulling("claude") /\ said # <<>>
  /\ sr \in {"end_turn", "tool_use", "max_tokens", "stop_sequence", "refusal"}
  /\ sr = "tool_use" => Calls(said) # {}
  /\ sr \in {"end_turn", "stop_sequence"} => Calls(said) = {}
  /\ stop' = ClaudeReason(sr)
  /\ phase' = "stopping"
  /\ UNCHANGED <<chain, at, said, cut, saw, due, events, result>>

-------------------------------------------------------------------------------
(* Gemini: a chunk has parts, and the one with the last parts a reason to  *)
(* finish (external): the loop reads on, but what follows has no parts.    *)

(* _FINISH_REASON_MAP: a reason that it does not know is the end of a turn. *)
GeminiReason(finish) ==
  CASE finish = "STOP"       -> "end_turn"
    [] finish = "MAX_TOKENS" -> "max_tokens"
    [] finish \in {"SAFETY", "RECITATION", "OTHER"}   -> "error"
    [] finish \in {"TOOL_USE", "FUNCTION_CALL"}       -> "tool_use"
    [] OTHER                 -> "end_turn"

(* A fault: one event for each chunk. *)
GeminiEventsFirst(kinds) ==
  IF kinds = <<>> THEN <<>>
  ELSE IF kinds[1] = "call" THEN <<ToolUseStart(Len(said) + 1)>>
  ELSE <<TextDelta(Len(said) + 1)>>

(* The events of a part: a function call has no ToolUseDelta.              *)
GeminiEvents(kinds) ==
  [i \in DOMAIN kinds |-> IF kinds[i] = "call" THEN ToolUseStart(Len(said) + i)
                          ELSE TextDelta(Len(said) + i)]

(* A fault: the reason to finish is taken as it comes. *)
GeminiChunkPlain(kinds, finish) ==
  /\ Pulling("gemini") /\ Len(said) + Len(kinds) <= MaxBlocks
  /\ said' = said \o [i \in DOMAIN kinds |-> [kind |-> kinds[i], final |-> finish # None]]
  /\ saw' = (saw \/ \E i \in DOMAIN kinds : kinds[i] = "call")
  /\ Yield(GeminiEvents(kinds))
  /\ stop' = IF finish = None THEN stop ELSE GeminiReason(finish)
  /\ phase' = IF finish = None THEN "reading" ELSE "stopping"
  /\ UNCHANGED <<chain, at, cut, events, result>>

GeminiChunk(kinds, finish) ==
  /\ Pulling("gemini") /\ Len(said) + Len(kinds) <= MaxBlocks
  /\ said' = said \o [i \in DOMAIN kinds |-> [kind |-> kinds[i], final |-> finish # None]]
  /\ saw' = (saw \/ \E i \in DOMAIN kinds : kinds[i] = "call")
  /\ Yield(GeminiEvents(kinds))
  /\ stop' = IF finish = None THEN stop
             ELSE IF saw' THEN "tool_use" ELSE GeminiReason(finish)
  /\ phase' = IF finish = None THEN "reading" ELSE "stopping"
  /\ UNCHANGED <<chain, at, cut, events, result>>

-------------------------------------------------------------------------------
(* Ollama: a chunk may have text, calls of tools, and the mark of the end. *)

OllamaBlocks(text, calls, done) ==
  [i \in 1 .. (IF text = None THEN 0 ELSE 1) + calls |->
     [kind |-> IF i = 1 /\ text # None THEN text ELSE "call", final |-> done]]

(* The two events of each call, one after the other. *)
OllamaCalls(first, calls) ==
  [k \in 1 .. 2 * calls |-> IF k % 2 = 1 THEN ToolUseStart(first + k \div 2 + 1)
                            ELSE ToolUseDelta(first + k \div 2)]

(* A fault: the calls are announced first and their arguments follow.      *)
OllamaEventsGrouped(text, calls, done) ==
  LET first == Len(said) + IF text = None THEN 0 ELSE 1
  IN  (IF text = None THEN <<>> ELSE <<TextDelta(Len(said) + 1)>>)
        \o IF done
           THEN [i \in 1 .. calls |-> ToolUseStart(first + i)]
                  \o [i \in 1 .. calls |-> ToolUseDelta(first + i)]
                  \o <<MessageStop(IF calls > 0 THEN "tool_use" ELSE "end_turn")>>
           ELSE <<>>

(* Text as it comes; calls are read from the last chunk only, and the text *)
(* that was accumulated is never parsed.                                   *)
OllamaEvents(text, calls, done) ==
  LET first == Len(said) + IF text = None THEN 0 ELSE 1
  IN  (IF text = None THEN <<>> ELSE <<TextDelta(Len(said) + 1)>>)
        \o IF done
           THEN OllamaCalls(first, calls)
                  \o <<MessageStop(IF calls > 0 THEN "tool_use" ELSE "end_turn")>>
           ELSE <<>>

OllamaChunk(text, calls, done) ==
  /\ Pulling("ollama")
  /\ text \in {None, "text", "json"}
  /\ Len(said) + Len(OllamaBlocks(text, calls, done)) <= MaxBlocks
  /\ said' = said \o OllamaBlocks(text, calls, done)
  /\ Yield(OllamaEvents(text, calls, done))
  /\ saw' = (done /\ calls > 0)
  /\ phase' = IF done THEN "stopped" ELSE "reading"
  /\ UNCHANGED <<chain, at, cut, stop, events, result>>

-------------------------------------------------------------------------------
(* The end of a stream *)

(* A fault: a stream that was cut ends without its MessageStop.            *)
CloseSilently ==
  /\ Running /\ due = <<>> /\ phase \in {"reading", "stopping"}
  /\ cut' = (phase = "reading")
  /\ Yield(IF phase = "reading" THEN <<>> ELSE <<MessageStop(stop)>>)
  /\ phase' = "stopped"
  /\ UNCHANGED <<chain, at, said, stop, saw, events, result>>

(* The SDK has no more: message_stop, or the loop over the chunks is over. *)
Close ==
  /\ Running /\ due = <<>> /\ phase \in {"reading", "stopping"}
  /\ cut' = (phase = "reading")
  /\ Yield(<<MessageStop(stop)>>)
  /\ phase' = "stopped"
  /\ UNCHANGED <<chain, at, said, stop, saw, events, result>>

(* The generator of the provider returns, and with it chat_stream().       *)
Finish ==
  /\ Running /\ due = <<>> /\ phase = "stopped"
  /\ result' = "ok"
  /\ UNCHANGED <<chain, at, decoder, events>>

-------------------------------------------------------------------------------
(* Errors *)

(* claude.py: chat_stream has no clause for APIStatusError. *)
ClaudeError(e) ==
  CASE e.kind = "auth"       -> "AuthenticationError"
    [] e.kind = "rate"       -> "RateLimitError"
    [] e.kind = "connection" -> "ProviderUnavailableError"
    [] OTHER                 -> "untranslated"

(* gemini.py, _raise_translated: the status of the error, or its words.    *)
GeminiError(e) ==
  IF e.kind = "auth" \/ "authentication" \in e.words THEN "AuthenticationError"
  ELSE IF e.kind = "rate" \/ "rate" \in e.words THEN "RateLimitError"
  ELSE IF e.kind = "bad_request" \/ "invalid" \in e.words THEN "InvalidRequestError"
  ELSE IF e.kind = "connection" \/ "connection" \in e.words THEN "ProviderUnavailableError"
  ELSE "ProviderError"

(* ollama.py: ResponseError is the daemon's, anything else its absence.    *)
OllamaError(e) ==
  IF e.kind = "connection" THEN "ProviderUnavailableError" ELSE "ProviderError"

(* The call to Gemini is inside the try, the reading of its stream is not. *)
Translated(p, e) ==
  CASE p = "claude" -> ClaudeError(e)
    [] p = "gemini" -> IF phase = "opening" THEN GeminiError(e) ELSE "untranslated"
    [] p = "ollama" -> OllamaError(e)

(* chat_stream(): an unavailable provider is left for the next candidate,  *)
(* whatever of its answer was yielded; any other error is the caller's.    *)
Raise(err) ==
  IF err = "ProviderUnavailableError" /\ at < Len(chain) THEN
    /\ at' = at + 1
    /\ phase' = "opening" /\ said' = <<>> /\ cut' = FALSE
    /\ stop' = "end_turn" /\ saw' = FALSE /\ due' = <<>>
    /\ UNCHANGED <<chain, events, result>>
  ELSE
    /\ result' = IF err = "ProviderUnavailableError" THEN "NoProviderAvailableError" ELSE err
    /\ UNCHANGED <<chain, at, decoder, events>>

(* Before anything is sent.  Claude: no key; a message of role system.     *)
ClaudeBuild == {"AuthenticationError", "InvalidRequestError"}

(* Gemini: the same, no SDK; a tool the SDK does not know is left out.     *)
GeminiBuild ==
  {"AuthenticationError", "InvalidRequestError", "ProviderUnavailableError"}

(* Ollama: a daemon that does not list its models, unless the listing is   *)
(* cached; a message of role system is sent as it is.                      *)
OllamaBuild == {"ProviderUnavailableError"}

BuildErrors(p) ==
  CASE p = "claude" -> ClaudeBuild
    [] p = "gemini" -> GeminiBuild
    [] p = "ollama" -> OllamaBuild

Build ==
  /\ Running /\ phase = "opening"
  /\ \E err \in BuildErrors(Provider) : Raise(err)

Open ==
  /\ Running /\ phase = "opening"
  /\ phase' = "reading"
  /\ UNCHANGED <<chain, at, said, cut, stop, saw, due, events, result>>

Fail(e) ==
  /\ Running /\ due = <<>> /\ phase # "stopped"
  /\ Raise(Translated(Provider, e))

-------------------------------------------------------------------------------
(* The reader *)

Deliver ==
  /\ Running /\ due # <<>>
  /\ events' = Append(events, Head(due))
  /\ due' = Tail(due)
  /\ UNCHANGED <<chain, at, phase, said, cut, stop, saw, result>>

Abandon ==
  /\ Running
  /\ result' = "abandoned"
  /\ UNCHANGED <<chain, at, decoder, events>>

GeminiChunks == UNION {[1 .. n -> {"text", "call"}] : n \in 0 .. 2}
FinishReasons == {None, "STOP", "MAX_TOKENS", "SAFETY", "MALFORMED_FUNCTION_CALL"}

Next ==
  \/ Build \/ Open
  \/ \E kind \in {"text", "call"} : ClaudeBlock(kind)
  \/ ClaudeDelta
  \/ \E sr \in {"end_turn", "tool_use", "max_tokens", "stop_sequence", "refusal"} :
       ClaudeMessageDelta(sr)
  \/ \E kinds \in GeminiChunks, finish \in FinishReasons : GeminiChunk(kinds, finish)
  \/ \E text \in {None, "text", "json"}, calls \in 0 .. 2, done \in BOOLEAN :
       OllamaChunk(text, calls, done)
  \/ Close \/ Finish
  \/ \E e \in SdkErrors : Fail(e)
  \/ Deliver
  \/ Abandon

Spec == Init /\ [][Next]_vars

-------------------------------------------------------------------------------
(* What chat() makes of the same answer: claude.py and gemini.py           *)
(* _decode_response keep every call; ollama.py parses the text when there  *)
(* are no native calls.                                                    *)

ChatCalls(p, blocks) ==
  IF p = "ollama" /\ Calls(blocks) = {}
  THEN {i \in DOMAIN blocks : /\ blocks[i].kind = "json"
                              /\ \A j \in 1 .. i - 1 : blocks[j].kind # "json"}
  ELSE Calls(blocks)

-------------------------------------------------------------------------------
(* Properties *)

OfLast(kind) == {i \in DOMAIN events : events[i].by = at /\ events[i].kind = kind}

Started == {events[i].about : i \in OfLast("start")}

(* provider.py:87 and router.py:183-206: the last event of a stream that   *)
(* ends well is the MessageStop of the provider that answered, and no      *)
(* other stream has one: what a reader got of a provider that went down,   *)
(* or of a call that failed, is never closed as if it were an answer.      *)
StopEndsTheStream ==
  /\ \A i \in DOMAIN events : events[i].kind = "stop" =>
       i = Len(events) /\ events[i].by = at
  /\ result = "ok" => events # <<>> /\ Last(events).kind = "stop"
  /\ result \in ProviderErrors \cup {"NoProviderAvailableError", "untranslated"} =>
       OfLast("stop") = {}

(* The calls of the events are those chat() would have returned for the    *)
(* same answer, each started once and in its order; a stream of Ollama     *)
(* misses some and adds none.                                              *)
StreamSaysWhatChatWould ==
  result = "ok" =>
    /\ Provider # "ollama" => Started = ChatCalls(Provider, said)
    /\ Started \subseteq ChatCalls(Provider, said)
    /\ \A i, j \in OfLast("start") : i < j => events[i].about < events[j].about

(* messages.py: a ToolUseDelta names no call, so its reader gives it to    *)
(* the last one started: that is the call it is about, of this provider.   *)
ArgumentsFollowTheirCall ==
  \A i \in DOMAIN events : events[i].kind = "args" =>
    \E j \in 1 .. i - 1 :
      /\ events[j].kind = "start"
      /\ events[j].by = events[i].by /\ events[j].about = events[i].about
      /\ \A k \in j + 1 .. i - 1 : events[k].kind # "start"

(* The reason of the MessageStop and the calls before it agree: tool_use   *)
(* follows a call of the same provider, and an answer with calls that was  *)
(* not cut ends with tool_use, or says why it has to be distrusted.        *)
StopTellsOfCalls ==
  result = "ok" =>
    /\ Last(events).reason = "tool_use" => Started # {}
    /\ Started # {} /\ ~cut => Last(events).reason \in {"tool_use", "max_tokens", "error"}

(* What a docstring says and the code does not do. *)

(* ollama.py:489-490: the text is emitted by chunks, and the tool is       *)
(* resolved at the close.                                                  *)
ToolIsResolvedAtClose ==
  result = "ok" /\ Provider = "ollama" => Started = ChatCalls(Provider, said)
===============================================================================
