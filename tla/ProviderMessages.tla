---------------------------- MODULE ProviderMessages ----------------------------
(***************************************************************************)
(* The messages of agent/core/messages.py, and what the three providers    *)
(* make of them: how a call of a tool and its result are put on the wire   *)
(* (agent/providers/claude.py, gemini.py, ollama.py), how the calls of an  *)
(* answer are read back, and which conversations their APIs accept.        *)
(*                                                                         *)
(* A text, an image and the arguments of a call carry nothing that the     *)
(* properties tell apart; kept are who speaks, the calls, their ids, and   *)
(* the results.                                                            *)
(***************************************************************************)
EXTENDS Naturals, SequencesExt

CONSTANT None

(* An id that the API or uuid4 gives, by the turn and the place of the     *)
(* call, and an id that is a name.                                         *)
FreshId(turn, n) == [name |-> None, turn |-> turn, n |-> n]
NameId(name)     == [name |-> name, turn |-> 0, n |-> 0]

(* Message, with its ToolUseBlocks and its ToolResultBlocks.               *)
UserText           == [role |-> "user", by |-> None, calls |-> <<>>, results |-> <<>>]
UserResults(rs)    == [role |-> "user", by |-> None, calls |-> <<>>, results |-> rs]
Assistant(p, cs)   == [role |-> "assistant", by |-> p, calls |-> cs, results |-> <<>>]

-------------------------------------------------------------------------------
(* Decoding: the calls of an answer.  Claude gives each call an id, Ollama *)
(* none, so it gets a new one; Gemini may give one, else the name is used. *)

CallId(p, name, given, turn, n) ==
  IF p = "gemini" /\ ~given THEN NameId(name) ELSE FreshId(turn, n)

Decoded(p, names, given, turn) ==
  [n \in DOMAIN names |-> [id |-> CallId(p, names[n], given, turn, n), name |-> names[n]]]

(* ollama.py: a model whose name has a marker is sent the tools if it is   *)
(* listed; one without a marker is told of them in the system prompt.  The *)
(* calls of the others are at most the one that is parsed from the text.   *)
NativeTools(model) == model.listed /\ model.marked

-------------------------------------------------------------------------------
(* Encoding *)

(* claude.py, _encode_block *)
ClaudeCalls(m)   == [n \in DOMAIN m.calls |-> m.calls[n].id]
ClaudeResults(m) == [n \in DOMAIN m.results |-> m.results[n].id]

(* gemini.py, _encode_block_to_part: a function_call carries the name, and *)
(* _lookup_function_name puts the id where the name of a response belongs; *)
(* a part that is no function_response has None there.                     *)
GeminiCalls(m)     == [n \in DOMAIN m.calls |-> NameId(m.calls[n].name)]
GeminiResponses(m) == [n \in DOMAIN m.results |-> m.results[n].id]

(* ollama.py, _encode_message: a message without text or calls is dropped, *)
(* and each result is a message of role tool after it.                     *)
OllamaWire(m) ==
  (IF m.calls = <<>> /\ m.results # <<>> THEN <<>>
   ELSE <<[role |-> m.role, calls |-> Len(m.calls)]>>)
    \o [n \in DOMAIN m.results |-> [role |-> "tool", calls |-> 0]]

-------------------------------------------------------------------------------
(* What the APIs accept: the calls of a turn are answered in the next one. *)

Turns(ms) == {i \in DOMAIN ms : ms[i].role = "assistant" /\ i < Len(ms)}

(* Claude matches by the id, which no other call of the conversation has.  *)
ClaudeAccepts(ms) ==
  /\ \A i \in Turns(ms) : ToSet(ClaudeCalls(ms[i])) = ToSet(ClaudeResults(ms[i + 1]))
  /\ IsInjective(FlattenSeq([i \in DOMAIN ms |-> ClaudeCalls(ms[i])]))

(* Gemini matches by the name, in the order of the calls.                  *)
GeminiAccepts(ms) ==
  \A i \in Turns(ms) : GeminiCalls(ms[i]) = GeminiResponses(ms[i + 1])

(* Ollama's templates take the results in the order they come.             *)
OllamaAccepts(ms) ==
  LET wire == FlattenSeq([i \in DOMAIN ms |-> OllamaWire(ms[i])])
  IN  \A j \in DOMAIN wire : \A k \in 1 .. wire[j].calls :
        j + k \in DOMAIN wire /\ wire[j + k].role = "tool"

Accepts(p, ms) ==
  CASE p = "claude" -> ClaudeAccepts(ms)
    [] p = "gemini" -> GeminiAccepts(ms)
    [] p = "ollama" -> OllamaAccepts(ms)
=================================================================================
