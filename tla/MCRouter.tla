-------------------------------- MODULE MCRouter -------------------------------
(* Two cloud providers and the local daemon, the requests that route       *)
(* apart, and a policy of each kind.                                      *)
EXTENDS Router, TLC

CONSTANTS claude, gemini, ollama

Model(vision, tools, computer, cost, place) ==
  [vision |-> vision, tools |-> tools, computer |-> computer, cost |-> cost, place |-> place]

MCCloud == {claude, gemini}
MCOrder == claude :> 1 @@ gemini :> 2 @@ ollama :> 3

Opus  == Model(TRUE, TRUE, TRUE, 15, 1)
Haiku == Model(TRUE, TRUE, FALSE, 1, 2)
Flash == Model(TRUE, TRUE, FALSE, 1, 1)
Qwen  == Model(FALSE, TRUE, FALSE, 0, 1)
Llava == Model(TRUE, FALSE, FALSE, 0, 2)

MCCatalog == claude :> {Opus, Haiku} @@ gemini :> {Flash} @@ ollama :> {Qwen, Llava}

Plain == [private |-> FALSE, pii |-> FALSE, images |-> FALSE, tools |-> FALSE, computer |-> FALSE]
Private  == [Plain EXCEPT !.private = TRUE]
Pii      == [Plain EXCEPT !.pii = TRUE, !.tools = TRUE]
Images   == [Plain EXCEPT !.images = TRUE, !.tools = TRUE]
Tools    == [Plain EXCEPT !.tools = TRUE]
Computer == [Plain EXCEPT !.computer = TRUE, !.images = TRUE]

AllRequests == {Plain, Private, Pii, Images, Tools, Computer}

Auto == [mode |-> "auto", force_local_for_pii |-> TRUE, monthly_exhausted |-> FALSE,
         session_exhausted |-> FALSE, preferred |-> {}, require_vision |-> TRUE,
         require_computer |-> TRUE]
Mode(m) == [Auto EXCEPT !.mode = m]

AllPolicies ==
  {Mode(m) : m \in {"auto", "cloud_first", "local_first", "cloud_only", "local_only"}}
    \cup {[Mode("cloud_first") EXCEPT !.monthly_exhausted = TRUE],
          [Mode("cloud_first") EXCEPT !.force_local_for_pii = FALSE, !.preferred = {Haiku},
                                      !.require_computer = FALSE]}

OverSession == {[Auto EXCEPT !.session_exhausted = TRUE]}
=================================================================================
