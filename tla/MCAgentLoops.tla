------------------------------ MODULE MCAgentLoops ------------------------------
(* For each loop an action of several gestures, one that is answered by an *)
(* image, one that no loop knows, and those that end it.                   *)
EXTENDS AgentLoops

MCActions ==
  [claude |-> {"left_click_drag", "fly"},
   gemini |-> {"type_text_at", "screenshot"},
   ollama |-> {"launch", "fly", "done", "stuck"}]
=================================================================================
