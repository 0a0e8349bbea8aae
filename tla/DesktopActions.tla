----------------------------- MODULE DesktopActions -----------------------------
(***************************************************************************)
(* The actions that the models of the prototype ask for, and the gestures  *)
(* on the desktop that each stands for (agent/prototype/claude_loop.py,    *)
(* gemini_loop.py, ollama_loop.py, over tools.py).                         *)
(*                                                                         *)
(* Coordinates, texts and keys are left out; where an argument decides     *)
(* which gestures are made, its cases are entries of their own: scroll_on  *)
(* has coordinates, key_combo has a "+" in its text.                       *)
(***************************************************************************)
EXTENDS Sequences

(* tools.py *)
Moves == {"click", "right", "middle", "double", "move", "drag", "scroll", "text", "press",
          "hotkey", "launch", "pause", "capture"}

Drag == <<"move", "drag">>
Look == <<"capture">>

(* claude_loop.py, _execute_action *)
ClaudeActions ==
  [screenshot   |-> Look,         cursor_position |-> Look,
   left_click   |-> <<"click">>,  right_click     |-> <<"right">>,
   middle_click |-> <<"middle">>, double_click    |-> <<"double">>,
   mouse_move   |-> <<"move">>,   left_click_drag |-> Drag,
   scroll       |-> <<"scroll">>, scroll_on       |-> <<"move", "scroll">>,
   type         |-> <<"text">>,   wait            |-> <<"pause">>,
   key          |-> <<"press">>,  key_combo       |-> <<"hotkey">>]

(* gemini_loop.py, _action_to_local *)
GeminiKinds ==
  [click_at        |-> "click",    left_click_at    |-> "click",
   right_click_at  |-> "right",    double_click_at  |-> "double",
   hover_at        |-> "move",     move_at          |-> "move",
   mouse_move_at   |-> "move",     type_text_at     |-> "type_at",
   type_text       |-> "type",     key_combination  |-> "shortcut",
   key_single      |-> "key",      key_none         |-> "nothing",
   scroll_at       |-> "scroll",   drag_and_drop    |-> "drag",
   wait            |-> "wait",     screenshot       |-> "screenshot",
   take_screenshot |-> "screenshot",
   open_web_browser |-> "open_url", navigate_to     |-> "open_url"]

(* gemini_loop.py, _execute_local *)
GeminiPlans ==
  [click  |-> <<"click">>,  right    |-> <<"right">>,  double |-> <<"double">>,
   move   |-> <<"move">>,   type     |-> <<"text">>,   type_at |-> <<"click", "text">>,
   shortcut |-> <<"hotkey">>, key    |-> <<"press">>,  nothing |-> <<>>,
   scroll |-> <<"move", "scroll">>,  drag |-> Drag,    wait |-> <<"pause">>,
   screenshot |-> Look,
   open_url |-> <<"launch", "pause", "hotkey", "text", "press">>]

(* ollama_loop.py, _execute: done and stuck do nothing.                    *)
OllamaActions ==
  [screenshot  |-> Look,          click        |-> <<"click">>,
   double_click |-> <<"double">>, right_click  |-> <<"right">>,
   type        |-> <<"text">>,    key          |-> <<"press">>,
   key_combo   |-> <<"hotkey">>,  scroll       |-> <<"scroll">>,
   wait        |-> <<"pause">>,   launch       |-> <<"launch", "pause">>,
   done        |-> <<>>,          stuck        |-> <<>>]

Known(loop) ==
  CASE loop = "claude" -> DOMAIN ClaudeActions
    [] loop = "gemini" -> DOMAIN GeminiKinds
    [] loop = "ollama" -> DOMAIN OllamaActions
    [] OTHER           -> {}

(* The gestures of an action; an unknown one makes none.  The loop of      *)
(* Ollama looks at the screen after each action that is not its last.      *)
Gestures(loop, name) ==
  IF name \notin Known(loop) THEN <<>>
  ELSE CASE loop = "claude" -> ClaudeActions[name]
         [] loop = "gemini" -> GeminiPlans[GeminiKinds[name]]
         [] loop = "ollama" ->
              OllamaActions[name] \o IF name \in {"done", "stuck"} THEN <<>> ELSE Look

(* What is told to the model of an action that was carried out.            *)
AnswerKind(loop, name) ==
  IF name \notin Known(loop) THEN "error"
  ELSE IF Gestures(loop, name) = Look THEN "image" ELSE "ok"
=================================================================================
