---------------------------- MODULE MCProviderStream ----------------------------
(* Each provider alone, and the plans that fall back from one to another. *)
EXTENDS ProviderStream

MCChains ==
  {<<"claude">>, <<"gemini">>, <<"ollama">>,
   <<"claude", "ollama">>, <<"gemini", "ollama">>, <<"ollama", "claude", "gemini">>}
=================================================================================
