-------------------------------- MODULE MCVoice --------------------------------
(* Two threads; a capture at the rate of the detector, at another, and one *)
(* of float32 on a machine without the detector.                           *)
EXTENDS Voice, TLC

MCConfigs ==
  {[rate |-> 16000, channels |-> 1, dtype |-> "int16", detector |-> TRUE],
   [rate |-> 48000, channels |-> 2, dtype |-> "int16", detector |-> TRUE],
   [rate |-> 16000, channels |-> 1, dtype |-> "float32", detector |-> FALSE]}

Symmetry == Permutations(Threads)
================================================================================
