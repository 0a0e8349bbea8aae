---------------------------- MODULE MCToolExecutor ----------------------------
(* Tools for ToolExecutor: one of each risk, two of them with all the      *)
(* capabilities.                                                           *)
EXTENDS ToolExecutor

Reads     == [risk |-> "safe", caps |-> Caps, version |-> 1]
Confirm   == [risk |-> "confirm", caps |-> {}, version |-> 2]
Dangerous == [risk |-> "dangerous", caps |-> Caps, version |-> 3]

MCDefs == {Reads, Confirm, Dangerous}

===============================================================================
