------------------------------- MODULE MCSandbox -------------------------------
(* The policy and the two layers built from it: nested paths, written      *)
(* below the home, relative to the working directory and below the home of *)
(* another user, the network, and two capabilities of sudo, of which one   *)
(* is never granted.                                                       *)
EXTENDS SandboxLaunch

CONSTANT MaxKnown

MCHomes == ("~" :> <<"home", "ana">>) @@ ("~bob" :> <<"home", "bob">>)
MCUserName == "~bob" :> "bob"
MCHomeDir == <<"home", "ana">>
MCCwd == <<"srv">>

ReadDocs  == [kind |-> "read-fs", scope |-> <<"~", "docs">>]
WriteOut  == [kind |-> "write-fs", scope |-> <<"~", "docs", "..", "docs", "out">>]
ReadKeys  == [kind |-> "read-fs", scope |-> <<"..", "home", "ana", "docs", ".", "keys">>]
WriteBob  == [kind |-> "write-fs", scope |-> <<"~bob", "docs">>]
AnyHost   == [kind |-> "network", scope |-> <<"any">>]
SudoPkg   == [kind |-> "sudo", scope |-> <<"install">>]

MCCaps == {ReadDocs, WriteOut, ReadKeys, WriteBob, AnyHost, SudoPkg, SudoNever}

(* A session launches with a path and the network; or, in normal mode and  *)
(* without the filter, with three paths or a pair that is denied in part;  *)
(* or it goes through any history of MaxKnown capabilities without         *)
(* building a layer.                                                       *)
Known == DOMAIN grants \cup denied \cup ledger.granted

Bounds ==
  \/ Known \subseteq {WriteOut, AnyHost}
  \/ /\ filter = NotBuilt /\ mode = "normal"
     /\ Known \subseteq {ReadDocs, WriteOut, WriteBob} \/ Known \subseteq {ReadDocs, ReadKeys}
  \/ /\ argv = NotBuilt /\ filter = NotBuilt
     /\ Cardinality(Known) <= MaxKnown
     /\ Known \subseteq {ReadDocs, WriteOut, AnyHost, SudoPkg, SudoNever}

(* The last event decides no later step and no property.                   *)
LaunchView == <<mode, grants, denied, now, ledger, order, argv, filter, fresh, built>>
================================================================================
