------------------------------ MODULE Capability ------------------------------
(***************************************************************************)
(* Capabilities of the sandbox policy, agent/sandbox/policy.py: a pair     *)
(* (kind, scope), the normalisation of path scopes and the coverage        *)
(* relation that decides which requests a grant answers.                   *)
(*                                                                         *)
(* A scope is a non-empty sequence of names.  The scope of a path kind is  *)
(* the path cut at its separators, its first name telling how it starts    *)
(* ("/", "~", "~user", or the first component of a relative path); the     *)
(* scope of any other kind is one name.                                    *)
(***************************************************************************)
EXTENDS SequencesExt

CONSTANTS
  Homes,  \* what expanduser knows: "~", and "~user" of the users of the system,
          \* -> components of the home directory
  Cwd     \* components of the working directory that anchors relative paths

ASSUME DirectoriesAssumption ==
  /\ "~" \in DOMAIN Homes /\ "/" \notin DOMAIN Homes
  /\ \A tilde \in DOMAIN Homes : Homes[tilde] \in Seq(STRING)
  /\ Cwd \in Seq(STRING)

Kinds == {"read-fs", "write-fs", "network", "shell", "clipboard", "screen",
          "input", "app", "sudo"}

PathKinds == {"read-fs", "write-fs"}

Capability == [kind : Kinds, scope : Seq(STRING)]

SudoNever == [kind |-> "sudo", scope |-> <<"never">>]

(* The components from the root of a path as written: expanduser, then the *)
(* working directory in front of a relative path.  A user expanduser does  *)
(* not know leaves the path as it is, and that is a relative one.          *)
Absolute(path) ==
  CASE path[1] = "/"            -> Tail(path)
    [] path[1] \in DOMAIN Homes -> Homes[path[1]] \o Tail(path)
    [] OTHER                    -> Cwd \o path

(* A fault: ".." is dropped like ".", the directory before it kept. *)
StepIgnoringParent(dir, name) ==
  IF name \in {".", ".."} THEN dir ELSE Append(dir, name)

(* What os.path.normpath does with one more component. *)
NormStep(dir, name) ==
  CASE name = "."  -> dir
    [] name = ".." -> IF dir = <<>> THEN dir ELSE Front(dir)
    [] OTHER       -> Append(dir, name)

(* The components that normpath is left with, one after the other.         *)
NormPath(names) ==
  LET dir[n \in 0 .. Len(names)] == IF n = 0 THEN <<>> ELSE NormStep(dir[n - 1], names[n])
  IN  dir[Len(names)]

Normalize(path) == NormPath(Absolute(path))

(* A fault: the two scopes are compared as they were written. *)
RawPathCovers(grantScope, requestedScope) == IsPrefix(grantScope, requestedScope)

PathCovers(grantScope, requestedScope) ==
  IsPrefix(Normalize(grantScope), Normalize(requestedScope))

Covers(grant, requested) ==
  /\ grant.kind = requested.kind
  /\ \/ grant.kind \in PathKinds /\ PathCovers(grant.scope, requested.scope)
     \/ grant.kind = "network" /\ grant.scope = <<"any">>
     \/ grant.kind \notin PathKinds /\ grant.scope = requested.scope
===============================================================================
