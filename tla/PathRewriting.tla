----------------------------- MODULE PathRewriting -----------------------------
(***************************************************************************)
(* What a path means, step by step: a reference for Normalize and          *)
(* PathCovers of Capability.  A path is rewritten in any order by the      *)
(* three identities of a file system without links: "." is nowhere, a name *)
(* followed by ".." is nowhere, and the root is its own parent.            *)
(***************************************************************************)
EXTENDS Capability, Integers

CONSTANTS
  Names,      \* names of directories
  MaxLength,  \* bound: components of a path after its first
  GrantPaths  \* scopes of grants

ASSUME LengthAssumption == MaxLength \in Nat

RawPaths ==
  { <<root>> \o rest : root \in {"/", "~"} \cup Names,
                       rest \in BoundedSeq(Names \cup {".", ".."}, MaxLength) }

VARIABLES
  start,  \* the path as the capability has it
  path    \* its components, rewritten so far

rewriteVars == <<start, path>>

RewriteInit == start \in RawPaths /\ path = Absolute(start)

Dot(i)       == path[i] = "."
Detour(i)    == i < Len(path) /\ path[i] \notin {".", ".."} /\ path[i + 1] = ".."
AboveRoot(i) == i = 1 /\ path[i] = ".."

DropDot(i)       == Dot(i) /\ path' = RemoveAt(path, i)
DropDetour(i)    == Detour(i) /\ path' = RemoveAt(RemoveAt(path, i), i)
DropAboveRoot(i) == AboveRoot(i) /\ path' = RemoveAt(path, i)

RewriteNext ==
  /\ \E i \in 1 .. Len(path) : DropDot(i) \/ DropDetour(i) \/ DropAboveRoot(i)
  /\ UNCHANGED start

RewriteSpec == RewriteInit /\ [][RewriteNext]_rewriteVars

(* The identities are exhausted in one path, whatever their order, and it  *)
(* is the one _normalize_path computes.                                    *)
NormalizeIsTheNormalForm ==
  (\A i \in 1 .. Len(path) : ~(Dot(i) \/ Detour(i) \/ AboveRoot(i)))
    => path = Normalize(start)

(* A grant covers a path by where it leads and not by how it is written:   *)
(* no detour through ".." brings a path under a grant or out of it.        *)
CoverageSurvivesRewriting ==
  \A g \in GrantPaths : PathCovers(g, start) <=> PathCovers(g, <<"/">> \o path)
===============================================================================
