----------------------------- MODULE SandboxLaunch -----------------------------
(***************************************************************************)
(* A command started in the sandbox of a session: the argv of bubblewrap   *)
(* (agent/sandbox/bwrap.py) and the seccomp filter                         *)
(* (agent/sandbox/seccomp.py), each computed from the policy when it is    *)
(* built, while the session goes on granting, denying and changing mode.   *)
(* bwrap.py has a reading of path scopes of its own (_resolve_path), which *)
(* is not the one the policy compares them by (_normalize_path).           *)
(*                                                                         *)
(* Neither builder changes the policy and neither looks at the other's     *)
(* result.  Starting the command is the caller's and bwrap's work          *)
(* (external): bwrap mounts the binds in order, installs the filter and    *)
(* then calls execve.  System calls are told apart by what the builders    *)
(* tell apart: "base", "execve" and "network".                             *)
(***************************************************************************)
EXTENDS SandboxPolicy

CONSTANTS
  NotBuilt,
  HomeDir,   \* home_dir, or Path.home(): components of the home of bwrap.py
  UserName,  \* "~user" -> "user", on the first names of paths that start so
  BwrapCwd   \* external: components of the directory bwrap is started in

ASSUME ReadingAssumption ==
  /\ HomeDir \in Seq(STRING) /\ BwrapCwd \in Seq(STRING)
  /\ DOMAIN UserName \cap {"~", "/"} = {}
  /\ DOMAIN Homes \subseteq {"~"} \cup DOMAIN UserName

VARIABLES
  order,    \* the capabilities granted, in the order of the dict
  argv,     \* NotBuilt, or what bwrap is told: whether the network is shared,
            \* and its binds in order, [path, absolute, writable]
  filter,   \* NotBuilt, or which of "base", "execve" and "network" it allows
  fresh,    \* history: which of "argv" and "filter" were built since the
            \* policy last changed
  built     \* history: the grants of paths that were active when argv was built

allVars == <<mode, grants, denied, now, last, ledger, order, argv, filter, fresh, built>>

-------------------------------------------------------------------------------
(* The builders *)

HasNetworkGrant == \E g \in Active : g.kind = "network"

(* normpath of a relative path keeps the ".." that lead above its start.   *)
NormRelStep(dir, name) ==
  IF name = ".." /\ (dir = <<>> \/ Last(dir) = "..")
  THEN Append(dir, name)
  ELSE NormStep(dir, name)

NormRel(names) ==
  LET dir[n \in 0 .. Len(names)] == IF n = 0 THEN <<>> ELSE NormRelStep(dir[n - 1], names[n])
  IN  dir[Len(names)]

(* A scope that starts with "~" is taken below the one home, what follows  *)
(* the "~" included; a relative one stays relative.                        *)
Resolve(scope) ==
  CASE scope[1] = "/" -> [path |-> NormPath(Tail(scope)), absolute |-> TRUE]
    [] scope[1] = "~" -> [path |-> NormPath(HomeDir \o Tail(scope)), absolute |-> TRUE]
    [] scope[1] \in DOMAIN UserName ->
         [path |-> NormPath(HomeDir \o <<UserName[scope[1]]>> \o Tail(scope)), absolute |-> TRUE]
    [] OTHER -> [path |-> NormRel(scope), absolute |-> FALSE]

BindOf(c) ==
  LET resolved == Resolve(c.scope)
  IN  [path |-> resolved.path, absolute |-> resolved.absolute, writable |-> c.kind = "write-fs"]

(* The members of S in the sequence s, in its order: a recursive function  *)
(* where SelectSeq would do, since the provers cannot expand SelectSeq.    *)
Keep(kept, e, S) == IF e \in S THEN Append(kept, e) ELSE kept

Select(s, S) ==
  LET kept[n \in 0 .. Len(s)] == IF n = 0 THEN <<>> ELSE Keep(kept[n - 1], s[n], S)
  IN  kept[Len(s)]

(* A fault: expired grants are bound as well. *)
BindsOfAllGrants ==
  LET paths == Select(order, {g \in DOMAIN grants : g.kind \in PathKinds})
  IN  [i \in DOMAIN paths |-> BindOf(paths[i])]

(* One bind for each active grant of a path, in the order of the grants.   *)
Binds ==
  LET paths == Select(order, {g \in Active : g.kind \in PathKinds})
  IN  [i \in DOMAIN paths |-> BindOf(paths[i])]

PathGrants == {g \in Active : g.kind \in PathKinds}

BuildArgv ==
  /\ argv' = [net |-> mode # "demo" /\ HasNetworkGrant, binds |-> Binds]
  /\ fresh' = fresh \cup {"argv"}
  /\ built' = PathGrants
  /\ UNCHANGED <<vars, order, filter>>

(* SeccompProfile.default() and paranoid(): the latter drops execve. *)
BaseWhitelist(m) == IF m = "normal" THEN {"base", "execve"} ELSE {"base"}

(* A fault: a demo session with a network grant gets the network calls. *)
FilterIgnoringDemo ==
  BaseWhitelist(mode) \cup IF HasNetworkGrant THEN {"network"} ELSE {}

FilterFor ==
  BaseWhitelist(mode)
    \cup IF mode # "demo" /\ HasNetworkGrant THEN {"network"} ELSE {}

BuildFilter ==
  /\ filter' = FilterFor
  /\ fresh' = fresh \cup {"filter"}
  /\ UNCHANGED <<vars, order, argv, built>>

(* External: bwrap runs with what was built, and it is not used again; a   *)
(* session in demo mode starts nothing.                                    *)
Start ==
  /\ argv # NotBuilt /\ filter # NotBuilt /\ mode # "demo"
  /\ argv' = NotBuilt
  /\ filter' = NotBuilt
  /\ fresh' = {}
  /\ built' = {}
  /\ UNCHANGED <<vars, order>>

(* A dict keeps its keys in the order they were inserted: a grant that     *)
(* replaces another keeps its place.                                       *)
OrderAfter ==
  Select(order, DOMAIN grants') \o SetToSeq(DOMAIN grants' \ DOMAIN grants)

(* One operation of the session, or a step of the clock.                   *)
PolicyStep ==
  /\ Next
  /\ order' = OrderAfter
  /\ fresh' = {}
  /\ UNCHANGED <<argv, filter, built>>

LaunchInit ==
  /\ Init
  /\ order = <<>>
  /\ argv = NotBuilt /\ filter = NotBuilt
  /\ fresh = {} /\ built = {}

LaunchNext == BuildArgv \/ BuildFilter \/ Start \/ PolicyStep

LaunchSpec == LaunchInit /\ [][LaunchNext]_allVars

-------------------------------------------------------------------------------
(* What the process sees of the host, by the binds of the grants: besides  *)
(* these the profile binds the directories of the system, read-only.       *)

(* The host's directory that a bind shows: bwrap takes a relative path     *)
(* from the directory it is started in.                                    *)
Source(bind) == IF bind.absolute THEN bind.path ELSE NormPath(BwrapCwd \o bind.path)

(* Where it shows it: below the root of the process, relative or not.      *)
Target(bind) == NormPath(bind.path)

Place(bind, path) == Target(bind) \o SubSeq(path, Len(Source(bind)) + 1, Len(path))

(* A later bind is mounted over an earlier one.                            *)
Showing(binds, path) ==
  {i \in DOMAIN binds :
     /\ IsPrefix(Source(binds[i]), path)
     /\ \A j \in DOMAIN binds : j > i => ~IsPrefix(Target(binds[j]), Place(binds[i], path))}

Readable(binds, path) == Showing(binds, path) # {}

Writable(binds, path) == \E i \in Showing(binds, path) : binds[i].writable

PathCaps(kind) == {c \in Caps : c.kind = kind}

(* The scopes that bwrap.py and the policy read alike: not "~user", and    *)
(* the others as far as home_dir is the user's home, and bwrap is started  *)
(* where the policy was asked.                                             *)
ReadAlike(scope) ==
  \/ scope[1] = "/"
  \/ scope[1] = "~" /\ HomeDir = Homes["~"]
  \/ scope[1] \notin {"/", "~"} \cup DOMAIN UserName /\ BwrapCwd = Cwd

(* The directory a grant is for: the policy's, or bwrap.py's own.          *)
Meant(g) == IF ReadAlike(g.scope) THEN Normalize(g.scope) ELSE Source(BindOf(g))

-------------------------------------------------------------------------------
(* Properties *)

(* However long an argv waits and whatever is revoked, denied or expires   *)
(* meanwhile, its binds are those of the grants that were active when it   *)
(* was built, at the directory the policy reads in the grant wherever      *)
(* bwrap.py reads the scope alike; so what can be read or written is below *)
(* such a directory, and written only by a grant to write.  If the policy  *)
(* has not changed since, these are the grants active now, none of them    *)
(* denied and none missing: bwrap.py never consults the blocklist and      *)
(* relies on the policy for that.                                          *)
NothingBeyondGrants ==
  argv # NotBuilt =>
    /\ \A c \in PathCaps("write-fs") :
         Writable(argv.binds, Normalize(c.scope)) =>
           \E g \in built : g.kind = "write-fs" /\ IsPrefix(Meant(g), Normalize(c.scope))
    /\ \A c \in PathCaps("read-fs") \cup PathCaps("write-fs") :
         Readable(argv.binds, Normalize(c.scope)) =>
           \E g \in built : IsPrefix(Meant(g), Normalize(c.scope))
    /\ {[path |-> Source(b), writable |-> b.writable] : b \in ToSet(argv.binds)}
         = {[path |-> Meant(g), writable |-> g.kind = "write-fs"] : g \in built}
    /\ "argv" \in fresh => built = PathGrants \ denied

(* policy.py:35-37: what is denied prevails over any grant.  So what is    *)
(* denied is not mounted with a directory above it that is granted.        *)
DeniedIsNotMounted ==
  "argv" \in fresh =>
    \A c \in denied :
      /\ c.kind = "read-fs" => ~Readable(argv.binds, Normalize(c.scope))
      /\ c.kind = "write-fs" => ~Writable(argv.binds, Normalize(c.scope))

(* An argv and a filter built from the same state of the policy agree: the *)
(* network namespace is shared exactly when the network calls are allowed, *)
(* and in demo mode neither is.                                            *)
LayersAgree ==
  {"argv", "filter"} \subseteq fresh =>
    /\ argv.net <=> "network" \in filter
    /\ mode = "demo" => ~argv.net

(* seccomp.py:38-41 and 52: execve is allowed, and bwrap installs the      *)
(* filter before its execve of the command.  So a session that runs        *)
(* commands has a filter they can be started under.                        *)
CommandsCanStart ==
  "filter" \in fresh /\ mode # "demo" => "execve" \in filter
===============================================================================
