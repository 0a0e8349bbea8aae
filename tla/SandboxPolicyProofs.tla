-------------------------- MODULE SandboxPolicyProofs --------------------------
(***************************************************************************)
(* Theorems about SandboxPolicy and SandboxLaunch, for every set of        *)
(* capabilities, every set of expiry times and every clock, and about what *)
(* a path means (PathRewriting), for paths of any length.                  *)
(***************************************************************************)
EXTENDS SandboxLaunch, PathRewriting, SequenceTheorems, FiniteSetTheorems,
        WellFoundedInduction, TLAPS

(* What hearing an event makes of a well-typed ledger is well-typed. *)
LEMMA HearType ==
  ASSUME NEW told \in [mode : Modes, granted : SUBSET Caps,
                       denied : SUBSET Caps, unexplained : SUBSET Caps],
         NEW event \in Events, NEW c \in Caps
  PROVE  Hear(told, event, c) \in [mode : Modes, granted : SUBSET Caps,
                                   denied : SUBSET Caps, unexplained : SUBSET Caps]
BY DEF Hear

(* The mode, the grants, the blocklist, the clock, the last event and the  *)
(* ledger keep their types under every operation of SandboxPolicy.         *)
THEOREM TypeCorrect == Spec => []TypeOK
<1>1. Init => TypeOK
  BY CapsAssumption, ClockAssumption DEF Init, TypeOK, Modes, Events, Expiry
<1>2. TypeOK /\ [Next]_vars => TypeOK'
  <2> SUFFICES ASSUME TypeOK, [Next]_vars PROVE TypeOK'
    OBVIOUS
  <2>1. ASSUME NEW m \in Modes, SetMode(m) PROVE TypeOK'
    BY <2>1 DEF SetMode, EmitMode, TypeOK, Events
  <2>2. ASSUME NEW c \in Caps, NEW e \in Expiry, Grant(c, e) PROVE TypeOK'
    <3>1. ledger' \in [mode : Modes, granted : SUBSET Caps,
                       denied : SUBSET Caps, unexplained : SUBSET Caps]
      BY <2>2, HearType DEF Grant, Emit, TypeOK, Events
    <3> QED BY <2>2, <3>1 DEF Grant, Put, Emit, TypeOK, Events
  <2>3. ASSUME NEW c \in Caps, GrantRejected(c) PROVE TypeOK'
    <3>1. ledger' \in [mode : Modes, granted : SUBSET Caps,
                       denied : SUBSET Caps, unexplained : SUBSET Caps]
      BY <2>3, HearType DEF GrantRejected, Emit, TypeOK, Events
    <3> QED BY <2>3, <3>1 DEF GrantRejected, Emit, TypeOK, Events
  <2>4. ASSUME NEW c \in Caps, Revoke(c) PROVE TypeOK'
    <3>1. ledger' \in [mode : Modes, granted : SUBSET Caps,
                       denied : SUBSET Caps, unexplained : SUBSET Caps]
      BY <2>4, HearType DEF Revoke, Emit, TypeOK, Events
    <3> QED BY <2>4, <3>1 DEF Revoke, Without, Emit, TypeOK, Events
  <2>5. ASSUME NEW c \in Caps, Deny(c) PROVE TypeOK'
    <3>1. ledger' \in [mode : Modes, granted : SUBSET Caps,
                       denied : SUBSET Caps, unexplained : SUBSET Caps]
      BY <2>5, HearType DEF Deny, Emit, TypeOK, Events
    <3> QED BY <2>5, <3>1 DEF Deny, Without, Emit, TypeOK, Events
  <2>6. ASSUME NEW c \in Caps, AssertCapability(c) PROVE TypeOK'
    <3>0. Verdict(c) \in Events
      BY DEF Verdict, Events
    <3>1. ledger' \in [mode : Modes, granted : SUBSET Caps,
                       denied : SUBSET Caps, unexplained : SUBSET Caps]
      BY <2>6, <3>0, HearType DEF AssertCapability, Emit, TypeOK
    <3> QED BY <2>6, <3>0, <3>1 DEF AssertCapability, Emit, TypeOK
  <2>7. ASSUME PurgeExpired PROVE TypeOK'
    <3>1. ledger' = ledger
      BY <2>7 DEF PurgeExpired, Emit, Hear
    <3> QED BY <2>7, <3>1 DEF PurgeExpired, Without, Emit, TypeOK, Events
  <2>8. ASSUME Clock PROVE TypeOK'
    BY <2>8 DEF Clock, TypeOK
  <2>9. CASE UNCHANGED vars
    BY <2>9 DEF vars, TypeOK
  <2> QED BY <2>1, <2>2, <2>3, <2>4, <2>5, <2>6, <2>7, <2>8, <2>9 DEF Next
<1> QED BY <1>1, <1>2, PTL DEF Spec

-------------------------------------------------------------------------------
(* DeniedNotGranted: bwrap.py reads the grants and not the blocklist, so a *)
(* capability the user denied must never be left, or put back, in grants.  *)
THEOREM DeniedNeverGranted == Spec => []DeniedNotGranted
<1>1. Init => DeniedNotGranted
  BY DEF Init, DeniedNotGranted
<1>2. DeniedNotGranted /\ [Next]_vars => DeniedNotGranted'
  <2> SUFFICES ASSUME DeniedNotGranted, [Next]_vars PROVE DeniedNotGranted'
    OBVIOUS
  <2>1. ASSUME NEW c \in Caps, NEW e \in Expiry, Grant(c, e) PROVE DeniedNotGranted'
    BY <2>1 DEF Grant, Put, DeniedNotGranted
  <2>2. ASSUME NEW c \in Caps, Revoke(c) PROVE DeniedNotGranted'
    BY <2>2 DEF Revoke, Without, DeniedNotGranted
  <2>3. ASSUME NEW c \in Caps, Deny(c) PROVE DeniedNotGranted'
    BY <2>3 DEF Deny, Without, DeniedNotGranted
  <2>4. ASSUME PurgeExpired PROVE DeniedNotGranted'
    BY <2>4 DEF PurgeExpired, Without, DeniedNotGranted
  <2>5. CASE UNCHANGED <<grants, denied>>
    BY <2>5 DEF DeniedNotGranted
  <2> QED BY <2>1, <2>2, <2>3, <2>4, <2>5
    DEF Next, SetMode, GrantRejected, AssertCapability, Clock, vars
<1> QED BY <1>1, <1>2, PTL DEF Spec

(* AuditTrailComplete: the events the operations emit, added up, give the  *)
(* mode and the blocklist, name every grant, and justify every allowed use.*)
THEOREM AuditTrail == Spec => []AuditTrailComplete
<1>1. Init => AuditTrailComplete
  BY DEF Init, AuditTrailComplete
<1>2. TypeOK /\ AuditTrailComplete /\ [Next]_vars => AuditTrailComplete'
  <2> SUFFICES ASSUME TypeOK, AuditTrailComplete, [Next]_vars PROVE AuditTrailComplete'
    OBVIOUS
  <2>1. ASSUME NEW m \in Modes, SetMode(m) PROVE AuditTrailComplete'
    BY <2>1 DEF SetMode, EmitMode, TypeOK, AuditTrailComplete
  <2>2. ASSUME NEW c \in Caps, NEW e \in Expiry, Grant(c, e) PROVE AuditTrailComplete'
    <3>1. ledger' = [ledger EXCEPT !.granted = @ \cup {c}]
      BY <2>2 DEF Grant, Emit, Hear
    <3> QED BY <2>2, <3>1 DEF Grant, Put, TypeOK, AuditTrailComplete
  <2>3. ASSUME NEW c \in Caps, GrantRejected(c) PROVE AuditTrailComplete'
    <3>1. ledger' = ledger
      BY <2>3 DEF GrantRejected, Emit, Hear
    <3> QED BY <2>3, <3>1 DEF GrantRejected, AuditTrailComplete
  <2>4. ASSUME NEW c \in Caps, Revoke(c) PROVE AuditTrailComplete'
    <3>1. ledger' = [ledger EXCEPT !.granted = @ \ {c}]
      BY <2>4 DEF Revoke, Emit, Hear
    <3> QED BY <2>4, <3>1 DEF Revoke, Without, TypeOK, AuditTrailComplete
  <2>5. ASSUME NEW c \in Caps, Deny(c) PROVE AuditTrailComplete'
    <3>1. ledger' = [ledger EXCEPT !.granted = @ \ {c}, !.denied = @ \cup {c}]
      BY <2>5 DEF Deny, Emit, Hear
    <3> QED BY <2>5, <3>1 DEF Deny, Without, TypeOK, AuditTrailComplete
  <2>6. ASSUME NEW c \in Caps, AssertCapability(c) PROVE AuditTrailComplete'
    <3>1. CASE Verdict(c) = "use:allowed"
      <4>1. mode # "demo" /\ ~Blocked(c) /\ Covering(c) # {}
        BY <3>1 DEF Verdict
      <4>2. PICK g \in DOMAIN grants : Covers(g, c)
        BY <4>1 DEF Covering, Active
      <4>3. ledger' = ledger
        BY <2>6, <3>1, <4>1, <4>2
        DEF AssertCapability, Emit, Hear, Blocked, SudoBlocked, AuditTrailComplete
      <4> QED BY <2>6, <4>3 DEF AssertCapability, AuditTrailComplete
    <3>2. CASE Verdict(c) # "use:allowed"
      <4>1. ledger' = ledger
        BY <2>6, <3>2 DEF AssertCapability, Emit, Hear, Verdict
      <4> QED BY <2>6, <4>1 DEF AssertCapability, AuditTrailComplete
    <3> QED BY <3>1, <3>2
  <2>7. ASSUME PurgeExpired PROVE AuditTrailComplete'
    <3>1. ledger' = ledger
      BY <2>7 DEF PurgeExpired, Emit, Hear
    <3> QED BY <2>7, <3>1 DEF PurgeExpired, Without, AuditTrailComplete
  <2>8. CASE Clock \/ UNCHANGED vars
    BY <2>8 DEF Clock, vars, AuditTrailComplete
  <2> QED BY <2>1, <2>2, <2>3, <2>4, <2>5, <2>6, <2>7, <2>8 DEF Next
<1> QED BY <1>1, <1>2, TypeCorrect, PTL DEF Spec

-------------------------------------------------------------------------------
(* With no more active grants and no less blocklist there is no new right. *)
LEMMA NoNewRight ==
  ASSUME NEW c \in Caps, Active' \subseteq Active, denied \subseteq denied',
         IsGranted(c)'
  PROVE  IsGranted(c)
BY DEF IsGranted, Covering, Blocked, SudoBlocked

(* A grant that is active stays so as time passes, and none becomes so.    *)
LEMMA ActiveShrinks ==
  ASSUME TypeOK, TypeOK', now' >= now, DOMAIN grants' \subseteq DOMAIN grants,
         \A g \in DOMAIN grants' : grants'[g] = grants[g]
  PROVE  Active' \subseteq Active
<1> SUFFICES ASSUME NEW g \in Active' PROVE g \in Active
  OBVIOUS
<1>1. g \in DOMAIN grants /\ grants'[g] = grants[g] /\ ~IsExpired(grants[g], now')
  BY DEF Active
<1>2. grants[g] \in Nat \cup {Session} /\ now \in Int /\ now' \in Int
  BY <1>1, ClockAssumption DEF TypeOK, Expiry
<1> QED BY <1>1, <1>2 DEF Active, IsExpired

(* RightsComeFromGrants: between two readings of a clock that did not go   *)
(* back, only grant() gives a right it covers.                             *)
THEOREM RightsOnlyFromGrants == Spec => RightsComeFromGrants
<1> DEFINE Step ==
      \A c \in Caps : (now' >= now /\ ~IsGranted(c) /\ IsGranted(c)')
                        => last'.event = "grant" /\ Covers(last'.cap, c)
<1>1. TypeOK /\ TypeOK' /\ [Next]_vars => [Step]_vars
  <2> SUFFICES ASSUME TypeOK, TypeOK', Next,
                      NEW c \in Caps, now' >= now, ~IsGranted(c), IsGranted(c)'
               PROVE  last'.event = "grant" /\ Covers(last'.cap, c)
    OBVIOUS
  <2>1. ~ (Active' \subseteq Active /\ denied \subseteq denied')
    BY NoNewRight
  <2>2. ASSUME NEW d \in Caps, NEW e \in Expiry, Grant(d, e)
        PROVE  last'.event = "grant" /\ Covers(last'.cap, c)
    <3>1. PICK g \in Active' : Covers(g, c)
      BY DEF IsGranted, Covering
    <3>2. g \notin Active
      BY <2>2, <3>1 DEF Grant, IsGranted, Covering, Blocked, SudoBlocked
    <3>3. g = d
      BY <2>2, <3>1, <3>2 DEF Grant, Put, Active
    <3> QED BY <2>2, <3>1, <3>3 DEF Grant, Emit
  <2>3. ASSUME NEW d \in Caps, Revoke(d) PROVE FALSE
    BY <2>1, <2>3, ActiveShrinks DEF Revoke, Without
  <2>4. ASSUME NEW d \in Caps, Deny(d) PROVE FALSE
    BY <2>1, <2>4, ActiveShrinks DEF Deny, Without
  <2>5. ASSUME PurgeExpired PROVE FALSE
    BY <2>1, <2>5, ActiveShrinks DEF PurgeExpired, Without
  <2>6. CASE UNCHANGED <<grants, denied>>
    BY <2>1, <2>6, ActiveShrinks
  <2> QED BY <2>2, <2>3, <2>4, <2>5, <2>6
    DEF Next, SetMode, GrantRejected, AssertCapability, Clock
<1> QED BY <1>1, TypeCorrect, PTL DEF Spec, RightsComeFromGrants

(* PurgeChangesNoRight: the grants a purge removes gave no right.          *)
THEOREM PurgeIsHousekeeping == Spec => PurgeChangesNoRight
<1> DEFINE Step == (grants' # grants /\ last'.event = "expire:purge")
                     => \A c \in Caps : IsGranted(c)' = IsGranted(c)
<1>1. [Next]_vars => [Step]_vars
  <2> SUFFICES ASSUME Next, grants' # grants, last'.event = "expire:purge"
               PROVE  \A c \in Caps : IsGranted(c)' = IsGranted(c)
    OBVIOUS
  <2>1. \A c \in Caps, e \in Expiry : ~Grant(c, e) /\ ~Revoke(c) /\ ~Deny(c)
    BY DEF Grant, Revoke, Deny, Emit
  <2>2. PurgeExpired
    BY <2>1 DEF Next, SetMode, GrantRejected, AssertCapability, Clock, Expiry
  <2>3. Active' = Active
    BY <2>2 DEF PurgeExpired, Without, Active
  <2>4. denied' = denied
    BY <2>2 DEF PurgeExpired
  <2> QED BY <2>3, <2>4 DEF IsGranted, Covering, Blocked, SudoBlocked
<1> QED BY <1>1, PTL DEF Spec, PurgeChangesNoRight

(* The last event allows no use of what is denied now: without it, a step  *)
(* that emits nothing could not be told from one that allows the use.      *)
LastUseNotDenied ==
  \A c \in Caps : c \in denied \/ (c.kind = "sudo" /\ SudoNever \in denied)
                   => last # [event |-> "use:allowed", cap |-> c]

(* Every step that emits an event keeps to the blocklist.                  *)
LEMMA StepKeepsDenials ==
  ASSUME LastUseNotDenied, [Next]_vars
  PROVE  LastUseNotDenied' /\ denied \subseteq denied'
<1>1. ASSUME NEW d \in Caps, AssertCapability(d)
      PROVE  LastUseNotDenied' /\ denied \subseteq denied'
  <2>1. Verdict(d) = "use:allowed" => ~Blocked(d)
    BY DEF Verdict
  <2> QED BY <1>1, <2>1
    DEF AssertCapability, Emit, Blocked, SudoBlocked, LastUseNotDenied
<1>2. ASSUME last'.event # "use:allowed", denied \subseteq denied'
      PROVE  LastUseNotDenied' /\ denied \subseteq denied'
  BY <1>2 DEF LastUseNotDenied
<1>3. CASE UNCHANGED <<last, denied>>
  BY <1>3 DEF LastUseNotDenied
<1>4. ASSUME NEW m \in Modes, SetMode(m)
      PROVE  last'.event # "use:allowed" /\ denied \subseteq denied'
  BY <1>4 DEF SetMode, EmitMode
<1>5. ASSUME NEW c \in Caps, NEW e \in Expiry,
             Grant(c, e) \/ GrantRejected(c) \/ Revoke(c) \/ Deny(c) \/ PurgeExpired
      PROVE  last'.event # "use:allowed" /\ denied \subseteq denied'
  BY <1>5 DEF Grant, GrantRejected, Revoke, Deny, PurgeExpired, Emit
<1>6. ASSUME PurgeExpired
      PROVE  last'.event # "use:allowed" /\ denied \subseteq denied'
  BY <1>6 DEF PurgeExpired, Emit
<1>7. Session \in Expiry
  BY DEF Expiry
<1> QED BY <1>1, <1>2, <1>3, <1>4, <1>5, <1>6, <1>7 DEF Next, Clock, vars

(* DeniedForGood: the blocklist only grows, and no use of a capability on  *)
(* it, or of any sudo once sudo:never is on it, is allowed.                *)
THEOREM DenialIsForGood == Spec => DeniedForGood
<1> DEFINE Step ==
      /\ denied \subseteq denied'
      /\ \A c \in Caps : c \in denied \/ (c.kind = "sudo" /\ SudoNever \in denied)
                           => last' # [event |-> "use:allowed", cap |-> c]
<1>1. Init => LastUseNotDenied
  BY DEF Init, LastUseNotDenied
<1>2. LastUseNotDenied /\ [Next]_vars => LastUseNotDenied'
  BY StepKeepsDenials
<1>3. LastUseNotDenied /\ [Next]_vars => [Step]_vars
  BY StepKeepsDenials DEF LastUseNotDenied
<1> QED BY <1>1, <1>2, <1>3, PTL DEF Spec, DeniedForGood
-------------------------------------------------------------------------------
(* The layers of a launch *)

(* Building layers and starting commands leaves the session what it was:   *)
(* all that is proved of SandboxPolicy holds while commands are launched.  *)
THEOREM LaunchIsASession == LaunchSpec => Spec
<1>1. LaunchInit => Init
  BY DEF LaunchInit
<1>2. [LaunchNext]_allVars => [Next]_vars
  BY DEF LaunchNext, BuildArgv, BuildFilter, Start, PolicyStep, allVars, vars
<1> QED BY <1>1, <1>2, PTL DEF LaunchSpec, Spec

(* What was built since the policy last changed says of the network what   *)
(* would be said now.                                                      *)
UpToDate ==
  /\ "argv" \in fresh => (argv.net <=> mode # "demo" /\ HasNetworkGrant)
  /\ "filter" \in fresh => filter = FilterFor

(* LayersAgree: the namespace of bwrap.py and the filter of seccomp.py,    *)
(* built in any order from the same state of the policy, allow the network *)
(* together or not at all.                                                 *)
THEOREM LayersAreOne == LaunchSpec => []LayersAgree
<1>1. LaunchInit => UpToDate
  BY DEF LaunchInit, UpToDate
<1>2. UpToDate /\ [LaunchNext]_allVars => UpToDate'
  <2> SUFFICES ASSUME UpToDate, [LaunchNext]_allVars PROVE UpToDate'
    OBVIOUS
  <2>1. CASE BuildArgv
    <3>1. argv'.net <=> mode # "demo" /\ HasNetworkGrant
      BY <2>1 DEF BuildArgv
    <3>2. fresh' = fresh \cup {"argv"} /\ UNCHANGED <<mode, grants, now, filter>>
      BY <2>1 DEF BuildArgv, vars
    <3> QED BY <3>1, <3>2 DEF UpToDate, HasNetworkGrant, Active, FilterFor
  <2>2. CASE BuildFilter
    <3>1. filter' = FilterFor /\ fresh' = fresh \cup {"filter"}
          /\ UNCHANGED <<mode, grants, now, argv>>
      BY <2>2 DEF BuildFilter, vars
    <3> QED BY <3>1 DEF UpToDate, HasNetworkGrant, Active, FilterFor
  <2>3. CASE Start \/ PolicyStep
    BY <2>3 DEF Start, PolicyStep, UpToDate
  <2>4. CASE UNCHANGED allVars
    BY <2>4 DEF allVars, UpToDate, HasNetworkGrant, Active, FilterFor
  <2> QED BY <2>1, <2>2, <2>3, <2>4 DEF LaunchNext
<1>3. UpToDate => LayersAgree
  <2> SUFFICES ASSUME UpToDate, "argv" \in fresh, "filter" \in fresh
               PROVE  (argv.net <=> "network" \in filter) /\ (mode = "demo" => ~argv.net)
    BY DEF LayersAgree
  <2>1. argv.net <=> mode # "demo" /\ HasNetworkGrant
    BY DEF UpToDate
  <2>2. "network" \in filter <=> mode # "demo" /\ HasNetworkGrant
    BY DEF UpToDate, FilterFor, BaseWhitelist
  <2> QED BY <2>1, <2>2
<1> QED BY <1>1, <1>2, <1>3, PTL DEF LaunchSpec

-------------------------------------------------------------------------------
(* What normpath computes *)

(* Where the components of a path lead, one after the other.               *)
Leads(dir, names, n) ==
  dir = [k \in 0 .. n |-> IF k = 0 THEN <<>> ELSE NormStep(dir[k - 1], names[k])]

LEMMA LeadsExists ==
  ASSUME NEW names, NEW m \in Nat
  PROVE  \E dir : Leads(dir, names, m)
<1> SUFFICES ASSUME ~ \E dir : Leads(dir, names, m) PROVE FALSE
  OBVIOUS
<1> DEFINE T == {n \in Nat : ~ \E dir : Leads(dir, names, n)}
<1>1. m \in T /\ T \subseteq Nat
  OBVIOUS
<1>2. PICK n \in T : \A k \in T : ~ (<<k, n>> \in OpToRel(<, Nat))
  <2> HIDE DEF T
  <2> QED BY <1>1, NatLessThanWellFounded, WFMin
<1>3. n \in Nat /\ \A k \in Nat : k < n => \E dir : Leads(dir, names, k)
  BY <1>2 DEF OpToRel
<1>4. CASE n = 0
  <2> DEFINE f == [k \in 0 .. 0 |-> <<>>]
  <2>1. f = [k \in 0 .. n |-> IF k = 0 THEN <<>> ELSE NormStep(f[k - 1], names[k])]
    BY <1>4
  <2> QED BY <1>2, <2>1 DEF Leads
<1>5. CASE n # 0
  <2>1. PICK f : Leads(f, names, n - 1)
    BY <1>3, <1>5
  <2> DEFINE g == [k \in 0 .. n |-> IF k = n THEN NormStep(f[n - 1], names[n]) ELSE f[k]]
  <2>2. ASSUME NEW k \in 0 .. n
        PROVE  g[k] = IF k = 0 THEN <<>> ELSE NormStep(g[k - 1], names[k])
    <3>1. CASE k = n
      <4>1. k - 1 \in 0 .. n /\ k - 1 # n /\ k # 0
        BY <1>3, <1>5, <3>1
      <4>2. g[k - 1] = f[n - 1]
        BY <3>1, <4>1
      <4> QED BY <3>1, <4>1, <4>2
    <3>2. CASE k # n
      <4>1. k \in 0 .. n - 1 /\ g[k] = f[k]
        BY <1>3, <3>2
      <4>2. f[k] = IF k = 0 THEN <<>> ELSE NormStep(f[k - 1], names[k])
        BY <2>1, <4>1 DEF Leads
      <4>3. k # 0 => g[k - 1] = f[k - 1]
        BY <1>3, <4>1
      <4> QED BY <4>1, <4>2, <4>3
    <3> QED BY <3>1, <3>2
  <2>3. g = [k \in 0 .. n |-> g[k]]
    OBVIOUS
  <2> HIDE DEF g
  <2>4. Leads(g, names, n)
    BY <2>2, <2>3 DEF Leads
  <2> QED BY <1>2, <2>4
<1> QED BY <1>4, <1>5

LEMMA NormPathIs ==
  ASSUME NEW names, Len(names) \in Nat
  PROVE  \E dir : Leads(dir, names, Len(names)) /\ NormPath(names) = dir[Len(names)]
<1> DEFINE f == CHOOSE dir : dir = [k \in 0 .. Len(names) |->
                  IF k = 0 THEN <<>> ELSE NormStep(dir[k - 1], names[k])]
<1>1. \E g : g = [k \in 0 .. Len(names) |->
             IF k = 0 THEN <<>> ELSE NormStep(g[k - 1], names[k])]
  BY LeadsExists DEF Leads
<1>2. f = [k \in 0 .. Len(names) |-> IF k = 0 THEN <<>> ELSE NormStep(f[k - 1], names[k])]
  BY <1>1
<1>3. NormPath(names) = f[Len(names)]
  BY DEF NormPath
<1> HIDE DEF f
<1> QED BY <1>2, <1>3 DEF Leads

LEMMA FrontAppend ==
  ASSUME NEW N, NEW dir \in Seq(N), NEW name \in N
  PROVE  Front(Append(dir, name)) = dir
BY DEF Front

LEMMA NormStepType ==
  ASSUME NEW N, NEW dir \in Seq(N), NEW name \in N
  PROVE  NormStep(dir, name) \in Seq(N)
<1>1. CASE name = "."
  BY <1>1 DEF NormStep
<1>2. CASE name = ".."
  <2>1. dir # <<>> => Front(dir) \in Seq(N)
    BY DEF Front
  <2> QED BY <1>2, <2>1 DEF NormStep
<1>3. CASE name \notin {".", ".."}
  <2>1. NormStep(dir, name) = Append(dir, name)
    BY <1>3, Zenon DEF NormStep
  <2> QED BY <2>1
<1> QED BY <1>1, <1>2, <1>3

(* Whatever a path leads through is made of its components.                *)
LEMMA LeadsType ==
  ASSUME NEW N, NEW m \in Nat, NEW names, \A k \in 1 .. m : names[k] \in N,
         NEW dir, Leads(dir, names, m)
  PROVE  \A k \in 0 .. m : dir[k] \in Seq(N)
<1> SUFFICES ASSUME ~ \A k \in 0 .. m : dir[k] \in Seq(N) PROVE FALSE
  OBVIOUS
<1> DEFINE T == {k \in Nat : k \in 0 .. m /\ dir[k] \notin Seq(N)}
<1>1. T # {} /\ T \subseteq Nat
  OBVIOUS
<1>2. PICK n \in T : \A k \in T : ~ (<<k, n>> \in OpToRel(<, Nat))
  <2> HIDE DEF T
  <2> QED BY <1>1, NatLessThanWellFounded, WFMin
<1>3. n \in 0 .. m /\ n \in Nat /\ dir[n] \notin Seq(N)
  BY <1>2
<1>4. n # 0 => dir[n - 1] \in Seq(N)
  <2> SUFFICES ASSUME n # 0, dir[n - 1] \notin Seq(N) PROVE FALSE
    OBVIOUS
  <2>1. n - 1 \in T /\ n - 1 \in Nat /\ n - 1 < n
    BY <1>3
  <2> HIDE DEF T
  <2> QED BY <1>2, <1>3, <2>1 DEF OpToRel
<1>5. dir[n] = IF n = 0 THEN <<>> ELSE NormStep(dir[n - 1], names[n])
  BY <1>3 DEF Leads
<1>6. n # 0 => dir[n] \in Seq(N)
  BY <1>3, <1>4, <1>5, NormStepType
<1> QED BY <1>3, <1>5, <1>6, EmptySeq

(* The n components after i of one path are those after j of another.      *)
Same(s, i, t, j, n) == \A d \in 1 .. n : s[i + d] = t[j + d]

(* From the same directory, the same components lead to the same one.      *)
LEMMA LeadsAgree ==
  ASSUME NEW m \in Nat, NEW k \in Nat, NEW s, NEW t, NEW f, NEW g,
         Leads(f, s, m), Leads(g, t, k),
         NEW i \in Nat, NEW j \in Nat, NEW n \in Nat, i + n <= m, j + n <= k,
         f[i] = g[j], Same(s, i, t, j, n)
  PROVE  f[i + n] = g[j + n]
<1> SUFFICES ASSUME f[i + n] # g[j + n] PROVE FALSE
  OBVIOUS
<1> DEFINE T == {d \in Nat : d \in 0 .. n /\ f[i + d] # g[j + d]}
<1>1. n \in T /\ T \subseteq Nat
  OBVIOUS
<1>2. PICK d \in T : \A c \in T : ~ (<<c, d>> \in OpToRel(<, Nat))
  <2> HIDE DEF T
  <2> QED BY <1>1, NatLessThanWellFounded, WFMin
<1>3. d \in 0 .. n /\ d \in Nat /\ f[i + d] # g[j + d]
  BY <1>2
<1>4. d # 0
  BY <1>3
<1>5. f[i + (d - 1)] = g[j + (d - 1)]
  <2> SUFFICES ASSUME f[i + (d - 1)] # g[j + (d - 1)] PROVE FALSE
    OBVIOUS
  <2>1. d - 1 \in T /\ d - 1 \in Nat /\ d - 1 < d
    BY <1>3, <1>4
  <2> HIDE DEF T
  <2> QED BY <1>2, <1>3, <2>1 DEF OpToRel
<1>6. /\ f[i + d] = NormStep(f[(i + d) - 1], s[i + d])
      /\ g[j + d] = NormStep(g[(j + d) - 1], t[j + d])
  <2>1. i + d \in 0 .. m /\ i + d # 0 /\ j + d \in 0 .. k /\ j + d # 0
    BY <1>3, <1>4
  <2> QED BY <2>1 DEF Leads
<1>7. s[i + d] = t[j + d] /\ (i + d) - 1 = i + (d - 1) /\ (j + d) - 1 = j + (d - 1)
  BY <1>3, <1>4 DEF Same
<1> QED BY <1>3, <1>5, <1>6, <1>7


(* A stretch that leads back to where it began can be cut out of a path.   *)
LEMMA NormCut ==
  ASSUME NEW N, NEW s \in Seq(N), NEW t \in Seq(N), NEW a \in Nat, NEW b \in Nat,
         a <= b, b <= Len(s), Len(t) = Len(s) - (b - a),
         Same(s, 0, t, 0, a), Same(s, b, t, a, Len(s) - b),
         NEW f, Leads(f, s, Len(s)), f[a] = f[b]
  PROVE  NormPath(t) = f[Len(s)]
<1>0. Len(s) \in Nat /\ Len(t) \in Nat /\ a \in 0 .. Len(t) /\ b \in 0 .. Len(s)
      /\ Len(s) - b \in Nat /\ a <= Len(s)
  OBVIOUS
<1>1. PICK g : Leads(g, t, Len(t)) /\ NormPath(t) = g[Len(t)]
  BY <1>0, NormPathIs
<1>2. f[0] = <<>> /\ g[0] = <<>>
  BY <1>0, <1>1 DEF Leads
<1> DEFINE m == Len(s)
           k == Len(t)
           c == Len(s) - b
<1>3. m \in Nat /\ k \in Nat /\ c \in Nat /\ b + c = m /\ a + c = k /\ a <= m /\ a <= k
  BY <1>0
<1>4. Leads(f, s, m) /\ Leads(g, t, k) /\ NormPath(t) = g[k]
  BY <1>1
<1>5. Same(s, b, t, a, c)
  BY <1>0
<1> HIDE DEF m, k, c
<1>6. f[a] = g[a]
  <2> DEFINE z == 0
  <2>1. /\ z \in Nat /\ z + a = a /\ z + a <= m /\ z + a <= k
        /\ f[z] = g[z] /\ Same(s, z, t, z, a)
    BY <1>2, <1>3
  <2> HIDE DEF z
  <2>2. f[z + a] = g[z + a]
    BY <1>3, <1>4, <2>1, LeadsAgree
  <2> QED BY <2>1, <2>2
<1>7. f[b + c] = g[a + c]
  <2>1. f[b] = g[a]
    BY <1>0, <1>6
  <2> QED BY <1>3, <1>4, <1>5, <2>1, LeadsAgree
<1> QED BY <1>3, <1>4, <1>7 DEF m

LEMMA RemoveAtIs ==
  ASSUME NEW N, NEW s \in Seq(N), NEW i \in 1 .. Len(s)
  PROVE  /\ RemoveAt(s, i) \in Seq(N)
         /\ Len(RemoveAt(s, i)) = Len(s) - 1
         /\ \A k \in 1 .. Len(s) - 1 : RemoveAt(s, i)[k] = IF k < i THEN s[k] ELSE s[k + 1]
<1> DEFINE p == SubSeq(s, 1, i - 1)
           q == SubSeq(s, i + 1, Len(s))
<1>1. p \in Seq(N) /\ Len(p) = i - 1 /\ \A k \in 1 .. i - 1 : p[k] = s[k]
  OBVIOUS
<1>2. q \in Seq(N) /\ Len(q) = Len(s) - i /\ \A k \in 1 .. Len(s) - i : q[k] = s[i + k]
  <2>1. q \in Seq(N)
    OBVIOUS
  <2>2. Len(q) = Len(s) - i
    OBVIOUS
  <2>3. ASSUME NEW k \in 1 .. Len(s) - i PROVE q[k] = s[i + k]
    <3>1. q[k] = s[(i + 1) + (k - 1)]
      OBVIOUS
    <3> QED BY <3>1
  <2> QED BY <2>1, <2>2, <2>3
<1>3. RemoveAt(s, i) = p \o q
  BY DEF RemoveAt
<1> HIDE DEF p, q
<1>4. p \o q \in Seq(N)
  BY <1>1, <1>2
<1>5. Len(p \o q) = Len(s) - 1
  BY <1>1, <1>2
<1>6. ASSUME NEW k \in 1 .. Len(s) - 1
      PROVE  (p \o q)[k] = IF k < i THEN s[k] ELSE s[k + 1]
  <2>1. CASE k < i
    <3>1. k \in 1 .. Len(p) /\ p[k] = s[k]
      BY <1>1, <2>1
    <3>2. (p \o q)[k] = p[k]
      BY ONLY <1>1, <1>2, <3>1, p \in Seq(N), q \in Seq(N)
    <3> QED BY <2>1, <3>1, <3>2
  <2>2. CASE k >= i
    <3>1. k - Len(p) \in 1 .. Len(q) /\ k = Len(p) + (k - Len(p))
      BY <1>1, <1>2, <2>2
    <3>2. q[k - Len(p)] = s[i + (k - Len(p))] /\ i + (k - Len(p)) = k + 1
      BY <1>1, <1>2, <3>1
    <3>3. k \in 1 .. Len(p) + Len(q) /\ ~(k <= Len(p)) /\ ~(k < i)
      BY <1>1, <1>2, <2>2
    <3>4. \A n \in 1 .. Len(p) + Len(q) :
            (p \o q)[n] = IF n <= Len(p) THEN p[n] ELSE q[n - Len(p)]
      BY <1>1, <1>2, ConcatProperties
    <3>5. (p \o q)[k] = q[k - Len(p)]
      BY <3>3, <3>4
    <3>6. (p \o q)[k] = s[k + 1]
      BY <3>2, <3>5
    <3> QED BY <3>3, <3>6
  <2>3. k < i \/ k >= i
    OBVIOUS
  <2> QED BY ONLY <2>1, <2>2, <2>3, Zenon
<1> QED BY <1>3, <1>4, <1>5, <1>6

LEMMA LeadsStep ==
  ASSUME NEW m \in Nat, NEW names, NEW dir, Leads(dir, names, m), NEW k \in 1 .. m
  PROVE  dir[k] = NormStep(dir[k - 1], names[k])
BY DEF Leads

(* "." and the parent of the root can be left out.                         *)
LEMMA CutOne ==
  ASSUME NEW N, NEW s \in Seq(N), NEW i \in 1 .. Len(s),
         s[i] = "." \/ (i = 1 /\ s[i] = "..")
  PROVE  RemoveAt(s, i) \in Seq(N) /\ NormPath(RemoveAt(s, i)) = NormPath(s)
<1>0. Len(s) \in Nat
  OBVIOUS
<1>1. PICK f : Leads(f, s, Len(s)) /\ NormPath(s) = f[Len(s)]
  BY <1>0, NormPathIs
<1>2. f[i] = NormStep(f[i - 1], s[i])
  BY <1>0, <1>1, LeadsStep
<1>3. f[i] = f[i - 1]
  <2>1. CASE s[i] = "."
    BY <1>2, <2>1 DEF NormStep
  <2>2. CASE i = 1 /\ s[i] = ".."
    <3>1. f[0] = <<>>
      BY <1>0, <1>1 DEF Leads
    <3>2. f[i - 1] = <<>>
      BY <2>2, <3>1
    <3> QED BY <1>2, <2>2, <3>2 DEF NormStep
  <2> QED BY <2>1, <2>2
<1> DEFINE t == RemoveAt(s, i)
           a == i - 1
<1>4. /\ t \in Seq(N) /\ Len(t) = Len(s) - 1
      /\ \A k \in 1 .. Len(s) - 1 : t[k] = IF k < i THEN s[k] ELSE s[k + 1]
  BY RemoveAtIs
<1> HIDE DEF t
<1>5. Same(s, 0, t, 0, a)
  BY <1>0, <1>4 DEF Same
<1>6. Same(s, i, t, a, Len(s) - i)
  <2> SUFFICES ASSUME NEW d \in 1 .. Len(s) - i PROVE s[i + d] = t[a + d]
    BY DEF Same
  <2>1. a + d \in 1 .. Len(s) - 1 /\ ~(a + d < i) /\ (a + d) + 1 = i + d
    BY <1>0
  <2> QED BY <1>4, <2>1
<1>7. /\ a \in Nat /\ i \in Nat /\ a <= i /\ i <= Len(s) /\ Len(t) = Len(s) - (i - a) /\ f[a] = f[i]
  BY <1>0, <1>3, <1>4
<1> HIDE DEF a
<1>8. NormPath(t) = f[Len(s)]
  BY <1>1, <1>4, <1>5, <1>6, <1>7, NormCut
<1> QED BY <1>1, <1>4, <1>8 DEF t

(* So can a directory with the ".." after it.                              *)
LEMMA CutTwo ==
  ASSUME NEW N, NEW s \in Seq(N), NEW i \in 1 .. Len(s), i < Len(s),
         s[i] \notin {".", ".."}, s[i + 1] = ".."
  PROVE  /\ RemoveAt(RemoveAt(s, i), i) \in Seq(N)
         /\ NormPath(RemoveAt(RemoveAt(s, i), i)) = NormPath(s)
<1>0. Len(s) \in Nat
  OBVIOUS
<1>1. PICK f : Leads(f, s, Len(s)) /\ NormPath(s) = f[Len(s)]
  BY <1>0, NormPathIs
<1> DEFINE a == i - 1
           b == i + 1
<1>a. a \in Nat /\ b \in Nat /\ a \in 0 .. Len(s) /\ b \in 1 .. Len(s) /\ i = b - 1 /\ a = i - 1
  BY <1>0
<1> HIDE DEF a, b
<1>2. f[i] = NormStep(f[a], s[i]) /\ f[b] = NormStep(f[i], s[b])
  BY <1>0, <1>1, <1>a, LeadsStep
<1>3. f[a] \in Seq(N)
  <2>1. \A k \in 1 .. Len(s) : s[k] \in N
    OBVIOUS
  <2> QED BY <1>0, <1>1, <1>a, <2>1, LeadsType
<1>4. f[b] = f[a]
  <2>1. f[i] = Append(f[a], s[i])
    BY <1>2, Zenon DEF NormStep
  <2>2. s[i] \in N
    OBVIOUS
  <2>3. f[i] # <<>> /\ Front(f[i]) = f[a]
    <3> DEFINE x == f[a]
               e == s[i]
    <3>1. x \in Seq(N) /\ e \in N
      BY <1>3, <2>2
    <3> HIDE DEF x, e
    <3>2. Append(x, e) # <<>> /\ Front(Append(x, e)) = x
      BY <3>1, FrontAppend
    <3> QED BY <2>1, <3>2 DEF x, e
  <2>4. s[b] = ".."
    BY DEF b
  <2> QED BY <1>2, <2>3, <2>4 DEF NormStep
<1> DEFINE r == RemoveAt(s, i)
           t == RemoveAt(r, i)
<1>5. /\ r \in Seq(N) /\ Len(r) = Len(s) - 1
      /\ \A k \in 1 .. Len(s) - 1 : r[k] = IF k < i THEN s[k] ELSE s[k + 1]
  BY RemoveAtIs
<1>6. i \in 1 .. Len(r)
  BY <1>0, <1>5
<1> HIDE DEF r
<1>7. /\ t \in Seq(N) /\ Len(t) = Len(r) - 1
      /\ \A k \in 1 .. Len(r) - 1 : t[k] = IF k < i THEN r[k] ELSE r[k + 1]
  BY <1>5, <1>6, RemoveAtIs
<1> HIDE DEF t
<1>8. Same(s, 0, t, 0, a)
  <2> SUFFICES ASSUME NEW d \in 1 .. a PROVE s[0 + d] = t[0 + d]
    BY DEF Same
  <2>1. d \in 1 .. Len(r) - 1 /\ d \in 1 .. Len(s) - 1 /\ d < i
    BY <1>0, <1>5, <1>a
  <2> QED BY <1>5, <1>7, <2>1
<1>9. Same(s, b, t, a, Len(s) - b)
  <2> SUFFICES ASSUME NEW d \in 1 .. Len(s) - b PROVE s[b + d] = t[a + d]
    BY DEF Same
  <2>1. /\ a + d \in 1 .. Len(r) - 1 /\ ~(a + d < i)
        /\ (a + d) + 1 \in 1 .. Len(s) - 1 /\ ~((a + d) + 1 < i)
        /\ ((a + d) + 1) + 1 = b + d
    BY <1>0, <1>5, <1>a
  <2>2. t[a + d] = r[(a + d) + 1]
    BY <1>7, <2>1
  <2>3. r[(a + d) + 1] = s[((a + d) + 1) + 1]
    BY <1>5, <2>1
  <2> QED BY <2>1, <2>2, <2>3
<1>10. a <= b /\ b <= Len(s) /\ Len(t) = Len(s) - (b - a) /\ f[a] = f[b] /\ t \in Seq(N)
       /\ a \in Nat /\ b \in Nat /\ Leads(f, s, Len(s)) /\ s \in Seq(N)
  BY <1>0, <1>1, <1>4, <1>5, <1>7, <1>a
<1>11. NormPath(t) = f[Len(s)]
  BY ONLY <1>8, <1>9, <1>10, NormCut
<1> QED BY <1>1, <1>7, <1>11 DEF t, r

LEMMA SubSeqGrows ==
  ASSUME NEW N, NEW s \in Seq(N), NEW k \in 1 .. Len(s)
  PROVE  Append(SubSeq(s, 1, k - 1), s[k]) = SubSeq(s, 1, k)
<1> DEFINE p == SubSeq(s, 1, k - 1)
           q == SubSeq(s, 1, k)
           e == s[k]
<1>1. e \in N /\ k - 1 \in 0 .. Len(s) /\ k \in Nat
  OBVIOUS
<1>2. p \in Seq(N) /\ Len(p) = k - 1 /\ \A d \in 1 .. k - 1 : p[d] = s[d]
  OBVIOUS
<1>3. q \in Seq(N) /\ Len(q) = k /\ \A d \in 1 .. k : q[d] = s[d]
  OBVIOUS
<1>a. e = s[k]
  OBVIOUS
<1> HIDE DEF p, q, e
<1>4. /\ Append(p, e) \in Seq(N) /\ Len(Append(p, e)) = k
      /\ \A d \in 1 .. k : Append(p, e)[d] = IF d = k THEN e ELSE p[d]
  BY <1>1, <1>2
<1>5. \A d \in 1 .. k : Append(p, e)[d] = q[d]
  BY <1>1, <1>2, <1>3, <1>4, <1>a
<1>6. Append(p, e) = q
  BY <1>3, <1>4, <1>5, SeqEqual
<1> QED BY <1>6 DEF p, q, e

(* When none of these is left, the path is the one normpath computes.      *)
LEMMA NothingToCut ==
  ASSUME NEW N, NEW s \in Seq(N),
         \A i \in 1 .. Len(s) :
           /\ s[i] # "."
           /\ ~(i < Len(s) /\ s[i] \notin {".", ".."} /\ s[i + 1] = "..")
           /\ ~(i = 1 /\ s[i] = "..")
  PROVE  NormPath(s) = s
<1>0. Len(s) \in Nat
  OBVIOUS
<1>1. \A i \in 1 .. Len(s) : s[i] \notin {".", ".."}
  <2> SUFFICES ASSUME \E i \in 1 .. Len(s) : s[i] = ".." PROVE FALSE
    OBVIOUS
  <2> DEFINE T == {i \in Nat : i \in 1 .. Len(s) /\ s[i] = ".."}
  <2>1. T # {} /\ T \subseteq Nat
    OBVIOUS
  <2>2. PICK n \in T : \A k \in T : ~ (<<k, n>> \in OpToRel(<, Nat))
    <3> HIDE DEF T
    <3> QED BY <2>1, NatLessThanWellFounded, WFMin
  <2>3. n \in 1 .. Len(s) /\ n \in Nat /\ s[n] = ".."
    BY <2>2
  <2>4. n # 1
    BY <2>3
  <2>5. n - 1 \in 1 .. Len(s) /\ n - 1 < Len(s) /\ (n - 1) + 1 = n
    BY <1>0, <2>3, <2>4
  <2>6. s[n - 1] = ".."
    BY <2>3, <2>5
  <2>7. n - 1 \in T /\ n - 1 \in Nat /\ n - 1 < n
    BY <2>3, <2>5, <2>6
  <2> HIDE DEF T
  <2> QED BY <2>2, <2>3, <2>7 DEF OpToRel
<1>2. PICK f : Leads(f, s, Len(s)) /\ NormPath(s) = f[Len(s)]
  BY <1>0, NormPathIs
<1>3. \A k \in 0 .. Len(s) : f[k] = SubSeq(s, 1, k)
  <2> SUFFICES ASSUME ~ \A k \in 0 .. Len(s) : f[k] = SubSeq(s, 1, k) PROVE FALSE
    OBVIOUS
  <2> DEFINE T == {k \in Nat : k \in 0 .. Len(s) /\ f[k] # SubSeq(s, 1, k)}
  <2>1. T # {} /\ T \subseteq Nat
    BY <1>0
  <2>2. PICK n \in T : \A k \in T : ~ (<<k, n>> \in OpToRel(<, Nat))
    <3> HIDE DEF T
    <3> QED BY <2>1, NatLessThanWellFounded, WFMin
  <2>3. n \in 0 .. Len(s) /\ n \in Nat /\ f[n] # SubSeq(s, 1, n)
    BY <2>2
  <2>4. n # 0
    <3>1. f[0] = <<>>
      BY <1>0, <1>2 DEF Leads
    <3>2. SubSeq(s, 1, 0) = <<>>
      OBVIOUS
    <3> QED BY <2>3, <3>1, <3>2
  <2>5. f[n - 1] = SubSeq(s, 1, n - 1)
    <3> SUFFICES ASSUME f[n - 1] # SubSeq(s, 1, n - 1) PROVE FALSE
      OBVIOUS
    <3>1. n - 1 \in T /\ n - 1 \in Nat /\ n - 1 < n
      BY <2>3, <2>4
    <3> HIDE DEF T
    <3> QED BY <2>2, <2>3, <3>1 DEF OpToRel
  <2>6. n \in 1 .. Len(s)
    BY <1>0, <2>3, <2>4
  <2>7. f[n] = NormStep(f[n - 1], s[n]) /\ s[n] \notin {".", ".."}
    BY <1>0, <1>1, <1>2, <2>6, LeadsStep
  <2>8. f[n] = Append(f[n - 1], s[n])
    BY <2>7, Zenon DEF NormStep
  <2> QED BY <2>3, <2>5, <2>6, <2>8, SubSeqGrows
<1>4. SubSeq(s, 1, Len(s)) = s
  OBVIOUS
<1> QED BY <1>0, <1>2, <1>3, <1>4

(* What the components of a rewritten path are among.                      *)
Components == STRING \cup Names \cup {".", "..", "/", "~"}

LEMMA AbsoluteType ==
  ASSUME NEW p \in Seq(Components), p # <<>>
  PROVE  Absolute(p) \in Seq(Components)
<1>1. /\ \A tilde \in DOMAIN Homes : Homes[tilde] \in Seq(Components)
      /\ Cwd \in Seq(Components)
  <2>1. STRING \subseteq Components
    BY DEF Components
  <2>2. ASSUME NEW s \in Seq(STRING) PROVE s \in Seq(Components)
    <3>1. PICK n \in Nat : s \in [1 .. n -> STRING]
      BY SeqDef
    <3>2. s \in [1 .. n -> Components]
      BY <2>1, <3>1
    <3> QED BY <3>2, SeqDef
  <2> QED BY <2>2, DirectoriesAssumption
<1>2. Tail(p) \in Seq(Components)
  OBVIOUS
<1>3. /\ p[1] \in DOMAIN Homes => Homes[p[1]] \o Tail(p) \in Seq(Components)
      /\ Cwd \o p \in Seq(Components)
  BY <1>1, <1>2
<1> QED BY <1>2, <1>3, Zenon DEF Absolute

LEMMA RawPathType ==
  ASSUME NEW p \in RawPaths
  PROVE  p \in Seq(Components) /\ p # <<>>
<1> DEFINE Roots == {"/", "~"} \cup Names
           Rests == BoundedSeq(Names \cup {".", ".."}, MaxLength)
           Written(root, rest) == <<root>> \o rest
<1>1. \E root \in Roots, rest \in Rests : p = Written(root, rest)
  <2>1. RawPaths = {Written(root, rest) : root \in Roots, rest \in Rests}
    BY DEF RawPaths
  <2> HIDE DEF Written, Roots, Rests
  <2> QED BY <2>1
<1>a. PICK root \in Roots, rest \in Rests : p = <<root>> \o rest
  BY <1>1
<1>2. rest \in Seq(Components)
  BY LengthAssumption DEF BoundedSeq, SeqOf, Components
<1>3. <<root>> \in Seq(Components)
  BY DEF Components
<1> QED BY <1>a, <1>2, <1>3

(* Each of the identities leaves the path that normpath computes as it is. *)
RewriteInv ==
  /\ path \in Seq(Components)
  /\ NormPath(path) = Normalize(start)

LEMMA RewriteInvAlways == RewriteSpec => []RewriteInv
<1>1. RewriteInit => RewriteInv
  BY RawPathType, AbsoluteType DEF RewriteInit, RewriteInv, Normalize
<1>2. RewriteInv /\ [RewriteNext]_rewriteVars => RewriteInv'
  <2> SUFFICES ASSUME RewriteInv, [RewriteNext]_rewriteVars PROVE RewriteInv'
    OBVIOUS
  <2>1. CASE UNCHANGED rewriteVars
    BY <2>1 DEF rewriteVars, RewriteInv
  <2>2. CASE RewriteNext
    <3>1. start' = start /\ path \in Seq(Components)
      BY <2>2 DEF RewriteNext, RewriteInv
    <3>2. PICK i \in 1 .. Len(path) : DropDot(i) \/ DropDetour(i) \/ DropAboveRoot(i)
      BY <2>2 DEF RewriteNext
    <3>3. path' \in Seq(Components) /\ NormPath(path') = NormPath(path)
      <4>1. CASE DropDot(i) \/ DropAboveRoot(i)
        BY <3>1, <4>1, CutOne DEF DropDot, Dot, DropAboveRoot, AboveRoot
      <4>2. CASE DropDetour(i)
        BY <3>1, <4>2, CutTwo DEF DropDetour, Detour
      <4> QED BY <3>2, <4>1, <4>2
    <3> QED BY <3>1, <3>3 DEF RewriteInv
  <2> QED BY <2>1, <2>2 DEF RewriteNext
<1> QED BY <1>1, <1>2, PTL DEF RewriteSpec

(* NormalizeIsTheNormalForm: whatever the order in which ".", a name with  *)
(* its ".." and the parents of the root are dropped from a path, of any    *)
(* length, what is left is what _normalize_path makes of it.               *)
THEOREM NormalFormIsOne == RewriteSpec => []NormalizeIsTheNormalForm
<1>1. RewriteInv => NormalizeIsTheNormalForm
  <2> SUFFICES ASSUME RewriteInv,
                      \A i \in 1 .. Len(path) : ~(Dot(i) \/ Detour(i) \/ AboveRoot(i))
               PROVE  path = Normalize(start)
    BY DEF NormalizeIsTheNormalForm
  <2>1. NormPath(path) = path
    BY NothingToCut DEF RewriteInv, Dot, Detour, AboveRoot
  <2> QED BY <2>1 DEF RewriteInv
<1> QED BY <1>1, RewriteInvAlways, PTL

(* CoverageSurvivesRewriting: covers() gives the same answer for a path    *)
(* and for every way of writing it without some of its detours, whatever   *)
(* the grant.                                                              *)
THEOREM CoverageSurvives == RewriteSpec => []CoverageSurvivesRewriting
<1>1. RewriteInv => CoverageSurvivesRewriting
  <2> SUFFICES ASSUME RewriteInv PROVE CoverageSurvivesRewriting
    OBVIOUS
  <2> DEFINE p == <<"/">> \o path
  <2>1. p[1] = "/" /\ Tail(p) = path
    BY DEF RewriteInv
  <2> HIDE DEF p
  <2>0. "/" \notin DOMAIN Homes
    BY DirectoriesAssumption
  <2>2. Absolute(p) = path
    BY <2>0, <2>1, Zenon DEF Absolute
  <2>3. Normalize(p) = Normalize(start)
    BY <2>2 DEF Normalize, RewriteInv
  <2> QED BY <2>3 DEF CoverageSurvivesRewriting, PathCovers, p
<1> QED BY <1>1, RewriteInvAlways, PTL

-------------------------------------------------------------------------------
(* What bwrap is told to bind *)

(* What is kept of the first n elements of a sequence.                     *)
Keeps(kept, s, S, n) ==
  kept = [k \in 0 .. n |->
            IF k = 0 THEN <<>> ELSE Keep(kept[k - 1], s[k], S)]

LEMMA KeepsExists ==
  ASSUME NEW s, NEW S, NEW m \in Nat
  PROVE  \E kept : Keeps(kept, s, S, m)
<1> SUFFICES ASSUME ~ \E kept : Keeps(kept, s, S, m) PROVE FALSE
  OBVIOUS
<1> DEFINE T == {n \in Nat : ~ \E kept : Keeps(kept, s, S, n)}
<1>1. m \in T /\ T \subseteq Nat
  OBVIOUS
<1>2. PICK n \in T : \A k \in T : ~ (<<k, n>> \in OpToRel(<, Nat))
  <2> HIDE DEF T
  <2> QED BY <1>1, NatLessThanWellFounded, WFMin
<1>3. n \in Nat /\ \A k \in Nat : k < n => \E kept : Keeps(kept, s, S, k)
  BY <1>2 DEF OpToRel
<1>4. CASE n = 0
  <2> DEFINE f == [k \in 0 .. 0 |-> <<>>]
  <2>1. f = [k \in 0 .. n |-> IF k = 0 THEN <<>> ELSE Keep(f[k - 1], s[k], S)]
    BY <1>4
  <2> QED BY <1>2, <2>1 DEF Keeps
<1>5. CASE n # 0
  <2>1. PICK f : Keeps(f, s, S, n - 1)
    BY <1>3, <1>5
  <2> DEFINE g == [k \in 0 .. n |-> IF k = n THEN Keep(f[n - 1], s[n], S) ELSE f[k]]
  <2>2. ASSUME NEW k \in 0 .. n
        PROVE  g[k] = IF k = 0 THEN <<>> ELSE Keep(g[k - 1], s[k], S)
    <3>1. CASE k = n
      <4>1. k - 1 \in 0 .. n /\ k - 1 # n /\ k # 0
        BY <1>3, <1>5, <3>1
      <4>2. g[k - 1] = f[n - 1]
        BY <3>1, <4>1
      <4> QED BY <3>1, <4>1, <4>2
    <3>2. CASE k # n
      <4>1. k \in 0 .. n - 1 /\ g[k] = f[k]
        BY <1>3, <3>2
      <4>2. f[k] = IF k = 0 THEN <<>> ELSE Keep(f[k - 1], s[k], S)
        BY <2>1, <4>1 DEF Keeps
      <4>3. k # 0 => g[k - 1] = f[k - 1]
        BY <1>3, <4>1
      <4> QED BY <4>1, <4>2, <4>3
    <3> QED BY <3>1, <3>2
  <2>3. g = [k \in 0 .. n |-> g[k]]
    OBVIOUS
  <2> HIDE DEF g
  <2>4. Keeps(g, s, S, n)
    BY <2>2, <2>3 DEF Keeps
  <2> QED BY <1>2, <2>4
<1> QED BY <1>4, <1>5

(* Select keeps the members of S that are in the sequence, and no others.  *)
LEMMA SelectIs ==
  ASSUME NEW N, NEW s \in Seq(N), NEW S
  PROVE  Select(s, S) \in Seq(N) /\ ToSet(Select(s, S)) = ToSet(s) \cap S
<1>0. Len(s) \in Nat
  OBVIOUS
<1> DEFINE f == CHOOSE kept : kept = [n \in 0 .. Len(s) |->
                  IF n = 0 THEN <<>> ELSE Keep(kept[n - 1], s[n], S)]
<1>1. \E g : g = [n \in 0 .. Len(s) |->
             IF n = 0 THEN <<>> ELSE Keep(g[n - 1], s[n], S)]
  <2>1. \E g : Keeps(g, s, S, Len(s))
    BY <1>0, KeepsExists
  <2> QED BY <2>1 DEF Keeps
<1>2. Keeps(f, s, S, Len(s))
  BY <1>1 DEF Keeps
<1>3. Select(s, S) = f[Len(s)]
  BY DEF Select
<1> HIDE DEF f
<1> DEFINE Good(k) == f[k] \in Seq(N) /\ ToSet(f[k]) = {s[i] : i \in 1 .. k} \cap S
<1>4. \A k \in 0 .. Len(s) : Good(k)
  <2> SUFFICES ASSUME ~ \A k \in 0 .. Len(s) : Good(k) PROVE FALSE
    OBVIOUS
  <2> DEFINE T == {k \in Nat : k \in 0 .. Len(s) /\ ~Good(k)}
  <2>1. T # {} /\ T \subseteq Nat
    BY <1>0
  <2>2. PICK n \in T : \A k \in T : ~ (<<k, n>> \in OpToRel(<, Nat))
    <3> HIDE DEF T
    <3> QED BY <2>1, NatLessThanWellFounded, WFMin
  <2>3. n \in 0 .. Len(s) /\ n \in Nat /\ ~Good(n)
    BY <2>2
  <2>4. n # 0
    <3>1. f[0] = <<>>
      BY <1>0, <1>2 DEF Keeps
    <3>2. ToSet(<<>>) = {}
      BY DEF ToSet
    <3>3. {s[i] : i \in 1 .. 0} = {}
      OBVIOUS
    <3>4. Good(0)
      BY <3>1, <3>2, <3>3, EmptySeq
    <3> QED BY <2>3, <3>4
  <2>5. n - 1 \in Nat /\ n - 1 \in 0 .. Len(s) /\ n - 1 < n /\ n \in 1 .. Len(s)
    BY <1>0, <2>3, <2>4
  <2>6. Good(n - 1)
    <3> SUFFICES ASSUME ~Good(n - 1) PROVE FALSE
      OBVIOUS
    <3>1. n - 1 \in T
      BY <2>5
    <3> HIDE DEF T
    <3> QED BY <2>2, <2>3, <2>5, <3>1 DEF OpToRel
  <2> DEFINE d == f[n - 1]
             e == s[n]
  <2>7. f[n] = IF e \in S THEN Append(d, e) ELSE d
    BY <1>0, <1>2, <2>3, <2>4 DEF Keeps, Keep
  <2>8. d \in Seq(N) /\ ToSet(d) = {s[i] : i \in 1 .. n - 1} \cap S /\ e \in N
    BY <2>5, <2>6
  <2>9. {s[i] : i \in 1 .. n} = {s[i] : i \in 1 .. n - 1} \cup {e}
    BY <2>5
  <2> HIDE DEF d, e
  <2>10. Append(d, e) \in Seq(N) /\ ToSet(Append(d, e)) = ToSet(d) \cup {e}
    <3> DEFINE a == Append(d, e)
    <3>1. /\ a \in Seq(N) /\ DOMAIN d = 1 .. Len(d) /\ DOMAIN a = 1 .. Len(d) + 1 /\ Len(d) \in Nat
          /\ \A i \in 1 .. Len(d) : a[i] = d[i]
          /\ a[Len(d) + 1] = e
      BY <2>8
    <3> HIDE DEF a
    <3> QED BY <3>1 DEF ToSet, a
  <2>11. f[n] \in Seq(N)
    BY <2>7, <2>8, <2>10
  <2>12. ToSet(f[n]) = {s[i] : i \in 1 .. n} \cap S
    BY <2>7, <2>8, <2>9, <2>10
  <2> QED BY <2>3, <2>11, <2>12
<1>5. {s[i] : i \in 1 .. Len(s)} = ToSet(s)
  <2>1. DOMAIN s = 1 .. Len(s)
    OBVIOUS
  <2> QED BY <2>1 DEF ToSet
<1>6. Good(Len(s))
  <2> HIDE DEF Good
  <2> QED BY <1>0, <1>4
<1> QED BY <1>3, <1>5, <1>6

LEMMA SetToSeqOfOne ==
  ASSUME NEW N, NEW S, S = {} \/ \E c \in N : S = {c}
  PROVE  SetToSeq(S) \in Seq(N) /\ ToSet(SetToSeq(S)) = S
<1>1. CASE S = {}
  <2>1. Cardinality(S) = 0
    BY <1>1, FS_EmptySet
  <2>2. SetToSeq(S) = CHOOSE f \in [1 .. 0 -> S] : IsInjective(f)
    BY <2>1 DEF SetToSeq
  <2>3. <<>> \in [1 .. 0 -> S] /\ IsInjective(<<>>)
    BY DEF IsInjective
  <2>4. SetToSeq(S) \in [1 .. 0 -> S]
    BY <2>2, <2>3
  <2>5. SetToSeq(S) = <<>>
    BY <2>4
  <2>6. ToSet(<<>>) = {}
    BY DEF ToSet
  <2> QED BY <1>1, <2>5, <2>6, EmptySeq
<1>2. ASSUME NEW c \in N, S = {c} PROVE SetToSeq(S) \in Seq(N) /\ ToSet(SetToSeq(S)) = S
  <2>1. Cardinality(S) = 1
    BY <1>2, FS_Singleton
  <2>2. SetToSeq(S) = CHOOSE f \in [1 .. 1 -> S] : IsInjective(f)
    BY <2>1 DEF SetToSeq
  <2> DEFINE g == [i \in 1 .. 1 |-> c]
  <2>3. g \in [1 .. 1 -> S] /\ IsInjective(g)
    BY <1>2 DEF IsInjective
  <2>4. SetToSeq(S) \in [1 .. 1 -> S]
    BY <2>2, <2>3
  <2> DEFINE x == SetToSeq(S)
  <2> HIDE DEF x
  <2>5. x \in [1 .. 1 -> S] /\ x \in [1 .. 1 -> N]
    BY <1>2, <2>4 DEF x
  <2>6. DOMAIN x = {1} /\ x[1] = c
    BY <1>2, <2>5
  <2>7. x \in Seq(N)
    <3>1. \E n \in Nat : x \in [1 .. n -> N]
      BY <2>5
    <3> QED BY <3>1, SeqDef
  <2>8. ToSet(x) = {c}
    BY <2>6 DEF ToSet
  <2> QED BY <1>2, <2>7, <2>8 DEF x
<1> QED BY <1>1, <1>2

LEMMA ToSetConcat ==
  ASSUME NEW N, NEW s \in Seq(N), NEW t \in Seq(N)
  PROVE  s \o t \in Seq(N) /\ ToSet(s \o t) = ToSet(s) \cup ToSet(t)
<1> DEFINE r == s \o t
           m == Len(s)
           k == Len(t)
<1>1. /\ r \in Seq(N) /\ m \in Nat /\ k \in Nat /\ Len(r) = m + k
      /\ \A i \in 1 .. m + k : r[i] = IF i <= m THEN s[i] ELSE t[i - m]
  BY ConcatProperties
<1>2. DOMAIN r = 1 .. m + k /\ DOMAIN s = 1 .. m /\ DOMAIN t = 1 .. k
  BY <1>1
<1> HIDE DEF r, m, k
<1>3. \A i \in 1 .. m : i \in 1 .. m + k /\ r[i] = s[i]
  BY <1>1
<1>4. \A i \in 1 .. k : m + i \in 1 .. m + k /\ r[m + i] = t[i]
  <2> SUFFICES ASSUME NEW i \in 1 .. k PROVE m + i \in 1 .. m + k /\ r[m + i] = t[i]
    OBVIOUS
  <2>1. m + i \in 1 .. m + k /\ ~(m + i <= m) /\ (m + i) - m = i
    BY <1>1
  <2> QED BY <1>1, <2>1
<1>5. \A i \in 1 .. m + k : i \in 1 .. m \/ (i - m \in 1 .. k /\ r[i] = t[i - m])
  <2> SUFFICES ASSUME NEW i \in 1 .. m + k, i \notin 1 .. m
               PROVE  i - m \in 1 .. k /\ r[i] = t[i - m]
    OBVIOUS
  <2>1. i - m \in 1 .. k /\ ~(i <= m)
    BY <1>1
  <2> QED BY <1>1, <2>1
<1>6. ToSet(r) \subseteq ToSet(s) \cup ToSet(t)
  BY <1>2, <1>3, <1>5 DEF ToSet
<1>7. ToSet(s) \subseteq ToSet(r)
  BY <1>2, <1>3 DEF ToSet
<1>8. ToSet(t) \subseteq ToSet(r)
  <2> SUFFICES ASSUME NEW i \in 1 .. k PROVE \E j \in DOMAIN r : t[i] = r[j]
    BY <1>2 DEF ToSet
  <2> QED BY <1>2, <1>4
<1> QED BY <1>1, <1>6, <1>7, <1>8 DEF r

(* One operation of the policy adds one grant at most.                     *)
LEMMA OneMoreGrant ==
  ASSUME [Next]_vars
  PROVE  \/ DOMAIN grants' \ DOMAIN grants = {}
         \/ \E c \in Caps : DOMAIN grants' \ DOMAIN grants = {c}
<1>1. ASSUME NEW c \in Caps, NEW e \in Expiry, Grant(c, e)
      PROVE  \/ DOMAIN grants' \ DOMAIN grants = {}
             \/ DOMAIN grants' \ DOMAIN grants = {c}
  BY <1>1 DEF Grant, Put
<1>2. ASSUME NEW c \in Caps, Revoke(c) \/ Deny(c)
      PROVE  DOMAIN grants' \ DOMAIN grants = {}
  BY <1>2 DEF Revoke, Deny, Without
<1>3. PurgeExpired => DOMAIN grants' \ DOMAIN grants = {}
  BY DEF PurgeExpired, Without
<1>4. ASSUME grants' = grants
      PROVE  DOMAIN grants' \ DOMAIN grants = {}
  BY <1>4
<1> QED BY <1>1, <1>2, <1>3, <1>4
        DEF Next, vars, SetMode, GrantRejected, AssertCapability, Clock

(* What the binds are: one for each active grant of a path.                *)
LEMMA BindsAre ==
  ASSUME order \in Seq(Caps), ToSet(order) = DOMAIN grants
  PROVE  ToSet(Binds) = {BindOf(g) : g \in PathGrants}
<1> DEFINE paths == Select(order, PathGrants)
<1>1. paths \in Seq(Caps) /\ ToSet(paths) = PathGrants
  <2>1. PathGrants \subseteq DOMAIN grants
    BY DEF PathGrants, Active
  <2> QED BY <2>1, SelectIs
<1>2. Binds = [i \in DOMAIN paths |-> BindOf(paths[i])]
  BY DEF Binds, PathGrants
<1> HIDE DEF paths
<1>3. PathGrants = {paths[i] : i \in DOMAIN paths}
  BY <1>1 DEF ToSet
<1>4. ToSet(Binds) = {BindOf(paths[i]) : i \in DOMAIN paths}
  <2>1. DOMAIN Binds = DOMAIN paths /\ \A i \in DOMAIN paths : Binds[i] = BindOf(paths[i])
    BY <1>2
  <2> QED BY <2>1 DEF ToSet
<1> QED BY <1>3, <1>4

(* The dict lists what is granted; the binds of an argv are those of the   *)
(* grants of paths it was built from, and these are still the active ones  *)
(* if the policy has not changed since.                                    *)
BuiltFromGrants ==
  /\ order \in Seq(Caps)
  /\ ToSet(order) = DOMAIN grants
  /\ built \subseteq Caps
  /\ argv # NotBuilt => ToSet(argv.binds) = {BindOf(g) : g \in built}
  /\ "argv" \in fresh => built = PathGrants

LEMMA BuiltFromGrantsAlways == LaunchSpec => []BuiltFromGrants
<1>1. LaunchInit => BuiltFromGrants
  <2>1. ToSet(<<>>) = {} /\ DOMAIN [g \in {} |-> Session] = {} /\ <<>> \in Seq(Caps)
    BY EmptySeq DEF ToSet
  <2> QED BY <2>1 DEF LaunchInit, Init, BuiltFromGrants
<1>2. TypeOK /\ BuiltFromGrants /\ [LaunchNext]_allVars => BuiltFromGrants'
  <2> SUFFICES ASSUME TypeOK, BuiltFromGrants, [LaunchNext]_allVars PROVE BuiltFromGrants'
    OBVIOUS
  <2>0. order \in Seq(Caps) /\ ToSet(order) = DOMAIN grants
    BY DEF BuiltFromGrants
  <2>1. CASE BuildArgv
    <3>1. argv'.binds = Binds /\ built' = PathGrants
      BY <2>1 DEF BuildArgv
    <3>2. UNCHANGED <<mode, grants, denied, now, order>>
      BY <2>1 DEF BuildArgv, vars
    <3>3. PathGrants' = PathGrants
      BY <3>2 DEF PathGrants, Active
    <3>4. PathGrants \subseteq Caps
      BY DEF PathGrants, Active, TypeOK
    <3>5. ToSet(Binds) = {BindOf(g) : g \in PathGrants}
      BY <2>0, BindsAre
    <3> QED BY <2>0, <3>1, <3>2, <3>3, <3>4, <3>5 DEF BuiltFromGrants
  <2>2. CASE BuildFilter \/ UNCHANGED allVars
    <3>1. /\ UNCHANGED <<grants, now, order, argv, built>>
          /\ "argv" \in fresh' => "argv" \in fresh
      BY <2>2 DEF BuildFilter, vars, allVars
    <3>2. PathGrants' = PathGrants
      BY <3>1 DEF PathGrants, Active
    <3> QED BY <3>1, <3>2 DEF BuiltFromGrants
  <2>3. CASE Start
    BY <2>0, <2>3 DEF Start, vars, BuiltFromGrants
  <2>4. CASE PolicyStep
    <3> DEFINE D == DOMAIN grants
               E == DOMAIN grants'
               kept == Select(order, E)
               new == SetToSeq(E \ D)
    <3>1. kept \in Seq(Caps) /\ ToSet(kept) = D \cap E
      BY <2>0, SelectIs
    <3>2. new \in Seq(Caps) /\ ToSet(new) = E \ D
      <4>1. E \ D = {} \/ \E c \in Caps : E \ D = {c}
        BY <2>4, OneMoreGrant DEF PolicyStep
      <4> QED BY <4>1, SetToSeqOfOne
    <3>3. order' = kept \o new /\ fresh' = {} /\ UNCHANGED <<argv, built>>
      BY <2>4 DEF PolicyStep, OrderAfter
    <3> HIDE DEF kept, new
    <3>4. order' \in Seq(Caps) /\ ToSet(order') = (D \cap E) \cup (E \ D)
      BY <3>1, <3>2, <3>3, ToSetConcat
    <3>5. ToSet(order') = E
      BY <3>4
    <3> QED BY <3>3, <3>4, <3>5 DEF BuiltFromGrants
  <2> QED BY <2>1, <2>2, <2>3, <2>4 DEF LaunchNext
<1> QED BY <1>1, <1>2, LaunchIsASession, TypeCorrect, PTL DEF LaunchSpec

(* One more component leads one step further.                              *)
LEMMA NormPathAppend ==
  ASSUME NEW N, NEW s \in Seq(N), NEW name \in N
  PROVE  NormPath(Append(s, name)) = NormStep(NormPath(s), name)
<1> DEFINE t == Append(s, name)
<1>1. Len(s) \in Nat /\ t \in Seq(N) /\ Len(t) = Len(s) + 1 /\ t[Len(t)] = name
  OBVIOUS
<1>2. Same(s, 0, t, 0, Len(s))
  BY DEF Same
<1> HIDE DEF t
<1>3. PICK f : Leads(f, s, Len(s)) /\ NormPath(s) = f[Len(s)]
  BY <1>1, NormPathIs
<1>4. PICK g : Leads(g, t, Len(t)) /\ NormPath(t) = g[Len(t)]
  BY <1>1, NormPathIs
<1>5. f[0] = <<>> /\ g[0] = <<>>
  BY <1>1, <1>3, <1>4 DEF Leads
<1>6. f[Len(s)] = g[Len(s)]
  <2>1. f[0 + Len(s)] = g[0 + Len(s)]
    BY <1>1, <1>2, <1>3, <1>4, <1>5, LeadsAgree
  <2> QED BY <1>1, <2>1
<1>7. g[Len(t)] = NormStep(g[Len(t) - 1], t[Len(t)])
  BY <1>1, <1>4 DEF Leads
<1>8. Len(t) - 1 = Len(s)
  BY <1>1
<1> QED BY <1>1, <1>3, <1>4, <1>6, <1>7, <1>8 DEF t

LEMMA NormPathType ==
  ASSUME NEW N, NEW s \in Seq(N)
  PROVE  NormPath(s) \in Seq(N)
<1>1. Len(s) \in Nat /\ \A k \in 1 .. Len(s) : s[k] \in N
  OBVIOUS
<1>2. PICK f : Leads(f, s, Len(s)) /\ NormPath(s) = f[Len(s)]
  BY <1>1, NormPathIs
<1>3. \A k \in 0 .. Len(s) : f[k] \in Seq(N)
  BY <1>1, <1>2, LeadsType
<1> QED BY <1>1, <1>2, <1>3

(* Where the components of a relative path lead, one after the other.      *)
RelLeads(dir, names, n) ==
  dir = [k \in 0 .. n |-> IF k = 0 THEN <<>> ELSE NormRelStep(dir[k - 1], names[k])]

LEMMA RelLeadsExists ==
  ASSUME NEW names, NEW m \in Nat
  PROVE  \E dir : RelLeads(dir, names, m)
<1> SUFFICES ASSUME ~ \E dir : RelLeads(dir, names, m) PROVE FALSE
  OBVIOUS
<1> DEFINE T == {n \in Nat : ~ \E dir : RelLeads(dir, names, n)}
<1>1. m \in T /\ T \subseteq Nat
  OBVIOUS
<1>2. PICK n \in T : \A k \in T : ~ (<<k, n>> \in OpToRel(<, Nat))
  <2> HIDE DEF T
  <2> QED BY <1>1, NatLessThanWellFounded, WFMin
<1>3. n \in Nat /\ \A k \in Nat : k < n => \E dir : RelLeads(dir, names, k)
  BY <1>2 DEF OpToRel
<1>4. CASE n = 0
  <2> DEFINE f == [k \in 0 .. 0 |-> <<>>]
  <2>1. f = [k \in 0 .. n |-> IF k = 0 THEN <<>> ELSE NormRelStep(f[k - 1], names[k])]
    BY <1>4
  <2> QED BY <1>2, <2>1 DEF RelLeads
<1>5. CASE n # 0
  <2>1. PICK f : RelLeads(f, names, n - 1)
    BY <1>3, <1>5
  <2> DEFINE g == [k \in 0 .. n |-> IF k = n THEN NormRelStep(f[n - 1], names[n]) ELSE f[k]]
  <2>2. ASSUME NEW k \in 0 .. n
        PROVE  g[k] = IF k = 0 THEN <<>> ELSE NormRelStep(g[k - 1], names[k])
    <3>1. CASE k = n
      <4>1. k - 1 \in 0 .. n /\ k - 1 # n /\ k # 0
        BY <1>3, <1>5, <3>1
      <4>2. g[k - 1] = f[n - 1]
        BY <3>1, <4>1
      <4> QED BY <3>1, <4>1, <4>2
    <3>2. CASE k # n
      <4>1. k \in 0 .. n - 1 /\ g[k] = f[k]
        BY <1>3, <3>2
      <4>2. f[k] = IF k = 0 THEN <<>> ELSE NormRelStep(f[k - 1], names[k])
        BY <2>1, <4>1 DEF RelLeads
      <4>3. k # 0 => g[k - 1] = f[k - 1]
        BY <1>3, <4>1
      <4> QED BY <4>1, <4>2, <4>3
    <3> QED BY <3>1, <3>2
  <2>3. g = [k \in 0 .. n |-> g[k]]
    OBVIOUS
  <2> HIDE DEF g
  <2>4. RelLeads(g, names, n)
    BY <2>2, <2>3 DEF RelLeads
  <2> QED BY <1>2, <2>4
<1> QED BY <1>4, <1>5

LEMMA NormRelIs ==
  ASSUME NEW names, Len(names) \in Nat
  PROVE  \E dir : RelLeads(dir, names, Len(names)) /\ NormRel(names) = dir[Len(names)]
<1> DEFINE f == CHOOSE dir : dir = [k \in 0 .. Len(names) |->
                  IF k = 0 THEN <<>> ELSE NormRelStep(dir[k - 1], names[k])]
<1>1. \E g : g = [k \in 0 .. Len(names) |->
             IF k = 0 THEN <<>> ELSE NormRelStep(g[k - 1], names[k])]
  BY RelLeadsExists DEF RelLeads
<1>2. f = [k \in 0 .. Len(names) |-> IF k = 0 THEN <<>> ELSE NormRelStep(f[k - 1], names[k])]
  BY <1>1
<1>3. NormRel(names) = f[Len(names)]
  BY DEF NormRel
<1> HIDE DEF f
<1> QED BY <1>2, <1>3 DEF RelLeads

(* One component taken into a relative path, and then the path taken from  *)
(* a directory, or the component taken after both: the same directory.     *)
NoDot(r) == \A i \in DOMAIN r : r[i] # "."

LEMMA NormRelStepAnchored ==
  ASSUME NEW N, NEW a \in Seq(N), NEW r \in Seq(N), NEW name \in N, NoDot(r)
  PROVE  /\ NormRelStep(r, name) \in Seq(N)
         /\ NoDot(NormRelStep(r, name))
         /\ NormPath(a \o NormRelStep(r, name)) = NormStep(NormPath(a \o r), name)
<1>0. Len(r) \in Nat /\ DOMAIN r = 1 .. Len(r) /\ a \o r \in Seq(N)
  OBVIOUS
<1>1. CASE name = "."
  <2>1. NormRelStep(r, name) = r /\ NormStep(NormPath(a \o r), name) = NormPath(a \o r)
    BY <1>1 DEF NormRelStep, NormStep
  <2> QED BY <2>1
<1>2. CASE name # "." /\ (name # ".." \/ r = <<>> \/ Last(r) = "..")
  <2>1. NormRelStep(r, name) = Append(r, name)
    <3>1. CASE name = ".."
      BY <1>2, <3>1 DEF NormRelStep
    <3>2. CASE name # ".."
      <4>1. NormStep(r, name) = Append(r, name)
        BY <1>2, <3>2, Zenon DEF NormStep
      <4> QED BY <3>2, <4>1 DEF NormRelStep
    <3> QED BY <3>1, <3>2
  <2>2. a \o Append(r, name) = Append(a \o r, name)
    OBVIOUS
  <2>3. NormPath(Append(a \o r, name)) = NormStep(NormPath(a \o r), name)
    BY <1>0, NormPathAppend
  <2>4. NoDot(Append(r, name))
    BY <1>2 DEF NoDot
  <2> QED BY <2>1, <2>2, <2>3, <2>4
<1>3. CASE name = ".." /\ r # <<>> /\ Last(r) # ".."
  <2> DEFINE q == Front(r)
             l == r[Len(r)]
             y == NormPath(a \o q)
  <2>1. q \in Seq(N) /\ l \in N /\ r = Append(q, l) /\ NoDot(q)
    BY <1>0, <1>3 DEF Front, NoDot
  <2>2. l \notin {".", ".."}
    BY <1>0, <1>3 DEF NoDot, Last
  <2>3. NormRelStep(r, name) = q
    BY <1>3 DEF NormRelStep, NormStep
  <2> HIDE DEF q, l
  <2>4. a \o q \in Seq(N) /\ a \o r = Append(a \o q, l)
    BY <2>1
  <2>5. NormPath(a \o r) = NormStep(y, l) /\ y \in Seq(N)
    BY <2>1, <2>4, NormPathAppend, NormPathType
  <2> HIDE DEF y
  <2>6. NormStep(y, l) = Append(y, l)
    BY <2>2, Zenon DEF NormStep
  <2>7. Append(y, l) # <<>> /\ Front(Append(y, l)) = y
    BY <2>1, <2>5, FrontAppend
  <2>8. NormStep(Append(y, l), name) = y
    BY <1>3, <2>7 DEF NormStep
  <2> QED BY <2>1, <2>3, <2>5, <2>6, <2>8 DEF y
<1> QED BY <1>1, <1>2, <1>3

(* normpath of a relative path before it is taken from a directory changes *)
(* nothing of where it leads.                                              *)
LEMMA NormRelAnchored ==
  ASSUME NEW N, NEW a \in Seq(N), NEW s \in Seq(N)
  PROVE  NormPath(a \o NormRel(s)) = NormPath(a \o s)
<1> DEFINE t == a \o s
<1>1. /\ Len(s) \in Nat /\ Len(a) \in Nat /\ t \in Seq(N) /\ Len(t) = Len(a) + Len(s)
      /\ Same(a, 0, t, 0, Len(a)) /\ Same(s, 0, t, Len(a), Len(s))
      /\ \A k \in 1 .. Len(s) : s[k] \in N
  BY DEF Same
<1> HIDE DEF t
<1>2. PICK r : RelLeads(r, s, Len(s)) /\ NormRel(s) = r[Len(s)]
  BY <1>1, NormRelIs
<1>3. PICK f : Leads(f, t, Len(t)) /\ NormPath(t) = f[Len(t)]
  BY <1>1, NormPathIs
<1> DEFINE Agree(k) == /\ r[k] \in Seq(N) /\ NoDot(r[k])
                       /\ NormPath(a \o r[k]) = f[Len(a) + k]
<1>4. Agree(0)
  <2>1. r[0] = <<>>
    BY <1>1, <1>2 DEF RelLeads
  <2>2. PICK g : Leads(g, a, Len(a)) /\ NormPath(a) = g[Len(a)]
    BY <1>1, NormPathIs
  <2>3. g[0] = <<>> /\ f[0] = <<>>
    BY <1>1, <1>3, <2>2 DEF Leads
  <2>4. g[0 + Len(a)] = f[0 + Len(a)]
    BY <1>1, <1>3, <2>2, <2>3, LeadsAgree
  <2>5. a \o <<>> = a /\ <<>> \in Seq(N) /\ NoDot(<<>>)
    BY DEF NoDot
  <2>6. f[Len(a) + 0] = g[Len(a)]
    BY <1>1, <2>4
  <2>7. NormPath(a \o r[0]) = NormPath(a)
    BY <2>1, <2>5
  <2> QED BY <2>1, <2>2, <2>5, <2>6, <2>7
<1>5. ASSUME NEW k \in 1 .. Len(s), Agree(k - 1) PROVE Agree(k)
  <2>0. k \in 0 .. Len(s) /\ k # 0
    BY <1>1
  <2>1. r[k] = NormRelStep(r[k - 1], s[k])
    BY <1>2, <2>0 DEF RelLeads
  <2>2. /\ r[k] \in Seq(N) /\ NoDot(r[k])
        /\ NormPath(a \o r[k]) = NormStep(NormPath(a \o r[k - 1]), s[k])
    <3> DEFINE q == r[k - 1]
               name == s[k]
    <3>1. q \in Seq(N) /\ NoDot(q) /\ name \in N /\ r[k] = NormRelStep(q, name)
      BY <1>1, <1>5, <2>1
    <3> HIDE DEF q, name
    <3>2. /\ NormRelStep(q, name) \in Seq(N) /\ NoDot(NormRelStep(q, name))
          /\ NormPath(a \o NormRelStep(q, name)) = NormStep(NormPath(a \o q), name)
      BY <3>1, NormRelStepAnchored
    <3> QED BY <3>1, <3>2 DEF q, name
  <2>3. f[Len(a) + k] = NormStep(f[(Len(a) + k) - 1], t[Len(a) + k])
    BY <1>1, <1>3, LeadsStep
  <2>4. t[Len(a) + k] = s[k] /\ (Len(a) + k) - 1 = Len(a) + (k - 1)
    <3>1. s[0 + k] = t[Len(a) + k]
      BY <1>1 DEF Same
    <3> QED BY <1>1, <3>1
  <2> QED BY <1>5, <2>2, <2>3, <2>4
<1>6. Agree(Len(s))
  <2> SUFFICES ASSUME ~Agree(Len(s)) PROVE FALSE
    OBVIOUS
  <2> DEFINE T == {k \in Nat : k \in 0 .. Len(s) /\ ~Agree(k)}
  <2> HIDE DEF Agree
  <2>1. Len(s) \in T /\ T \subseteq Nat
    BY <1>1
  <2>2. PICK n \in T : \A k \in T : ~ (<<k, n>> \in OpToRel(<, Nat))
    <3> HIDE DEF T
    <3> QED BY <2>1, NatLessThanWellFounded, WFMin
  <2>3. n \in 0 .. Len(s) /\ n \in Nat /\ ~Agree(n) /\ n # 0
    BY <1>4, <2>2
  <2>4. Agree(n - 1)
    <3> SUFFICES ASSUME ~Agree(n - 1) PROVE FALSE
      OBVIOUS
    <3>1. n - 1 \in T /\ n - 1 \in Nat /\ n - 1 < n
      BY <1>1, <2>3
    <3> HIDE DEF T
    <3> QED BY <2>2, <2>3, <3>1 DEF OpToRel
  <2> QED BY <1>1, <1>5, <2>3, <2>4
<1> QED BY <1>1, <1>2, <1>3, <1>6 DEF t

(* Where the policy and bwrap.py read a scope alike, the bind shows the    *)
(* directory the policy compares paths with.                               *)
LEMMA SourceIsMeant ==
  ASSUME NEW g \in Capability
  PROVE  Source(BindOf(g)) = Meant(g) /\ (BindOf(g).writable <=> g.kind = "write-fs")
<1> DEFINE scope == g.scope
<1>0. scope \in Seq(STRING) /\ BwrapCwd \in Seq(STRING)
  BY ReadingAssumption DEF Capability
<1>a. /\ BindOf(g).path = Resolve(scope).path
      /\ BindOf(g).absolute = Resolve(scope).absolute
      /\ BindOf(g).writable = (g.kind = "write-fs")
  BY DEF BindOf
<1> HIDE DEF scope
<1>b. /\ "~" \in DOMAIN Homes /\ "/" \notin DOMAIN Homes
      /\ "~" \notin DOMAIN UserName /\ "/" \notin DOMAIN UserName
      /\ DOMAIN Homes \subseteq {"~"} \cup DOMAIN UserName
  BY DirectoriesAssumption, ReadingAssumption
<1>1. CASE scope[1] = "/"
  <2>1. Resolve(scope) = [path |-> NormPath(Tail(scope)), absolute |-> TRUE]
    BY <1>b, <1>1, Zenon DEF Resolve
  <2>2. Absolute(scope) = Tail(scope)
    BY <1>b, <1>1, Zenon DEF Absolute
  <2>3. Source(BindOf(g)) = Normalize(scope)
    BY <1>a, <2>1, <2>2 DEF Source, Normalize
  <2> QED BY <1>a, <2>3 DEF Meant, scope
<1>2. CASE scope[1] = "~" /\ HomeDir = Homes["~"]
  <2>1. Resolve(scope) = [path |-> NormPath(HomeDir \o Tail(scope)), absolute |-> TRUE]
    BY <1>b, <1>2, Zenon DEF Resolve
  <2>2. Absolute(scope) = HomeDir \o Tail(scope)
    BY <1>b, <1>2, Zenon DEF Absolute
  <2>3. Source(BindOf(g)) = Normalize(scope)
    BY <1>a, <2>1, <2>2 DEF Source, Normalize
  <2> QED BY <1>a, <2>3 DEF Meant, scope
<1>3. CASE scope[1] \notin {"/", "~"} \cup DOMAIN UserName /\ BwrapCwd = Cwd
  <2>1. Resolve(scope) = [path |-> NormRel(scope), absolute |-> FALSE]
    BY <1>b, <1>3, Zenon DEF Resolve
  <2>2. Absolute(scope) = Cwd \o scope
    BY <1>b, <1>3, Zenon DEF Absolute
  <2>3. NormPath(BwrapCwd \o NormRel(scope)) = NormPath(BwrapCwd \o scope)
    BY <1>0, NormRelAnchored
  <2>4. Source(BindOf(g)) = Normalize(scope)
    BY <1>3, <1>a, <2>1, <2>2, <2>3 DEF Source, Normalize
  <2> QED BY <1>a, <2>4 DEF Meant, scope
<1>4. CASE ~ReadAlike(scope)
  BY <1>4, <1>a DEF Meant, scope
<1> QED BY <1>1, <1>2, <1>3, <1>4 DEF ReadAlike

(* NothingBeyondGrants: whatever was granted, replaced, denied or purged   *)
(* in whatever order before an argv is built and while it waits, it mounts *)
(* what the grants active at that moment are for and nothing else, and     *)
(* writable only what may be written; and nothing denied or missing while  *)
(* the policy has not changed.                                             *)
THEOREM NothingBeyond == LaunchSpec => []NothingBeyondGrants
<1>1. TypeOK /\ DeniedNotGranted /\ BuiltFromGrants => NothingBeyondGrants
  <2> SUFFICES ASSUME TypeOK, DeniedNotGranted, BuiltFromGrants, argv # NotBuilt
               PROVE  NothingBeyondGrants
    BY DEF NothingBeyondGrants
  <2> DEFINE binds == argv.binds
  <2>a. ToSet(binds) = {BindOf(g) : g \in built} /\ built \subseteq Capability
    BY CapsAssumption DEF BuiltFromGrants
  <2> HIDE DEF binds
  <2>b. \A g \in built : /\ Source(BindOf(g)) = Meant(g)
                         /\ BindOf(g).writable <=> g.kind = "write-fs"
    BY <2>a, SourceIsMeant
  <2>c. ASSUME NEW place, NEW i \in Showing(binds, place)
        PROVE  \E g \in built : /\ IsPrefix(Meant(g), place)
                                /\ binds[i].writable <=> g.kind = "write-fs"
    <3>1. i \in DOMAIN binds /\ IsPrefix(Source(binds[i]), place)
      BY DEF Showing
    <3>2. binds[i] \in ToSet(binds)
      BY <3>1 DEF ToSet
    <3>3. PICK g \in built : binds[i] = BindOf(g)
      BY <2>a, <3>2
    <3> QED BY <2>b, <3>1, <3>3
  <2>1. ASSUME NEW c \in PathCaps("write-fs"), Writable(binds, Normalize(c.scope))
        PROVE  \E g \in built : g.kind = "write-fs" /\ IsPrefix(Meant(g), Normalize(c.scope))
    BY <2>1, <2>c DEF Writable
  <2>2. ASSUME NEW c \in PathCaps("read-fs") \cup PathCaps("write-fs"),
               Readable(binds, Normalize(c.scope))
        PROVE  \E g \in built : IsPrefix(Meant(g), Normalize(c.scope))
    BY <2>2, <2>c DEF Readable
  <2>3. {[path |-> Source(b), writable |-> b.writable] : b \in ToSet(binds)}
          = {[path |-> Meant(g), writable |-> g.kind = "write-fs"] : g \in built}
    <3> DEFINE Shown(b) == [path |-> Source(b), writable |-> b.writable]
               Granted(g) == [path |-> Meant(g), writable |-> g.kind = "write-fs"]
    <3>1. ASSUME NEW g \in built PROVE Shown(BindOf(g)) = Granted(g)
      <4>1. BindOf(g).writable = (g.kind = "write-fs")
        BY DEF BindOf
      <4> QED BY <2>b, <4>1
    <3> HIDE DEF Shown, Granted
    <3>2. {Shown(b) : b \in ToSet(binds)} = {Granted(g) : g \in built}
      BY <2>a, <3>1
    <3> QED BY <3>2 DEF Shown, Granted
  <2>4. "argv" \in fresh => built = PathGrants \ denied
    BY DEF BuiltFromGrants, DeniedNotGranted, PathGrants, Active
  <2> QED BY <2>1, <2>2, <2>3, <2>4 DEF NothingBeyondGrants, binds
<1> QED BY <1>1, LaunchIsASession, TypeCorrect, DeniedNeverGranted, BuiltFromGrantsAlways, PTL
===============================================================================
