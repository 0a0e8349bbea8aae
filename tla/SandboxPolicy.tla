----------------------------- MODULE SandboxPolicy -----------------------------
(***************************************************************************)
(* The permissions of one agent session, class SandboxPolicy of            *)
(* agent/sandbox/policy.py: the mode, the grants with their expiry, the    *)
(* blocklist, and the audit events every operation emits.                  *)
(*                                                                         *)
(* The clock is the wall clock (time.time by default): it moves in either  *)
(* direction.  The audit callback is heard by an auditor who keeps, in     *)
(* `ledger`, what the events told so far add up to.                        *)
(***************************************************************************)
EXTENDS Capability, Integers

CONSTANTS
  Caps,      \* the capabilities the session deals in
  Expiries,  \* the expiry times grants are given
  Session,   \* expires_at = None: until the session closes
  MaxTime    \* bound: the clock shows 0 .. MaxTime

ASSUME CapsAssumption == Caps \subseteq Capability
ASSUME ClockAssumption ==
  /\ MaxTime \in Nat
  /\ Expiries \subseteq Nat
  /\ Session \notin Nat

Modes == {"paranoid", "normal", "demo"}

Expiry == Expiries \cup {Session}

NoCap == [kind |-> "none", scope |-> <<>>]

VARIABLES
  mode,
  grants,   \* capability -> expires_at, on the capabilities granted
  denied,   \* the blocklist
  now,      \* what now_provider returns
  last,     \* the last audit event and its capability
  ledger    \* history: what the audit events add up to

vars == <<mode, grants, denied, now, last, ledger>>

Events == {"init", "grant", "revoke", "deny", "use:allowed", "use:denied",
           "use:expired", "mode:set", "expire:purge"}

TypeOK ==
  /\ mode \in Modes
  /\ DOMAIN grants \subseteq Caps
  /\ grants \in [DOMAIN grants -> Expiry]
  /\ denied \subseteq Caps
  /\ now \in 0 .. MaxTime
  /\ last \in [event : Events, cap : Caps \cup {NoCap}]
  /\ ledger \in [mode : Modes, granted : SUBSET Caps, denied : SUBSET Caps,
                 unexplained : SUBSET Caps]

-------------------------------------------------------------------------------
(* Queries *)

IsExpired(expires, time) == expires # Session /\ expires <= time

(* list_grants() without include_expired. *)
Active == {g \in DOMAIN grants : ~IsExpired(grants[g], now)}

(* The grants _find_covering_grant chooses from: the first in dict order   *)
(* is returned, and nothing but the text of an event depends on which.     *)
Covering(c) == {g \in Active : Covers(g, c)}

HasExpiredGrant(c) == \E g \in DOMAIN grants \ Active : Covers(g, c)

SudoBlocked(c) == c.kind = "sudo" /\ SudoNever \in denied

(* A fault: the blocklist is not looked at. *)
BlockedNever(c) == FALSE

Blocked(c) == c \in denied \/ SudoBlocked(c)

IsGranted(c) == ~Blocked(c) /\ Covering(c) # {}

(* The event assert_capability emits: it returns on "use:allowed" and      *)
(* raises on the others.                                                   *)
Verdict(c) ==
  IF mode = "demo" \/ Blocked(c) THEN "use:denied"
  ELSE IF Covering(c) # {} THEN "use:allowed"
  ELSE IF HasExpiredGrant(c) THEN "use:expired"
  ELSE "use:denied"

-------------------------------------------------------------------------------
(* The audit callback *)

(* What an auditor concludes from one more event.  "expire:purge" carries  *)
(* a count and no capability, so it tells him nothing about which grants   *)
(* are gone.  A use is unexplained if nothing he heard justifies it.       *)
Hear(told, event, c) ==
  CASE event = "grant"    -> [told EXCEPT !.granted = @ \cup {c}]
    [] event = "revoke"   -> [told EXCEPT !.granted = @ \ {c}]
    [] event = "deny"     -> [told EXCEPT !.granted = @ \ {c},
                                          !.denied  = @ \cup {c}]
    [] event = "use:allowed" ->
         IF \/ told.mode = "demo"
            \/ c \in told.denied
            \/ c.kind = "sudo" /\ SudoNever \in told.denied
            \/ \A g \in told.granted : ~Covers(g, c)
         THEN [told EXCEPT !.unexplained = @ \cup {c}]
         ELSE told
    [] OTHER              -> told

Emit(event, c) ==
  /\ last' = [event |-> event, cap |-> c]
  /\ ledger' = Hear(ledger, event, c)

EmitMode(m) ==
  /\ last' = [event |-> "mode:set", cap |-> NoCap]
  /\ ledger' = [ledger EXCEPT !.mode = m]

-------------------------------------------------------------------------------
(* Operations *)

Init ==
  /\ mode = "normal"
  /\ grants = [g \in {} |-> Session]
  /\ denied = {}
  /\ now = 0
  /\ last = [event |-> "init", cap |-> NoCap]
  /\ ledger = [mode |-> "normal", granted |-> {}, denied |-> {}, unexplained |-> {}]

SetMode(m) ==
  /\ mode' = m
  /\ EmitMode(m)
  /\ UNCHANGED <<grants, denied, now>>

(* A fault: one expiry for all grants, the latest given. *)
PutOneExpiry(c, e) == [g \in DOMAIN grants \cup {c} |-> e]

(* grants[cap] = CapabilityGrant(...): a second grant replaces the first. *)
Put(c, e) == [g \in DOMAIN grants \cup {c} |-> IF g = c THEN e ELSE grants[g]]

(* A fault: a removed grant stays, expired from the start of time. *)
WithoutBlanked(S) == [g \in DOMAIN grants |-> IF g \in S THEN 0 ELSE grants[g]]

Without(S) == [g \in DOMAIN grants \ S |-> grants[g]]

(* A fault: the blocklist is not consulted. *)
GrantUnchecked(c, e) ==
  /\ grants' = Put(c, e)
  /\ Emit("grant", c)
  /\ UNCHANGED <<mode, denied, now>>

Grant(c, e) ==
  /\ c \notin denied
  /\ grants' = Put(c, e)
  /\ Emit("grant", c)
  /\ UNCHANGED <<mode, denied, now>>

GrantRejected(c) ==
  /\ c \in denied
  /\ Emit("use:denied", c)
  /\ UNCHANGED <<mode, grants, denied, now>>

(* A fault: the event is emitted and the grant stays. *)
RevokeKeepsGrant(c) ==
  /\ c \in DOMAIN grants
  /\ Emit("revoke", c)
  /\ UNCHANGED <<mode, grants, denied, now>>

(* Revoking what was not granted changes nothing and emits nothing. *)
Revoke(c) ==
  /\ c \in DOMAIN grants
  /\ grants' = Without({c})
  /\ Emit("revoke", c)
  /\ UNCHANGED <<mode, denied, now>>

Deny(c) ==
  /\ denied' = denied \cup {c}
  /\ grants' = Without({c})
  /\ Emit("deny", c)
  /\ UNCHANGED <<mode, now>>

AssertCapability(c) ==
  /\ Emit(Verdict(c), c)
  /\ UNCHANGED <<mode, grants, denied, now>>

(* A fault: the purge forgets every grant that has an expiry. *)
PurgeTimed ==
  /\ \E g \in DOMAIN grants : grants[g] # Session
  /\ grants' = Without({g \in DOMAIN grants : grants[g] # Session})
  /\ Emit("expire:purge", NoCap)
  /\ UNCHANGED <<mode, denied, now>>

(* A purge that finds nothing expired changes nothing and emits nothing. *)
PurgeExpired ==
  /\ DOMAIN grants # Active
  /\ grants' = Without(DOMAIN grants \ Active)
  /\ Emit("expire:purge", NoCap)
  /\ UNCHANGED <<mode, denied, now>>

(* The wall clock: time passes, or somebody sets it, forward or back. *)
Clock ==
  /\ now' \in (0 .. MaxTime) \ {now}
  /\ UNCHANGED <<mode, grants, denied, last, ledger>>

Next ==
  \/ \E m \in Modes : SetMode(m)
  \/ \E c \in Caps, e \in Expiry : Grant(c, e)
  \/ \E c \in Caps : GrantRejected(c)
  \/ \E c \in Caps : Revoke(c)
  \/ \E c \in Caps : Deny(c)
  \/ \E c \in Caps : AssertCapability(c)
  \/ PurgeExpired
  \/ Clock

Spec == Init /\ [][Next]_vars

-------------------------------------------------------------------------------
(* Properties *)

(* No sequence of grants, denials, purges and second grants leaves a       *)
(* capability both on the blocklist and in the grants: what bwrap.py reads *)
(* are the grants alone.                                                   *)
DeniedNotGranted == denied \cap DOMAIN grants = {}

(* Whoever hears every audit event knows the mode and the blocklist, knows *)
(* of every grant, and can justify every allowed use by grants he heard of *)
(* and has not heard revoked.                                              *)
AuditTrailComplete ==
  /\ ledger.mode = mode
  /\ ledger.denied = denied
  /\ DOMAIN grants \subseteq ledger.granted
  /\ ledger.unexplained = {}

(* While the clock does not go back, the one operation that gives a right  *)
(* is a grant that covers it: no change of mode, revocation, denial, purge *)
(* or use does.                                                            *)
RightsComeFromGrants ==
  [][ \A c \in Caps :
        (now' >= now /\ ~IsGranted(c) /\ IsGranted(c)')
          => last'.event = "grant" /\ Covers(last'.cap, c) ]_vars

(* Purging expired grants is housekeeping: no right appears or disappears. *)
PurgeChangesNoRight ==
  [][ (grants' # grants /\ last'.event = "expire:purge")
        => \A c \in Caps : IsGranted(c)' = IsGranted(c) ]_vars

(* A denial is for the rest of the session, whatever is granted later: the *)
(* capability stays on the blocklist and no use of it is allowed again;    *)
(* sudo:never denies every sudo capability.                                *)
DeniedForGood ==
  [][ /\ denied \subseteq denied'
      /\ \A c \in Caps :
           c \in denied \/ (c.kind = "sudo" /\ SudoNever \in denied)
             => last' # [event |-> "use:allowed", cap |-> c] ]_vars
===============================================================================
