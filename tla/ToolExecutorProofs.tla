-------------------------- MODULE ToolExecutorProofs --------------------------
(***************************************************************************)
(* Theorems about ToolExecutor, for every set of calls, tools, definitions *)
(* and capabilities.                                                       *)
(***************************************************************************)
EXTENDS ToolExecutor, TLAPS

(* The registry, the gate and every call keep their types under every      *)
(* step of execute(), of the registry and of the user.                     *)
THEOREM TypeCorrect == Spec => []TypeOK
<1>1. Init => TypeOK
  BY DEF Init, TypeOK, Pending
<1>2. TypeOK /\ [Next]_vars => TypeOK'
  <2> SUFFICES ASSUME TypeOK, [Next]_vars PROVE TypeOK'
    OBVIOUS
  <2>1. ASSUME NEW c \in Calls, NEW n \in Names, Lookup(c, n) PROVE TypeOK'
    <3>1. CASE n \in DOMAIN registry
      <4>1. registry[n] \in Defs /\ registry[n].caps \subseteq Caps
        BY <3>1, DefsAssumption DEF TypeOK, Pending
      <4> QED BY <2>1, <3>1, <4>1 DEF Lookup, TypeOK, Pending
    <3>2. CASE n \notin DOMAIN registry
      BY <2>1, <3>2 DEF Lookup, Return, TypeOK, Pending, Results
    <3> QED BY <3>1, <3>2
  <2>2. ASSUME NEW c \in Calls, NEW k \in Caps, CheckCapability(c, k) PROVE TypeOK'
    BY <2>2 DEF CheckCapability, Return, TypeOK, Pending, Results
  <2>3. ASSUME NEW c \in Calls, Ask(c) PROVE TypeOK'
    BY <2>3 DEF Ask, TypeOK, Pending
  <2>4. ASSUME NEW c \in Calls, Answer(c) PROVE TypeOK'
    <3>1. CASE approved' = approved \cup {c} /\ confirmed' = confirmed \cup {name[c]}
      <4>1. name[c] \in Names
        BY <2>4 DEF Answer, TypeOK, Pending
      <4> QED BY <2>4, <3>1, <4>1 DEF Answer, Return, TypeOK, Pending, Results
    <3>2. CASE UNCHANGED <<confirmed, approved>>
      BY <2>4, <3>2 DEF Answer, Return, TypeOK, Pending, Results
    <3> QED BY <2>4, <3>1, <3>2 DEF Answer
  <2>5. ASSUME NEW c \in Calls, Validate(c) PROVE TypeOK'
    BY <2>5 DEF Validate, Return, TypeOK, Pending, Results
  <2>6. ASSUME NEW c \in Calls, Run(c) PROVE TypeOK'
    BY <2>6 DEF Run, Return, TypeOK, Pending, Results
  <2>7. ASSUME NEW n \in Names, NEW d \in Defs, Register(n, d) \/ Replace(n, d) PROVE TypeOK'
    <3>1. registry' = Put(n, d) /\ UNCHANGED <<granted, gate, confirmed, callVars, approved>>
      BY <2>7 DEF Register, Replace
    <3>2. DOMAIN registry' \subseteq Names /\ registry' \in [DOMAIN registry' -> Defs]
      BY <3>1 DEF Put, TypeOK
    <3> QED BY <3>1, <3>2 DEF callVars, TypeOK, Pending
  <2>8. ASSUME NEW n \in Names, Unregister(n) PROVE TypeOK'
    <3>1. DOMAIN registry' \subseteq Names /\ registry' \in [DOMAIN registry' -> Defs]
      BY <2>8 DEF Unregister, TypeOK
    <3> QED BY <2>8, <3>1 DEF Unregister, callVars, TypeOK, Pending
  <2>9. CASE Clear
    <3>1. DOMAIN registry' \subseteq Names /\ registry' \in [DOMAIN registry' -> Defs]
      BY <2>9 DEF Clear
    <3> QED BY <2>9, <3>1 DEF Clear, callVars, TypeOK, Pending
  <2>10. ASSUME NEW k \in Caps, Withdraw(k) PROVE TypeOK'
    BY <2>10 DEF Withdraw, callVars, TypeOK, Pending
  <2>11. CASE UNCHANGED vars
    BY <2>11 DEF vars, TypeOK, Pending
  <2> QED
    BY <2>1, <2>2, <2>3, <2>4, <2>5, <2>6, <2>7, <2>8, <2>9, <2>10, <2>11 DEF Next, Step
<1> QED BY <1>1, <1>2, PTL DEF Spec

-------------------------------------------------------------------------------
(* What a call has been cleared for once it is past the confirmation.      *)
ClearedFor(c, d) ==
  /\ d.risk = "dangerous" => c \in approved
  /\ d.risk = "confirm" =>
       /\ gate = "always_ask" => c \in approved
       /\ gate = "trust_after_first" => \E a \in approved : name[a] = name[c]

(* Each stage of a call implies the ones before it.                        *)
Staged(c) ==
  /\ pc[c] = "idle" => c \notin approved
  /\ pc[c] # "done" => result[c] = None /\ effect[c] = None
  /\ pc[c] = "done" => result[c] \in Results
  /\ pc[c] \in {"ask", "validate", "run"} => left[c] = {}
  /\ pc[c] \in {"validate", "run"} => ClearedFor(c, def[c])
  /\ effect[c] # None => /\ left[c] = {} /\ ClearedFor(c, effect[c])
                         /\ result[c] \in {"ok", "error", "exception"}

(* The names the gate remembers are those of calls that were approved.     *)
ConfirmedWasApproved == \A n \in confirmed : \E a \in approved : name[a] = n

IInv == ConfirmedWasApproved /\ \A c \in Calls : Staged(c)

(* A stage holds on for a call another call's step leaves alone.           *)
LEMMA StagedStays ==
  ASSUME NEW c \in Calls, Staged(c), TypeOK,
         approved \subseteq approved', gate' = gate,
         c \in approved' => c \in approved,
         \A a \in approved \cup {c} : name'[a] = name[a],
         pc'[c] = pc[c], def'[c] = def[c], left'[c] = left[c],
         result'[c] = result[c], effect'[c] = effect[c]
  PROVE  Staged(c)'
<1>1. ClearedFor(c, def[c]) => ClearedFor(c, def[c])'
  BY DEF ClearedFor
<1>2. ClearedFor(c, effect[c]) => ClearedFor(c, effect[c])'
  BY DEF ClearedFor
<1> QED BY <1>1, <1>2 DEF Staged

(* Every stage of every call keeps IInv.                                   *)
LEMMA IInvHolds == Spec => []IInv
<1>1. Init => IInv
  BY DEF Init, IInv, ConfirmedWasApproved, Staged
<1>2. TypeOK /\ IInv /\ [Next]_vars => IInv'
  <2> SUFFICES ASSUME TypeOK, IInv, [Next]_vars PROVE IInv'
    OBVIOUS
  <2> USE DEF IInv
  <2>0. ASSUME NEW c \in Calls, Staged(c)',
               approved \subseteq approved', approved' \subseteq approved \cup {c}, gate' = gate,
               \A a \in approved : name'[a] = name[a],
               \A a \in Calls \ {c} :
                 /\ pc'[a] = pc[a] /\ name'[a] = name[a] /\ def'[a] = def[a]
                 /\ left'[a] = left[a] /\ result'[a] = result[a] /\ effect'[a] = effect[a]
        PROVE  \A a \in Calls : Staged(a)'
    <3> SUFFICES ASSUME NEW a \in Calls \ {c} PROVE Staged(a)'
      BY <2>0
    <3>1. \A b \in approved \cup {a} : name'[b] = name[b]
      BY <2>0
    <3>2. a \in approved' => a \in approved
      BY <2>0
    <3> QED BY <2>0, <3>1, <3>2, StagedStays
  <2>1. ASSUME NEW c \in Calls, NEW n \in Names, Lookup(c, n) PROVE IInv'
    <3>1. c \notin approved /\ effect[c] = None /\ result[c] = None
      BY <2>1 DEF Lookup, Staged
    <3>2. Staged(c)'
      BY <2>1, <3>1 DEF Lookup, Return, Staged, TypeOK, Results
    <3>3. ConfirmedWasApproved'
      BY <2>1, <3>1 DEF Lookup, ConfirmedWasApproved, TypeOK
    <3>4. \A a \in approved : name'[a] = name[a]
      BY <2>1, <3>1 DEF Lookup, TypeOK
    <3> QED BY <2>0, <2>1, <3>2, <3>3, <3>4 DEF Lookup, Return, TypeOK
  <2>2. ASSUME NEW c \in Calls, NEW k \in Caps, CheckCapability(c, k) PROVE IInv'
    <3>2. Staged(c)'
      BY <2>2 DEF CheckCapability, Return, Staged, TypeOK, Results
    <3>3. ConfirmedWasApproved'
      BY <2>2 DEF CheckCapability, ConfirmedWasApproved
    <3> QED BY <2>0, <2>2, <3>2, <3>3 DEF CheckCapability, Return, TypeOK
  <2>3. ASSUME NEW c \in Calls, Ask(c) PROVE IInv'
    <3>1. ~NeedsConfirmation(name[c], def[c].risk) => ClearedFor(c, def[c])
      BY DEF NeedsConfirmation, ClearedFor, ConfirmedWasApproved
    <3>2. Staged(c)'
      BY <2>3, <3>1 DEF Ask, Staged, ClearedFor, TypeOK
    <3>3. ConfirmedWasApproved'
      BY <2>3 DEF Ask, ConfirmedWasApproved
    <3> QED BY <2>0, <2>3, <3>2, <3>3 DEF Ask, TypeOK
  <2>4. ASSUME NEW c \in Calls, Answer(c) PROVE IInv'
    <3>1. effect[c] = None /\ result[c] = None /\ left[c] = {}
      BY <2>4 DEF Answer, Staged
    <3>2. Staged(c)'
      <4>0. UNCHANGED <<gate, name, def, left, effect>> /\ c \in Calls
        BY <2>4 DEF Answer
      <4>1. CASE approved' = approved \cup {c} /\ pc' = [pc EXCEPT ![c] = "validate"]
                   /\ UNCHANGED result
        <5>1. ClearedFor(c, def[c])' /\ pc'[c] = "validate"
          BY <4>0, <4>1 DEF ClearedFor, TypeOK
        <5> QED BY <3>1, <4>0, <4>1, <5>1 DEF Staged
      <4>2. CASE \E r \in {"ConfirmationDeniedError", "not run"} : Return(c, r)
        <5>1. pc'[c] = "done" /\ result'[c] \in Results
          BY <4>2 DEF Return, TypeOK, Results
        <5> QED BY <3>1, <4>0, <5>1 DEF Staged
      <4> QED BY <2>4, <4>1, <4>2 DEF Answer
    <3>3. ConfirmedWasApproved'
      BY <2>4 DEF Answer, ConfirmedWasApproved
    <3> QED BY <2>0, <2>4, <3>2, <3>3 DEF Answer, Return, TypeOK
  <2>5. ASSUME NEW c \in Calls, Validate(c) PROVE IInv'
    <3>1. effect[c] = None /\ result[c] = None /\ left[c] = {} /\ ClearedFor(c, def[c])
      BY <2>5 DEF Validate, Staged
    <3>2. Staged(c)'
      <4>0. UNCHANGED <<gate, name, def, left, effect, approved>>
        BY <2>5 DEF Validate
      <4>1. CASE pc' = [pc EXCEPT ![c] = "run"] /\ UNCHANGED result
        <5>1. ClearedFor(c, def[c])' /\ pc'[c] = "run"
          BY <3>1, <4>0, <4>1 DEF ClearedFor, TypeOK
        <5> QED BY <3>1, <4>0, <4>1, <5>1 DEF Staged
      <4>2. CASE \E r \in {"ToolValidationError", "not run"} : Return(c, r)
        <5>1. pc'[c] = "done" /\ result'[c] \in Results
          BY <4>2 DEF Return, TypeOK, Results
        <5> QED BY <3>1, <4>0, <5>1 DEF Staged
      <4> QED BY <2>5, <4>1, <4>2 DEF Validate
    <3>3. ConfirmedWasApproved'
      BY <2>5 DEF Validate, ConfirmedWasApproved
    <3> QED BY <2>0, <2>5, <3>2, <3>3 DEF Validate, Return, TypeOK
  <2>6. ASSUME NEW c \in Calls, Run(c) PROVE IInv'
    <3>1. left[c] = {} /\ ClearedFor(c, def[c])
      BY <2>6 DEF Run, Staged
    <3>2. Staged(c)'
      <4>0. UNCHANGED <<gate, name, def, left, approved>> /\ effect'[c] = def[c]
        BY <2>6 DEF Run, TypeOK
      <4>1. pc'[c] = "done" /\ result'[c] \in {"ok", "error", "exception"}
        BY <2>6 DEF Run, Return, TypeOK
      <4>2. ClearedFor(c, effect[c])'
        BY <3>1, <4>0 DEF ClearedFor
      <4> QED BY <3>1, <4>0, <4>1, <4>2 DEF Staged, Results
    <3>3. ConfirmedWasApproved'
      BY <2>6 DEF Run, ConfirmedWasApproved
    <3> QED BY <2>0, <2>6, <3>2, <3>3 DEF Run, Return, TypeOK
  <2>7. CASE UNCHANGED <<gate, confirmed, callVars, approved>>
    BY <2>7, StagedStays DEF callVars, ConfirmedWasApproved
  <2>8. (\/ \E n \in Names, d \in Defs : Register(n, d) \/ Replace(n, d)
         \/ \E n \in Names : Unregister(n)
         \/ Clear
         \/ \E k \in Caps : Withdraw(k)
         \/ UNCHANGED vars) => UNCHANGED <<gate, confirmed, callVars, approved>>
    BY DEF Register, Replace, Unregister, Clear, Withdraw, vars, callVars
  <2> QED BY <2>1, <2>2, <2>3, <2>4, <2>5, <2>6, <2>7, <2>8 DEF Next, Step
<1> QED BY <1>1, <1>2, TypeCorrect, PTL DEF Spec

(* A dangerous executor runs only in a call the user said yes to           *)
(* (executor.py:116), whatever was remembered, replaced or withdrawn.      *)
THEOREM DangerousIsAsked == Spec => []DangerousAskedEachUse
<1>1. IInv => DangerousAskedEachUse
  BY DEF IInv, Staged, ClearedFor, DangerousAskedEachUse
<1> QED BY <1>1, IInvHolds, PTL

(* A tool that needs a confirmation and runs without one of its own was    *)
(* approved in another call (executor.py:118-124, 204-217).                *)
THEOREM TrustHasAYes == Spec => []TrustIsEarned
<1>1. IInv => TrustIsEarned
  BY DEF IInv, Staged, ClearedFor, TrustIsEarned
<1> QED BY <1>1, IInvHolds, PTL

(* A refused call has no effect, and one with an effect has no capability  *)
(* left to check (executor.py:147-155).                                    *)
THEOREM RefusalIsClean == Spec => []RefusedHadNoEffect
<1>1. IInv => RefusedHadNoEffect
  <2>1. ASSUME NEW c \in Calls, Staged(c), effect[c] # None
        PROVE  left[c] = {} /\ result[c] \in {"ok", "error", "exception"}
    BY <2>1 DEF Staged
  <2> QED BY <2>1, DefsAssumption DEF IInv, RefusedHadNoEffect, Results
<1> QED BY <1>1, IInvHolds, PTL
===============================================================================
