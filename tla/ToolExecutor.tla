----------------------------- MODULE ToolExecutor -----------------------------
(***************************************************************************)
(* The dispatcher of tool calls: ToolExecutor and GatePolicy of            *)
(* agent/tools/executor.py over the ToolRegistry of                        *)
(* agent/tools/registry.py.                                                *)
(*                                                                         *)
(* A call goes through look-up, capabilities, confirmation, validation and *)
(* execution.  The checker and the confirmer are the user interface: while *)
(* a call waits for either, other calls of the session go on, tools are    *)
(* registered, replaced and removed, and capabilities are withdrawn.       *)
(***************************************************************************)
EXTENDS Naturals

CONSTANTS
  Calls,     \* tool calls of the session
  Names,     \* names of tools
  Caps,      \* capability strings
  Defs,      \* tool definitions: [risk, caps, version]
  GateModes, \* modes a GatePolicy is made with
  None

Risks == {"safe", "confirm", "dangerous"}

(* "exception" is one that a tool raises, "not run" one that is raised     *)
(* before the tool is reached: execute() makes a result of both.           *)
Results == {"ok", "error", "exception", "not run", "ToolNotFoundError",
            "CapabilityDeniedError", "ConfirmationDeniedError", "ToolValidationError"}

ASSUME DefsAssumption ==
  /\ \A d \in Defs : d.risk \in Risks /\ d.caps \subseteq Caps
  /\ None \notin Defs /\ None \notin Names /\ None \notin Results

VARIABLES
  registry,   \* name -> definition, on the names registered
  granted,    \* capabilities the checker has
  gate,       \* mode of the GatePolicy
  confirmed,  \* GatePolicy._confirmed
  pc,         \* where each call is
  name,       \* the tool each call names
  def,        \* the definition each call looked up
  left,       \* the capabilities each call still has to check
  result,     \* the result each call returned
  effect,     \* history: the definition whose executor each call ran
  approved    \* history: the calls the user said yes to

callVars == <<pc, name, def, left, result, effect>>
vars == <<registry, granted, gate, confirmed, pc, name, def, left, result, effect, approved>>

Pending(c) == pc[c] \notin {"idle", "done"}

(* A call in progress has its definition. *)
TypeOK ==
  /\ DOMAIN registry \subseteq Names
  /\ registry \in [DOMAIN registry -> Defs]
  /\ granted \subseteq Caps
  /\ gate \in GateModes
  /\ confirmed \subseteq Names
  /\ pc \in [Calls -> {"idle", "caps", "ask", "validate", "run", "done"}]
  /\ name \in [Calls -> Names \cup {None}]
  /\ def \in [Calls -> Defs \cup {None}]
  /\ left \in [Calls -> SUBSET Caps]
  /\ result \in [Calls -> Results \cup {None}]
  /\ effect \in [Calls -> Defs \cup {None}]
  /\ approved \subseteq Calls
  /\ \A c \in Calls : Pending(c) => name[c] \in Names /\ def[c] \in Defs

Init ==
  /\ registry = [n \in {} |-> None]
  /\ granted = {}
  /\ gate \in GateModes
  /\ confirmed = {}
  /\ pc = [c \in Calls |-> "idle"]
  /\ name = [c \in Calls |-> None]
  /\ def = [c \in Calls |-> None]
  /\ left = [c \in Calls |-> {}]
  /\ result = [c \in Calls |-> None]
  /\ effect = [c \in Calls |-> None]
  /\ approved = {}

-------------------------------------------------------------------------------
(* GatePolicy *)

(* A mode other than these two asks for dangerous tools only. *)
NeedsConfirmation(n, risk) ==
  /\ risk # "safe"
  /\ \/ risk = "dangerous"
     \/ gate = "always_ask"
     \/ gate = "trust_after_first" /\ n \notin confirmed

-------------------------------------------------------------------------------
(* ToolExecutor.execute *)

Return(c, r) ==
  /\ pc' = [pc EXCEPT ![c] = "done"]
  /\ result' = [result EXCEPT ![c] = r]

(* The model names a tool; execute() finds its definition or gives up. *)
Lookup(c, n) ==
  /\ pc[c] = "idle"
  /\ name' = [name EXCEPT ![c] = n]
  /\ \/ /\ n \in DOMAIN registry
        /\ pc' = [pc EXCEPT ![c] = "caps"]
        /\ def' = [def EXCEPT ![c] = registry[n]]
        /\ left' = [left EXCEPT ![c] = registry[n].caps]
        /\ UNCHANGED result
     \/ /\ n \notin DOMAIN registry
        /\ Return(c, "ToolNotFoundError")
        /\ UNCHANGED <<def, left>>
  /\ UNCHANGED <<registry, granted, gate, confirmed, effect, approved>>

(* One round of _check_capabilities: the checker has the capability, or    *)
(* requests it from the user, who grants or denies it; or has() or         *)
(* request() raises, the latter when it has recorded the grant or before.  *)
CheckCapability(c, k) ==
  /\ pc[c] = "caps" /\ k \in left[c]
  /\ \/ /\ granted' = granted \cup {k}
        /\ left' = [left EXCEPT ![c] = @ \ {k}]
        /\ UNCHANGED <<pc, result>>
     \/ /\ k \notin granted
        /\ Return(c, "CapabilityDeniedError")
        /\ UNCHANGED <<granted, left>>
     \/ /\ granted' \in {granted, granted \cup {k}}
        /\ Return(c, "not run")
        /\ UNCHANGED left
  /\ UNCHANGED <<registry, gate, confirmed, name, def, effect, approved>>

(* A fault: the capabilities still to check are left for later. *)
AskEarly(c) ==
  /\ pc[c] = "caps"
  /\ pc' = [pc EXCEPT ![c] = IF NeedsConfirmation(name[c], def[c].risk)
                             THEN "ask" ELSE "validate"]
  /\ UNCHANGED <<registry, granted, gate, confirmed, name, def, left, result, effect, approved>>

(* _maybe_confirm up to the question. *)
Ask(c) ==
  /\ pc[c] = "caps" /\ left[c] = {}
  /\ pc' = [pc EXCEPT ![c] = IF NeedsConfirmation(name[c], def[c].risk)
                             THEN "ask" ELSE "validate"]
  /\ UNCHANGED <<registry, granted, gate, confirmed, name, def, left, result, effect, approved>>

(* A fault: remembered whatever the answer, before it is looked at. *)
AnswerRemembered(c) ==
  /\ pc[c] = "ask"
  /\ confirmed' = confirmed \cup {name[c]}
  /\ \/ /\ approved' = approved \cup {c}
        /\ pc' = [pc EXCEPT ![c] = "validate"]
        /\ UNCHANGED result
     \/ /\ Return(c, "ConfirmationDeniedError")
        /\ UNCHANGED approved
  /\ UNCHANGED <<registry, granted, gate, name, def, left, effect>>

(* A fault: what confirm() raises leaves execute(). *)
AnswerUncaught(c) ==
  /\ pc[c] = "ask"
  /\ \/ /\ approved' = approved \cup {c}
        /\ confirmed' = confirmed \cup {name[c]}
        /\ pc' = [pc EXCEPT ![c] = "validate"]
        /\ UNCHANGED result
     \/ /\ Return(c, "ConfirmationDeniedError")
        /\ UNCHANGED <<confirmed, approved>>
     \/ /\ pc' = [pc EXCEPT ![c] = "idle"]
        /\ UNCHANGED <<result, confirmed, approved>>
  /\ UNCHANGED <<registry, granted, gate, name, def, left, effect>>

(* The confirmer returns: a yes is remembered by the name of the tool; or  *)
(* it raises, which is no answer.                                          *)
Answer(c) ==
  /\ pc[c] = "ask"
  /\ \/ /\ approved' = approved \cup {c}
        /\ confirmed' = confirmed \cup {name[c]}
        /\ pc' = [pc EXCEPT ![c] = "validate"]
        /\ UNCHANGED result
     \/ /\ \E r \in {"ConfirmationDeniedError", "not run"} : Return(c, r)
        /\ UNCHANGED <<confirmed, approved>>
  /\ UNCHANGED <<registry, granted, gate, name, def, left, effect>>

(* _validate_input: the payload satisfies the schema or not, or the schema *)
(* is one the check itself cannot read.                                    *)
Validate(c) ==
  /\ pc[c] = "validate"
  /\ \/ pc' = [pc EXCEPT ![c] = "run"] /\ UNCHANGED result
     \/ \E r \in {"ToolValidationError", "not run"} : Return(c, r)
  /\ UNCHANGED <<registry, granted, gate, confirmed, name, def, left, effect, approved>>

(* A fault: the tool is looked up again by its name. *)
RunLatest(c) ==
  /\ pc[c] = "run"
  /\ effect' = [effect EXCEPT ![c] = IF name[c] \in DOMAIN registry
                                     THEN registry[name[c]] ELSE def[c]]
  /\ \E r \in {"ok", "error", "exception"} : Return(c, r)
  /\ UNCHANGED <<registry, granted, gate, confirmed, name, def, left, approved>>

(* The executor of the definition that was looked up: it returns a result, *)
(* one that is an error, or raises, which also becomes a result.           *)
Run(c) ==
  /\ pc[c] = "run"
  /\ effect' = [effect EXCEPT ![c] = def[c]]
  /\ \E r \in {"ok", "error", "exception"} : Return(c, r)
  /\ UNCHANGED <<registry, granted, gate, confirmed, name, def, left, approved>>

-------------------------------------------------------------------------------
(* ToolRegistry, and the user who withdraws a capability *)

Put(n, d) == [m \in DOMAIN registry \cup {n} |-> IF m = n THEN d ELSE registry[m]]

(* A name that is taken raises ValueError and changes nothing. *)
Register(n, d) ==
  /\ n \notin DOMAIN registry
  /\ registry' = Put(n, d)
  /\ UNCHANGED <<granted, gate, confirmed, callVars, approved>>

Replace(n, d) ==
  /\ registry' = Put(n, d)
  /\ UNCHANGED <<granted, gate, confirmed, callVars, approved>>

(* A fault: the entry of the name is blanked and stays. *)
UnregisterBlanking(n) ==
  /\ n \in DOMAIN registry
  /\ registry' = Put(n, None)
  /\ UNCHANGED <<granted, gate, confirmed, callVars, approved>>

Unregister(n) ==
  /\ registry' = [m \in DOMAIN registry \ {n} |-> registry[m]]
  /\ UNCHANGED <<granted, gate, confirmed, callVars, approved>>

Clear ==
  /\ registry' = [m \in {} |-> None]
  /\ UNCHANGED <<granted, gate, confirmed, callVars, approved>>

Withdraw(k) ==
  /\ k \in granted
  /\ granted' = granted \ {k}
  /\ UNCHANGED <<registry, gate, confirmed, callVars, approved>>

Step(c) ==
  \/ \E k \in Caps : CheckCapability(c, k)
  \/ Ask(c)
  \/ Answer(c)
  \/ Validate(c)
  \/ Run(c)

Next ==
  \/ \E c \in Calls, n \in Names : Lookup(c, n)
  \/ \E c \in Calls : Step(c)
  \/ \E n \in Names, d \in Defs : Register(n, d) \/ Replace(n, d)
  \/ \E n \in Names : Unregister(n)
  \/ Clear
  \/ \E k \in Caps : Withdraw(k)

Spec == Init /\ [][Next]_vars

(* execute() runs on by itself, and the interface answers its questions.   *)
FairSpec == Spec /\ \A c \in Calls : WF_vars(Step(c))

-------------------------------------------------------------------------------
(* Properties *)

(* base.py:27-28, executor.py:116: a dangerous executor runs only in a     *)
(* call the user said yes to, whatever the mode, whatever was confirmed    *)
(* before under that name, and whatever the name stands for by now.        *)
DangerousAskedEachUse ==
  \A c \in Calls :
    effect[c] # None /\ effect[c].risk = "dangerous" => c \in approved

(* Trust is earned by a yes: what runs in mode always_ask was approved in  *)
(* its own call, and in mode trust_after_first in some call of that tool;  *)
(* a question pending or answered no earns nothing for another call.       *)
TrustIsEarned ==
  \A c \in Calls :
    effect[c] # None /\ effect[c].risk = "confirm" =>
      /\ gate = "always_ask" => c \in approved
      /\ gate = "trust_after_first" => \E a \in approved : name[a] = name[c]

(* A call that was refused, or whose question could not be put, has had no *)
(* effect, and one that had an effect checked every capability its         *)
(* definition requires.                                                    *)
RefusedHadNoEffect ==
  \A c \in Calls :
    /\ result[c] \notin {None, "ok", "error", "exception"} => effect[c] = None
    /\ effect[c] # None => left[c] = {} /\ result[c] # None

(* Every call the model makes gets a result to give back to the model,     *)
(* whichever of the checker, the confirmer and the tool raises.            *)
EveryCallReturns ==
  \A c \in Calls : pc[c] # "idle" ~> pc[c] = "done" /\ result[c] # None

(* executor.py:102: confirm_first_use_only asks the first time for a tool. *)
FirstUseIsAsked ==
  \A c \in Calls :
    gate = "confirm_first_use_only" /\ effect[c] # None /\ effect[c].risk = "confirm"
      => \E a \in approved : name[a] = name[c]
===============================================================================
