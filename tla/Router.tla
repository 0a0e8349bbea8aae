-------------------------------- MODULE Router --------------------------------
(***************************************************************************)
(* The hybrid router: Router of agent/core/router.py under the policy of   *)
(* agent/core/policy.py, over cloud providers and local ones               *)
(* (agent/providers/), whose list of models is read once and kept.         *)
(*                                                                         *)
(* Requests are planned once and then tried provider after provider; a     *)
(* stream goes on between the user's other steps, who changes the policy   *)
(* and installs and removes local models meanwhile.                        *)
(***************************************************************************)
EXTENDS Integers, FiniteSets

CONSTANTS
  Calls,      \* calls of chat() and chat_stream()
  Requests,   \* what a call asks: [private, pii, images, tools, computer]
  Policies,   \* routing policies the user sets
  Cloud,      \* cloud providers
  Local,      \* local providers
  Order,      \* registration order of the providers
  Catalog,    \* models of each provider: [vision, tools, computer, cost, place]
  None

Providers == Cloud \cup Local

ASSUME ProvidersAssumption ==
  /\ Cloud \cap Local = {} /\ None \notin Providers
  /\ Order \in [Providers -> Int]
  /\ \A p, q \in Providers : Order[p] = Order[q] => p = q
  /\ DOMAIN Catalog = Providers /\ \A p \in Providers : None \notin Catalog[p]

Results == {"ok", "error", "NoProviderAvailableError", "abandoned"}

ASSUME NoneAssumption ==
  None \notin Results /\ None \notin [policy : Policies, request : Requests]

(* A model has a place of its own in the list of its provider. *)
ASSUME CatalogAssumption ==
  \A p \in Providers :
    /\ Catalog[p] \subseteq
         [vision : BOOLEAN, tools : BOOLEAN, computer : BOOLEAN, cost : Nat, place : Nat]
    /\ \A m, n \in Catalog[p] : m.place = n.place => m = n

Models == UNION {Catalog[p] : p \in Providers}

VARIABLES
  policy,     \* Router._policy
  installed,  \* the models each local provider has
  cache,      \* OllamaProvider._cached_models, None before the first listing
  plan,       \* RoutingDecision of each call: the model of each candidate
  waiting,    \* candidates of each call not tried yet
  streaming,  \* whether the call is a chat_stream()
  result,     \* how each call ended
  planned,    \* history: the policy and the request each call was planned by
  reached,    \* history: providers each call was sent to
  down,       \* history: providers each call found unavailable
  heard       \* history: providers whose events the caller of a stream received

callVars == <<plan, waiting, streaming, result, planned, reached, down, heard>>
vars == <<policy, installed, cache, callVars>>

Trying(c) == planned[c] # None /\ result[c] = None

TypeOK ==
  /\ policy \in Policies
  /\ DOMAIN installed = Local /\ \A p \in Local : installed[p] \subseteq Catalog[p]
  /\ DOMAIN cache = Local /\ \A p \in Local : cache[p] = None \/ cache[p] \subseteq Catalog[p]
  /\ DOMAIN plan = Calls /\ DOMAIN waiting = Calls
  /\ streaming \subseteq Calls
  /\ result \in [Calls -> Results \cup {None}]
  /\ planned \in [Calls -> [policy : Policies, request : Requests] \cup {None}]
  /\ reached \in [Calls -> SUBSET Providers]
  /\ down \in [Calls -> SUBSET Providers]
  /\ heard \in [Calls -> SUBSET Providers]
  /\ \A c \in Calls :
       /\ DOMAIN plan[c] \subseteq Providers
       /\ \A p \in DOMAIN plan[c] : plan[c][p] \in Catalog[p]
       /\ waiting[c] \subseteq DOMAIN plan[c]
       /\ Trying(c) <=> waiting[c] # {}

Init ==
  /\ policy \in Policies
  /\ installed \in [Local -> SUBSET Models] /\ \A p \in Local : installed[p] \subseteq Catalog[p]
  /\ cache = [p \in Local |-> None]
  /\ plan = [c \in Calls |-> [p \in {} |-> None]]
  /\ waiting = [c \in Calls |-> {}]
  /\ streaming = {}
  /\ result = [c \in Calls |-> None]
  /\ planned = [c \in Calls |-> None]
  /\ reached = [c \in Calls |-> {}]
  /\ down = [c \in Calls |-> {}]
  /\ heard = [c \in Calls |-> {}]

-------------------------------------------------------------------------------
(* The decision: _must_force_local, _must_force_cloud and _plan.           *)

(* A fault: a private request is detected, and a private hint is not read. *)
MustForceLocalUnhinted(pol, q) ==
  \/ pol.mode = "local_only"
  \/ q.pii /\ pol.force_local_for_pii
  \/ pol.monthly_exhausted

MustForceLocal(pol, q) ==
  \/ pol.mode = "local_only"
  \/ q.private
  \/ q.pii /\ pol.force_local_for_pii
  \/ pol.monthly_exhausted

(* A fault: computer use goes to the cloud without the local fallback. *)
EligibleNative(pol, q) ==
  IF MustForceLocal(pol, q) THEN Local
  ELSE IF pol.mode = "cloud_only" \/ (pol.mode = "auto" /\ q.computer) THEN Cloud
  ELSE Providers

(* Which providers a plan draws from. *)
Eligible(pol, q) ==
  IF MustForceLocal(pol, q) THEN Local
  ELSE IF pol.mode = "cloud_only" THEN Cloud
  ELSE Providers

(* A fault: images with tools count as a chain of tools. *)
CloudLeadsTools(pol, q) ==
  \/ pol.mode = "cloud_first"
  \/ /\ pol.mode = "auto"
     /\ q.computer \/ q.tools

(* classify(): computer use, then images, then tools, then plain chat. *)
CloudLeads(pol, q) ==
  \/ pol.mode = "cloud_first"
  \/ /\ pol.mode = "auto"
     /\ q.computer \/ (q.tools /\ ~q.images)

(* The order candidates are tried in: by side, then by registration. *)
Before(pol, q, p, r) ==
  IF p \in Cloud <=> r \in Cloud THEN Order[p] < Order[r]
  ELSE p \in Cloud <=> CloudLeads(pol, q)

(* _select_model.fits *)
Fits(m, p, pol, q) ==
  /\ q.images /\ pol.require_vision => m.vision
  /\ q.computer /\ pol.require_computer => m.computer \/ (p \in Local /\ m.vision)
  /\ q.tools => m.tools \/ p \in Local

(* The key _select_model sorts by; ties keep the order of the list. *)
Outranks(m, n, q) ==
  IF q.computer /\ m.computer # n.computer THEN m.computer
  ELSE IF q.images /\ m.vision # n.vision THEN m.vision
  ELSE IF m.cost # n.cost THEN m.cost < n.cost
  ELSE m.place < n.place

Top(S, q) == {m \in S : \A n \in S \ {m} : Outranks(m, n, q)}

First(S) == {m \in S : \A n \in S : m.place <= n.place}

(* The preferred model if it fits, else the best that does; a local        *)
(* provider offers the first of its list when nothing fits.  The set has   *)
(* the one model, or none.                                                 *)
SelectModel(p, pol, q, models) ==
  LET fitting == {m \in models : Fits(m, p, pol, q)}
      preferred == fitting \cap pol.preferred
  IN IF preferred # {} THEN preferred
     ELSE IF fitting # {} THEN Top(fitting, q)
     ELSE IF p \in Local THEN First(models)
     ELSE {}

(* The candidates of a plan: eligible, available, with a model. *)
Candidates(pol, q, seen, listing) ==
  {p \in Eligible(pol, q) \cap seen : SelectModel(p, pol, q, listing[p]) # {}}

Decision(pol, q, seen, listing) ==
  [p \in Candidates(pol, q, seen, listing) |->
     CHOOSE m \in SelectModel(p, pol, q, listing[p]) : TRUE]

(* What a provider lists: a local one asks its daemon until it answers     *)
(* once, and keeps that answer.                                            *)
Cached(answering) ==
  [p \in Local |-> IF cache[p] = None /\ p \in answering THEN installed[p] ELSE cache[p]]

Listing(kept) ==
  [p \in Providers |-> IF p \in Cloud THEN Catalog[p]
                       ELSE IF kept[p] = None THEN {} ELSE kept[p]]

(* route(): `seen` are the providers whose is_available() says yes, and    *)
(* `answering` the daemons that list their models when they are asked.     *)
Route(c, q, seen, answering) ==
  /\ planned[c] = None
  /\ cache' = Cached(answering)
  /\ planned' = [planned EXCEPT ![c] = [policy |-> policy, request |-> q]]
  /\ LET listing == Listing(Cached(answering))
         chain == Candidates(policy, q, seen, listing)
     IN /\ plan' = [plan EXCEPT ![c] = Decision(policy, q, seen, listing)]
        /\ waiting' = [waiting EXCEPT ![c] = chain]
        /\ result' = [result EXCEPT ![c] =
             IF chain = {} THEN "NoProviderAvailableError" ELSE None]
        /\ down' = [down EXCEPT ![c] =
             (Providers \ seen) \cup {p \in seen : listing[p] = {}}]
  /\ \/ UNCHANGED streaming
     \/ streaming' = streaming \cup {c}
  /\ UNCHANGED <<policy, installed, reached, heard>>

-------------------------------------------------------------------------------
(* The execution: chat and chat_stream.                                    *)

Current(c, p) ==
  /\ p \in waiting[c]
  /\ \A r \in waiting[c] \ {p} : Before(planned[c].policy, planned[c].request, p, r)

End(c, r) ==
  /\ result' = [result EXCEPT ![c] = r]
  /\ waiting' = [waiting EXCEPT ![c] = {}]

(* A local model that was removed answers 404, which ends the call. *)
Answered(c, p) ==
  /\ Trying(c) /\ Current(c, p)
  /\ p \in Local => plan[c][p] \in installed[p]
  /\ reached' = [reached EXCEPT ![c] = @ \cup {p}]
  /\ heard' = IF c \in streaming THEN [heard EXCEPT ![c] = @ \cup {p}] ELSE heard
  /\ End(c, "ok")
  /\ UNCHANGED <<policy, installed, cache, plan, streaming, planned, down>>

(* A fault: the loop runs out of candidates and raises nothing. *)
UnavailableSilently(c, p) ==
  /\ Trying(c) /\ Current(c, p)
  /\ reached' = [reached EXCEPT ![c] = @ \cup {p}]
  /\ down' = [down EXCEPT ![c] = @ \cup {p}]
  /\ waiting' = [waiting EXCEPT ![c] = @ \ {p}]
  /\ UNCHANGED <<policy, installed, cache, plan, streaming, result, planned, heard>>

(* ProviderUnavailableError: on to the next candidate. *)
Unavailable(c, p) ==
  /\ Trying(c) /\ Current(c, p)
  /\ reached' = [reached EXCEPT ![c] = @ \cup {p}]
  /\ down' = [down EXCEPT ![c] = @ \cup {p}]
  /\ IF waiting[c] = {p} THEN End(c, "NoProviderAvailableError")
     ELSE waiting' = [waiting EXCEPT ![c] = @ \ {p}] /\ UNCHANGED result
  /\ UNCHANGED <<policy, installed, cache, plan, streaming, planned, heard>>

(* A fault: any error of a provider is a reason to fall back. *)
FailedFallsBack(c, p) ==
  /\ Trying(c) /\ Current(c, p)
  /\ reached' = [reached EXCEPT ![c] = @ \cup {p}]
  /\ IF waiting[c] = {p} THEN End(c, "NoProviderAvailableError")
     ELSE waiting' = [waiting EXCEPT ![c] = @ \ {p}] /\ UNCHANGED result
  /\ UNCHANGED <<policy, installed, cache, plan, streaming, planned, down, heard>>

(* Any other error of a provider is the caller's. *)
Failed(c, p) ==
  /\ Trying(c) /\ Current(c, p)
  /\ reached' = [reached EXCEPT ![c] = @ \cup {p}]
  /\ End(c, "error")
  /\ UNCHANGED <<policy, installed, cache, plan, streaming, planned, down, heard>>

(* An event of a stream before its end, which the caller may close. *)
Deliver(c, p) ==
  /\ Trying(c) /\ c \in streaming /\ Current(c, p) /\ p \notin heard[c]
  /\ p \in Local => plan[c][p] \in installed[p]
  /\ reached' = [reached EXCEPT ![c] = @ \cup {p}]
  /\ heard' = [heard EXCEPT ![c] = @ \cup {p}]
  /\ UNCHANGED <<policy, installed, cache, plan, waiting, streaming, result, planned, down>>

Abandon(c) ==
  /\ Trying(c) /\ c \in streaming
  /\ \E p \in heard[c] : Current(c, p)
  /\ End(c, "abandoned")
  /\ UNCHANGED <<policy, installed, cache, plan, streaming, planned, reached, down, heard>>

-------------------------------------------------------------------------------
SetPolicy(pol) ==
  /\ policy' = pol
  /\ UNCHANGED <<installed, cache, callVars>>

(* ollama pull and ollama rm *)
Install(p, m) ==
  /\ installed' = [installed EXCEPT ![p] = @ \cup {m}]
  /\ UNCHANGED <<policy, cache, callVars>>

Remove(p, m) ==
  /\ installed' = [installed EXCEPT ![p] = @ \ {m}]
  /\ UNCHANGED <<policy, cache, callVars>>

Try(c) ==
  \E p \in Providers : Answered(c, p) \/ Unavailable(c, p) \/ Failed(c, p)

Next ==
  \/ \E c \in Calls, q \in Requests, seen \in SUBSET Providers, answering \in SUBSET Local :
       Route(c, q, seen, answering)
  \/ \E c \in Calls : Try(c)
  \/ \E c \in Calls, p \in Providers : Deliver(c, p)
  \/ \E c \in Calls : Abandon(c)
  \/ \E pol \in Policies : SetPolicy(pol)
  \/ \E p \in Local : \E m \in Catalog[p] : Install(p, m) \/ Remove(p, m)

Spec == Init /\ [][Next]_vars

(* chat() runs on by itself. *)
FairSpec == Spec /\ \A c \in Calls : WF_vars(Try(c) /\ c \notin streaming)

-------------------------------------------------------------------------------
(* Properties *)

Policy(c) == planned[c].policy
Request(c) == planned[c].request

(* policy.py:30-31, 40, 69-70 and task_classifier.py:46-47: what is        *)
(* private, holds PII, goes over the month's budget or is asked in mode    *)
(* local_only reaches no cloud provider, however the call falls back and   *)
(* whatever policy is set while it runs.                                   *)
SensitiveStaysLocal ==
  \A c \in Calls :
    /\ planned[c] # None
    /\ \/ Policy(c).mode = "local_only" \/ Policy(c).monthly_exhausted
       \/ Request(c).private
       \/ Request(c).pii /\ Policy(c).force_local_for_pii
    => reached[c] \subseteq Local

(* policy.py:21-25, router.py:240-263: the side that is not preferred is   *)
(* reached only when every candidate of the preferred one was found down.  *)
OtherSideIsFallback ==
  \A c \in Calls : planned[c] # None =>
    /\ \/ Policy(c).mode = "local_first"
       \/ Policy(c).mode = "auto" /\ ~Request(c).computer
                                 /\ (Request(c).images \/ ~Request(c).tools)
       => reached[c] \subseteq Local \/ DOMAIN plan[c] \cap Local \subseteq down[c]
    /\ Policy(c).mode = "cloud_first" \/ (Policy(c).mode = "auto" /\ Request(c).computer)
       => reached[c] \subseteq Cloud \/ DOMAIN plan[c] \cap Cloud \subseteq down[c]

(* router.py:165-181: the router leaves a provider only because it was     *)
(* unavailable, so a call that ends has one provider to answer for it, or  *)
(* every candidate was down.                                               *)
OneAnswers ==
  \A c \in Calls :
    /\ Cardinality(reached[c] \ down[c]) <= 1
    /\ result[c] \in {"ok", "error"} => reached[c] \ down[c] # {}
    /\ result[c] = "NoProviderAvailableError" => DOMAIN plan[c] \subseteq down[c]

(* router.py:105-146: a call finds no provider only when each provider     *)
(* that could take it was down: a local one that lists a model, and unless *)
(* it has to stay local, a cloud one with a model for it; unless it has to *)
(* go to the cloud, the local ones count too.                              *)
NoProviderMeansAllDown ==
  \A c \in Calls : result[c] = "NoProviderAvailableError" =>
    LET pol == Policy(c)  q == Request(c) IN
    /\ pol.mode # "cloud_only" => Local \subseteq down[c]
    /\ pol.mode \notin {"local_only"} /\ ~pol.monthly_exhausted /\ ~q.private /\ ~q.pii
       => \A p \in Cloud \ down[c] : \A m \in Catalog[p] : ~Fits(m, p, pol, q)

(* router.py:150-181: a chat() ends: every round of its loop has one       *)
(* candidate less.                                                         *)
EveryChatEnds ==
  \A c \in Calls : planned[c] # None /\ c \notin streaming ~> result[c] # None

(* What the documentation says and the code does not do. *)

(* policy.py:38-39: over the budget of the session, local providers are    *)
(* preferred.                                                              *)
SessionBudgetPrefersLocal ==
  \A c \in Calls :
    planned[c] # None /\ Policy(c).session_exhausted
      => reached[c] \subseteq Local \/ DOMAIN plan[c] \cap Local \subseteq down[c]
===============================================================================
