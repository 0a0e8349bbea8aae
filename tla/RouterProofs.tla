----------------------------- MODULE RouterProofs -----------------------------
(***************************************************************************)
(* Theorems about Router, for every set of calls, requests, policies,      *)
(* providers and catalogs.                                                 *)
(***************************************************************************)
EXTENDS Router, FiniteSetTheorems, WellFoundedInduction, TLAPS

(* A decision names eligible providers, each with a model of its listing.  *)
LEMMA DecisionType ==
  ASSUME NEW pol, NEW q, NEW seen \in SUBSET Providers, NEW listing,
         \A p \in Providers : listing[p] \subseteq Catalog[p]
  PROVE  /\ Candidates(pol, q, seen, listing) \subseteq Eligible(pol, q)
         /\ Candidates(pol, q, seen, listing) \subseteq Providers
         /\ \A p \in Candidates(pol, q, seen, listing) :
              Decision(pol, q, seen, listing)[p] \in Catalog[p]
<1>1. Eligible(pol, q) \subseteq Providers
  BY DEF Eligible, Providers
<1>2. ASSUME NEW p \in Providers
      PROVE  SelectModel(p, pol, q, listing[p]) \subseteq Catalog[p]
  <2>1. {m \in listing[p] : Fits(m, p, pol, q)} \subseteq Catalog[p]
    OBVIOUS
  <2>2. listing[p] \subseteq Catalog[p]
    OBVIOUS
  <2> QED BY <2>1, <2>2 DEF SelectModel, Top, First
<1>3. ASSUME NEW p \in Candidates(pol, q, seen, listing)
      PROVE  Decision(pol, q, seen, listing)[p] \in Catalog[p]
  <2>1. p \in Providers /\ SelectModel(p, pol, q, listing[p]) # {}
    BY <1>1 DEF Candidates
  <2>2. Decision(pol, q, seen, listing)[p] \in SelectModel(p, pol, q, listing[p])
    BY <2>1 DEF Decision
  <2> QED BY <1>2, <2>1, <2>2
<1> QED BY <1>1, <1>3 DEF Candidates

(* What a plan is made from is within the catalogs.                        *)
LEMMA ListingType ==
  ASSUME TypeOK, NEW answering \in SUBSET Local
  PROVE  /\ DOMAIN Cached(answering) = Local
         /\ \A p \in Local : Cached(answering)[p] = None
                               \/ Cached(answering)[p] \subseteq Catalog[p]
         /\ \A p \in Providers : Listing(Cached(answering))[p] \subseteq Catalog[p]
<1>1. \A p \in Local : Cached(answering)[p] = None \/ Cached(answering)[p] \subseteq Catalog[p]
  BY DEF Cached, TypeOK
<1>2. ASSUME NEW p \in Providers PROVE Listing(Cached(answering))[p] \subseteq Catalog[p]
  BY <1>1 DEF Listing, Providers
<1> QED BY <1>1, <1>2 DEF Cached

(* The policy, the lists of models and every call keep their types.        *)
THEOREM TypeCorrect == Spec => []TypeOK
<1>1. Init => TypeOK
  BY DEF Init, TypeOK, Trying
<1>2. TypeOK /\ [Next]_vars => TypeOK'
  <2> SUFFICES ASSUME TypeOK, [Next]_vars PROVE TypeOK'
    OBVIOUS
  <2>1. ASSUME NEW c \in Calls, NEW q \in Requests, NEW seen \in SUBSET Providers,
               NEW answering \in SUBSET Local, Route(c, q, seen, answering)
        PROVE  TypeOK'
    <3> DEFINE listing == Listing(Cached(answering))
               chain == Candidates(policy, q, seen, listing)
    <3>1. /\ chain \subseteq Providers
          /\ \A p \in chain : Decision(policy, q, seen, listing)[p] \in Catalog[p]
          /\ DOMAIN Decision(policy, q, seen, listing) = chain
      BY ListingType, DecisionType DEF Decision
    <3>2. /\ plan' = [plan EXCEPT ![c] = Decision(policy, q, seen, listing)]
          /\ waiting' = [waiting EXCEPT ![c] = chain]
          /\ result' = [result EXCEPT ![c] =
               IF chain = {} THEN "NoProviderAvailableError" ELSE None]
          /\ planned' = [planned EXCEPT ![c] = [policy |-> policy, request |-> q]]
          /\ cache' = Cached(answering)
          /\ down' = [down EXCEPT ![c] =
               (Providers \ seen) \cup {p \in seen : listing[p] = {}}]
      BY <2>1 DEF Route
    <3>3. /\ DOMAIN plan' = Calls /\ DOMAIN waiting' = Calls
          /\ result' \in [Calls -> Results \cup {None}]
          /\ down' \in [Calls -> SUBSET Providers]
          /\ DOMAIN cache' = Local
          /\ \A p \in Local : cache'[p] = None \/ cache'[p] \subseteq Catalog[p]
      BY <3>2, ListingType DEF TypeOK, Results
    <3>4. /\ [policy |-> policy, request |-> q] \in [policy : Policies, request : Requests]
          /\ planned' \in [Calls -> [policy : Policies, request : Requests] \cup {None}]
      BY <3>2 DEF TypeOK
    <3>5. ASSUME NEW d \in Calls
          PROVE  /\ DOMAIN plan'[d] \subseteq Providers
                 /\ \A p \in DOMAIN plan'[d] : plan'[d][p] \in Catalog[p]
                 /\ waiting'[d] \subseteq DOMAIN plan'[d]
      BY <3>1, <3>2 DEF TypeOK
    <3>6. ASSUME NEW d \in Calls PROVE Trying(d)' <=> waiting'[d] # {}
      <4>1. CASE d = c
        <5>1. planned'[c] = [policy |-> policy, request |-> q] /\ waiting'[c] = chain
          BY <3>2 DEF TypeOK
        <5>2. planned'[c] # None
          BY <3>4, <5>1, NoneAssumption
        <5>3. result'[c] = IF chain = {} THEN "NoProviderAvailableError" ELSE None
          BY <3>2 DEF TypeOK
        <5> QED BY <4>1, <5>1, <5>2, <5>3, NoneAssumption DEF Trying, Results
      <4>2. CASE d # c
        BY <3>2, <4>2 DEF TypeOK, Trying
      <4> QED BY <4>1, <4>2
    <3>7. policy' \in Policies /\ streaming' \subseteq Calls
      BY <2>1 DEF Route, TypeOK
    <3>8. UNCHANGED <<installed, reached, heard>>
      BY <2>1 DEF Route
    <3> QED BY <3>3, <3>4, <3>5, <3>6, <3>7, <3>8 DEF TypeOK
  <2>2. ASSUME NEW c \in Calls, NEW p \in Providers, Answered(c, p) PROVE TypeOK'
    BY <2>2, NoneAssumption DEF Answered, End, TypeOK, Trying, Results
  <2>3. ASSUME NEW c \in Calls, NEW p \in Providers, Unavailable(c, p) PROVE TypeOK'
    <3>1. CASE waiting[c] = {p}
      BY <2>3, <3>1, NoneAssumption DEF Unavailable, End, TypeOK, Trying, Results
    <3>2. CASE waiting[c] # {p}
      <4>1. waiting[c] \ {p} # {} /\ waiting[c] # {}
        BY <2>3, <3>2 DEF Unavailable, Current
      <4> QED BY <2>3, <3>2, <4>1 DEF Unavailable, TypeOK, Trying
    <3> QED BY <3>1, <3>2
  <2>4. ASSUME NEW c \in Calls, NEW p \in Providers, Failed(c, p) PROVE TypeOK'
    BY <2>4, NoneAssumption DEF Failed, End, TypeOK, Trying, Results
  <2>5. ASSUME NEW c \in Calls, NEW p \in Providers, Deliver(c, p) PROVE TypeOK'
    BY <2>5 DEF Deliver, TypeOK, Trying
  <2>6. ASSUME NEW c \in Calls, Abandon(c) PROVE TypeOK'
    BY <2>6, NoneAssumption DEF Abandon, End, TypeOK, Trying, Results
  <2>7. ASSUME NEW pol \in Policies, SetPolicy(pol) PROVE TypeOK'
    BY <2>7 DEF SetPolicy, callVars, TypeOK, Trying
  <2>8. ASSUME NEW p \in Local, NEW m \in Catalog[p], Install(p, m) \/ Remove(p, m)
        PROVE TypeOK'
    <3>1. DOMAIN installed' = Local /\ \A r \in Local : installed'[r] \subseteq Catalog[r]
      BY <2>8 DEF Install, Remove, TypeOK
    <3>2. UNCHANGED <<policy, cache, callVars>>
      BY <2>8 DEF Install, Remove
    <3> QED BY <3>1, <3>2 DEF callVars, TypeOK, Trying
  <2>9. CASE UNCHANGED vars
    BY <2>9 DEF vars, callVars, TypeOK, Trying
  <2> QED
    BY <2>1, <2>2, <2>3, <2>4, <2>5, <2>6, <2>7, <2>8, <2>9 DEF Next, Try
<1> QED BY <1>1, <1>2, PTL DEF Spec

-------------------------------------------------------------------------------
(* p comes before r in the plan of c. *)
Precedes(c, p, r) == Before(planned[c].policy, planned[c].request, p, r)

(* What a call has done so far: it was planned from eligible providers, it *)
(* went to candidates only, each after all that precede it were down, and  *)
(* it left none but those that were down.                                  *)
Orderly(c) ==
  /\ planned[c] = None => reached[c] = {} /\ waiting[c] = {} /\ result[c] = None
  /\ planned[c] # None => DOMAIN plan[c] \subseteq Eligible(planned[c].policy, planned[c].request)
  /\ reached[c] \subseteq DOMAIN plan[c]
  /\ Trying(c) => DOMAIN plan[c] \ waiting[c] \subseteq down[c] /\ waiting[c] \cap down[c] = {}
  /\ \A p \in reached[c], r \in DOMAIN plan[c] : p # r /\ Precedes(c, r, p) => r \in down[c]
  /\ Trying(c) => \A p \in reached[c] \ down[c] : Current(c, p)
  /\ result[c] \in {"ok", "error", "abandoned"} => \E p \in reached[c] : reached[c] \ down[c] \subseteq {p}
  /\ result[c] \in {"ok", "error"} => reached[c] \ down[c] # {}
  /\ result[c] = "NoProviderAvailableError" => DOMAIN plan[c] \subseteq down[c]
  /\ heard[c] \subseteq reached[c]

IInv == \A c \in Calls : Orderly(c)

(* Two providers precede each other in no plan. *)
LEMMA BeforeAsymmetric ==
  ASSUME NEW pol, NEW q, NEW p \in Providers, NEW r \in Providers, p # r,
         Before(pol, q, p, r), Before(pol, q, r, p)
  PROVE  FALSE
<1>1. Order[p] \in Int /\ Order[r] \in Int
  BY ProvidersAssumption
<1>2. CASE p \in Cloud <=> r \in Cloud
  <2>1. Order[p] < Order[r] /\ Order[r] < Order[p]
    BY <1>2 DEF Before
  <2> QED BY <1>1, <2>1
<1>3. CASE ~(p \in Cloud <=> r \in Cloud)
  <2>1. (p \in Cloud <=> CloudLeads(pol, q)) /\ (r \in Cloud <=> CloudLeads(pol, q))
    BY <1>3 DEF Before
  <2> QED BY <1>3, <2>1
<1> QED BY <1>2, <1>3

(* The provider a call is at: everything before it was down, and it is the *)
(* only one.                                                               *)
LEMMA CurrentIsNext ==
  ASSUME TypeOK, NEW c \in Calls, Orderly(c), Trying(c), NEW p \in Providers, Current(c, p)
  PROVE  /\ p \in DOMAIN plan[c] /\ p \notin down[c]
         /\ \A r \in DOMAIN plan[c] : p # r /\ Precedes(c, r, p) => r \in down[c]
         /\ reached[c] \ down[c] \subseteq {p}
<1>1. p \in DOMAIN plan[c] /\ p \in waiting[c] /\ p \notin down[c]
  BY DEF Current, Orderly, TypeOK
<1>2. ASSUME NEW r \in DOMAIN plan[c], p # r, Precedes(c, r, p) PROVE r \in down[c]
  <2>1. r \in Providers
    BY DEF TypeOK
  <2>2. CASE r \in waiting[c]
    <3>1. Before(planned[c].policy, planned[c].request, p, r)
      BY <1>2, <2>2 DEF Current
    <3> QED BY <1>2, <2>1, <3>1, BeforeAsymmetric DEF Precedes
  <2>3. CASE r \notin waiting[c]
    BY <2>3 DEF Orderly
  <2> QED BY <2>2, <2>3
<1>3. ASSUME NEW r \in reached[c] \ down[c], r # p PROVE FALSE
  <2>1. r \in Providers /\ Current(c, r)
    BY <1>3 DEF Orderly, TypeOK
  <2>2. /\ Before(planned[c].policy, planned[c].request, p, r)
        /\ Before(planned[c].policy, planned[c].request, r, p)
    BY <1>1, <1>3, <2>1 DEF Current
  <2> QED BY <1>3, <2>1, <2>2, BeforeAsymmetric
<1> QED BY <1>1, <1>2, <1>3

(* A call stays orderly in a step of another.                              *)
LEMMA OrderlyStays ==
  ASSUME NEW c \in Calls, Orderly(c),
         plan'[c] = plan[c], waiting'[c] = waiting[c], result'[c] = result[c],
         planned'[c] = planned[c], reached'[c] = reached[c], down'[c] = down[c],
         heard'[c] = heard[c]
  PROVE  Orderly(c)'
BY DEF Orderly, Trying, Current, Precedes

(* A decision has no candidate that it found down.                         *)
LEMMA CandidatesAreUp ==
  ASSUME NEW pol, NEW q, NEW seen, NEW listing, NEW p \in Candidates(pol, q, seen, listing)
  PROVE  p \in seen /\ listing[p] # {}
BY DEF Candidates, SelectModel, First

(* Routing, every try of a provider and every event of a stream keep calls *)
(* orderly.                                                                *)
LEMMA IInvHolds == Spec => []IInv
<1>1. Init => IInv
  BY NoneAssumption DEF Init, IInv, Orderly, Trying, Results
<1>2. TypeOK /\ TypeOK' /\ IInv /\ [Next]_vars => IInv'
  <2> SUFFICES ASSUME TypeOK, TypeOK', IInv, [Next]_vars PROVE IInv'
    OBVIOUS
  <2> USE DEF IInv
  <2>1. ASSUME NEW c \in Calls, NEW q \in Requests, NEW seen \in SUBSET Providers,
               NEW answering \in SUBSET Local, Route(c, q, seen, answering)
        PROVE  IInv'
    <3> DEFINE listing == Listing(Cached(answering))
               chain == Candidates(policy, q, seen, listing)
    <3>1. /\ plan'[c] = Decision(policy, q, seen, listing)
          /\ waiting'[c] = chain
          /\ result'[c] = IF chain = {} THEN "NoProviderAvailableError" ELSE None
          /\ planned'[c] = [policy |-> policy, request |-> q]
          /\ down'[c] = (Providers \ seen) \cup {p \in seen : listing[p] = {}}
          /\ reached'[c] = reached[c] /\ heard'[c] = heard[c]
      BY <2>1 DEF Route, TypeOK
    <3>2. reached[c] = {} /\ heard[c] = {}
      BY <2>1 DEF Route, Orderly
    <3>3. DOMAIN plan'[c] = chain /\ chain \subseteq Eligible(policy, q)
      BY <3>1 DEF Decision, Candidates
    <3>4. chain \cap down'[c] = {}
      BY <3>1, CandidatesAreUp
    <3>5. planned'[c] # None /\ (result'[c] = "NoProviderAvailableError" => chain = {})
      BY <2>1, <3>1, NoneAssumption DEF Route, Results, TypeOK
    <3>6. result'[c] \notin {"ok", "error", "abandoned"}
      BY <3>1, NoneAssumption DEF Results
    <3>7. Orderly(c)'
      BY <3>1, <3>2, <3>3, <3>4, <3>5, <3>6 DEF Orderly
    <3>8. \A d \in Calls \ {c} : Orderly(d)'
      BY <2>1, OrderlyStays DEF Route, TypeOK
    <3> QED BY <3>7, <3>8
  <2>2. ASSUME NEW c \in Calls, NEW p \in Providers, Answered(c, p) PROVE IInv'
    <3>1. /\ plan'[c] = plan[c] /\ waiting'[c] = {} /\ result'[c] = "ok"
          /\ planned'[c] = planned[c] /\ down'[c] = down[c]
          /\ reached'[c] = reached[c] \cup {p} /\ heard'[c] \subseteq heard[c] \cup {p}
          /\ planned[c] # None /\ result[c] = None /\ Current(c, p)
      BY <2>2 DEF Answered, End, Trying, TypeOK
    <3>2. /\ p \in DOMAIN plan[c] /\ p \notin down[c]
          /\ \A r \in DOMAIN plan[c] : p # r /\ Precedes(c, r, p) => r \in down[c]
          /\ reached[c] \ down[c] \subseteq {p}
      BY <3>1, CurrentIsNext DEF Trying
    <3>3. \A r \in reached'[c], s \in DOMAIN plan'[c] :
             r # s /\ Precedes(c, s, r)' => s \in down'[c]
      BY <3>1, <3>2 DEF Orderly, Precedes
    <3>4. /\ ~Trying(c)'
          /\ reached'[c] \ down'[c] = {p}
          /\ reached'[c] \subseteq DOMAIN plan'[c] /\ heard'[c] \subseteq reached'[c]
          /\ DOMAIN plan'[c] \subseteq Eligible(planned'[c].policy, planned'[c].request)
      BY <3>1, <3>2, NoneAssumption DEF Orderly, Trying, Results
    <3>5. Orderly(c)'
      BY <3>1, <3>3, <3>4 DEF Orderly
    <3>6. \A d \in Calls \ {c} : Orderly(d)'
      BY <2>2, OrderlyStays DEF Answered, End, TypeOK
    <3> QED BY <3>5, <3>6
  <2>3. ASSUME NEW c \in Calls, NEW p \in Providers, Unavailable(c, p) PROVE IInv'
    <3>1. Orderly(c)'
      <4>1. CASE waiting[c] = {p}
        BY <2>3, <4>1, CurrentIsNext, NoneAssumption
        DEF Unavailable, End, Orderly, Trying, Precedes, TypeOK, Results
      <4>2. CASE waiting[c] # {p}
        <5>1. reached'[c] \ down'[c] = {}
          BY <2>3, CurrentIsNext DEF Unavailable, TypeOK
        <5> QED BY <2>3, <4>2, <5>1, CurrentIsNext, NoneAssumption
                DEF Unavailable, Orderly, Trying, Precedes, TypeOK, Results
      <4> QED BY <4>1, <4>2
    <3>2. \A d \in Calls \ {c} : Orderly(d)'
      BY <2>3, OrderlyStays DEF Unavailable, End, TypeOK
    <3> QED BY <3>1, <3>2
  <2>4. ASSUME NEW c \in Calls, NEW p \in Providers, Failed(c, p) PROVE IInv'
    <3>1. /\ plan'[c] = plan[c] /\ waiting'[c] = {} /\ result'[c] = "error"
          /\ planned'[c] = planned[c] /\ down'[c] = down[c]
          /\ reached'[c] = reached[c] \cup {p} /\ heard'[c] \subseteq heard[c] \cup {p}
          /\ planned[c] # None /\ result[c] = None /\ Current(c, p)
      BY <2>4 DEF Failed, End, Trying, TypeOK
    <3>2. /\ p \in DOMAIN plan[c] /\ p \notin down[c]
          /\ \A r \in DOMAIN plan[c] : p # r /\ Precedes(c, r, p) => r \in down[c]
          /\ reached[c] \ down[c] \subseteq {p}
      BY <3>1, CurrentIsNext DEF Trying
    <3>3. \A r \in reached'[c], s \in DOMAIN plan'[c] :
             r # s /\ Precedes(c, s, r)' => s \in down'[c]
      BY <3>1, <3>2 DEF Orderly, Precedes
    <3>4. /\ ~Trying(c)'
          /\ reached'[c] \ down'[c] = {p}
          /\ reached'[c] \subseteq DOMAIN plan'[c] /\ heard'[c] \subseteq reached'[c]
          /\ DOMAIN plan'[c] \subseteq Eligible(planned'[c].policy, planned'[c].request)
      BY <3>1, <3>2, NoneAssumption DEF Orderly, Trying, Results
    <3>5. Orderly(c)'
      BY <3>1, <3>3, <3>4 DEF Orderly
    <3>6. \A d \in Calls \ {c} : Orderly(d)'
      BY <2>4, OrderlyStays DEF Failed, End, TypeOK
    <3> QED BY <3>5, <3>6
  <2>5. ASSUME NEW c \in Calls, NEW p \in Providers, Deliver(c, p) PROVE IInv'
    <3>1. /\ plan'[c] = plan[c] /\ waiting'[c] = waiting[c] /\ result'[c] = result[c]
          /\ planned'[c] = planned[c] /\ down'[c] = down[c]
          /\ reached'[c] = reached[c] \cup {p} /\ heard'[c] = heard[c] \cup {p}
          /\ planned[c] # None /\ result[c] = None /\ Current(c, p)
      BY <2>5 DEF Deliver, Trying, TypeOK
    <3>2. /\ p \in DOMAIN plan[c] /\ p \notin down[c]
          /\ \A r \in DOMAIN plan[c] : p # r /\ Precedes(c, r, p) => r \in down[c]
          /\ reached[c] \ down[c] \subseteq {p}
      BY <3>1, CurrentIsNext DEF Trying
    <3>3. \A r : (Current(c, r)' <=> Current(c, r))
      BY <3>1 DEF Current
    <3>4. \A r, s : (Precedes(c, r, s)' <=> Precedes(c, r, s))
      BY <3>1 DEF Precedes
    <3>5. Trying(c) /\ Trying(c)'
      BY <3>1 DEF Trying
    <3>6. /\ planned'[c] # None /\ result'[c] \notin Results
          /\ DOMAIN plan'[c] \subseteq Eligible(planned'[c].policy, planned'[c].request)
          /\ reached'[c] \subseteq DOMAIN plan'[c]
          /\ DOMAIN plan'[c] \ waiting'[c] \subseteq down'[c] /\ waiting'[c] \cap down'[c] = {}
          /\ heard'[c] \subseteq reached'[c]
      BY <3>1, <3>2, <3>5, NoneAssumption DEF Orderly
    <3>7. \A r \in reached'[c], s \in DOMAIN plan'[c] :
             r # s /\ Precedes(c, s, r)' => s \in down'[c]
      BY <3>1, <3>2, <3>4 DEF Orderly
    <3>8. \A r \in reached'[c] \ down'[c] : Current(c, r)'
      BY <3>1, <3>2, <3>3
    <3>9. Orderly(c)'
      BY <3>6, <3>7, <3>8 DEF Orderly, Results
    <3>10. \A d \in Calls \ {c} : Orderly(d)'
      BY <2>5, OrderlyStays DEF Deliver, TypeOK
    <3> QED BY <3>9, <3>10
  <2>6. ASSUME NEW c \in Calls, Abandon(c) PROVE IInv'
    <3>1. PICK p \in heard[c] : Current(c, p)
      BY <2>6 DEF Abandon
    <3>2. p \in Providers /\ p \in reached[c] /\ reached[c] \ down[c] \subseteq {p}
      BY <2>6, <3>1, CurrentIsNext DEF Abandon, Orderly, TypeOK
    <3>3. Orderly(c)'
      BY <2>6, <3>2, NoneAssumption
      DEF Abandon, End, Orderly, Trying, Precedes, TypeOK, Results
    <3>4. \A d \in Calls \ {c} : Orderly(d)'
      BY <2>6, OrderlyStays DEF Abandon, End, TypeOK
    <3> QED BY <3>3, <3>4
  <2>7. (\/ \E pol \in Policies : SetPolicy(pol)
         \/ \E p \in Local : \E m \in Catalog[p] : Install(p, m) \/ Remove(p, m)
         \/ UNCHANGED vars) => UNCHANGED callVars
    BY DEF SetPolicy, Install, Remove, vars
  <2>8. CASE UNCHANGED callVars
    BY <2>8, OrderlyStays DEF callVars
  <2> QED BY <2>1, <2>2, <2>3, <2>4, <2>5, <2>6, <2>7, <2>8 DEF Next, Try
<1> QED BY <1>1, <1>2, TypeCorrect, PTL DEF Spec

(* No cloud provider is reached by a call that had to stay local when it   *)
(* was planned (router.py:208-220), whatever falls back, is set or is      *)
(* installed afterwards.                                                   *)
THEOREM LocalStaysLocal == Spec => []SensitiveStaysLocal
<1>1. IInv => SensitiveStaysLocal
  BY DEF IInv, Orderly, SensitiveStaysLocal, Policy, Request, Eligible, MustForceLocal
<1> QED BY <1>1, IInvHolds, PTL

(* The router leaves a provider only when it was unavailable               *)
(* (router.py:165-181): one provider answers for a call, or all were down. *)
THEOREM OneProviderAnswers == Spec => []OneAnswers
<1>1. ASSUME TypeOK, IInv, NEW c \in Calls PROVE \E p : reached[c] \ down[c] \subseteq {p}
  <2>1. CASE result[c] = None
    <3>1. ASSUME NEW p \in reached[c] \ down[c] PROVE reached[c] \ down[c] \subseteq {p}
      BY <1>1, <2>1, <3>1, CurrentIsNext DEF IInv, Orderly, Trying, TypeOK
    <3> QED BY <3>1
  <2>2. CASE result[c] = "NoProviderAvailableError"
    BY <1>1, <2>2 DEF IInv, Orderly
  <2>3. CASE result[c] \in {"ok", "error", "abandoned"}
    BY <1>1, <2>3 DEF IInv, Orderly
  <2> QED BY <1>1, <2>1, <2>2, <2>3 DEF TypeOK, Results
<1>2. ASSUME NEW S, NEW p, S \subseteq {p} PROVE Cardinality(S) <= 1
  <2>1. S = {} \/ S = {p}
    BY <1>2
  <2> QED BY <2>1, FS_EmptySet, FS_Singleton
<1>3. TypeOK /\ IInv => OneAnswers
  BY <1>1, <1>2 DEF IInv, Orderly, OneAnswers
<1> QED BY <1>3, TypeCorrect, IInvHolds, PTL

(* The side a policy does not prefer is reached only when every candidate  *)
(* of the preferred side was down (router.py:227-263).                     *)
THEOREM PreferenceHolds == Spec => []OtherSideIsFallback
<1>1. ASSUME TypeOK, IInv, NEW c \in Calls, planned[c] # None,
             NEW p \in reached[c], NEW r \in DOMAIN plan[c], ~(p \in Cloud <=> r \in Cloud),
             r \in Cloud <=> CloudLeads(Policy(c), Request(c))
      PROVE  r \in down[c]
  BY <1>1 DEF IInv, Orderly, Precedes, Before, Policy, Request
<1>2. ASSUME TypeOK, IInv, NEW c \in Calls, planned[c] # None,
             ~CloudLeads(Policy(c), Request(c)), ~(reached[c] \subseteq Local)
      PROVE  DOMAIN plan[c] \cap Local \subseteq down[c]
  <2>1. PICK p \in reached[c] : p \in Cloud
    BY <1>2 DEF TypeOK, Providers
  <2> QED BY <1>1, <1>2, <2>1, ProvidersAssumption DEF TypeOK
<1>3. ASSUME TypeOK, IInv, NEW c \in Calls, planned[c] # None,
             CloudLeads(Policy(c), Request(c)), ~(reached[c] \subseteq Cloud)
      PROVE  DOMAIN plan[c] \cap Cloud \subseteq down[c]
  <2>1. PICK p \in reached[c] : p \notin Cloud
    BY <1>3
  <2> QED BY <1>1, <1>3, <2>1 DEF TypeOK
<1>4. ASSUME NEW c \in Calls
      PROVE  /\ Policy(c).mode = "local_first" => ~CloudLeads(Policy(c), Request(c))
             /\ /\ Policy(c).mode = "auto" /\ ~Request(c).computer
                /\ Request(c).images \/ ~Request(c).tools
                => ~CloudLeads(Policy(c), Request(c))
             /\ Policy(c).mode = "cloud_first" => CloudLeads(Policy(c), Request(c))
             /\ Policy(c).mode = "auto" /\ Request(c).computer
                => CloudLeads(Policy(c), Request(c))
  BY DEF CloudLeads
<1>5. TypeOK /\ IInv => OtherSideIsFallback
  BY <1>2, <1>3, <1>4 DEF OtherSideIsFallback
<1> QED BY <1>5, TypeCorrect, IInvHolds, PTL

-------------------------------------------------------------------------------
(* Why a call finds no provider *)

(* Numbers have a least one. *)
LEMMA LeastNumber ==
  ASSUME NEW T, T \subseteq Nat, T # {}
  PROVE  \E x \in T : \A y \in T : x <= y
<1>1. PICK x \in T : \A y \in T : ~ (<<y, x>> \in OpToRel(<, Nat))
  BY NatLessThanWellFounded, WFMin
<1>2. \A y \in T : ~ (y < x)
  BY <1>1 DEF OpToRel
<1> QED BY <1>2

(* So a set of models has one of the least cost and place. *)
LEMMA LeastModel ==
  ASSUME NEW p \in Providers, NEW S \in SUBSET Catalog[p], S # {}
  PROVE  \E m \in S : \A n \in S \ {m} : m.cost < n.cost \/ (m.cost = n.cost /\ m.place < n.place)
<1>1. \A m \in S : m.cost \in Nat /\ m.place \in Nat
  BY CatalogAssumption
<1>2. PICK cost \in {m.cost : m \in S} : \A x \in {m.cost : m \in S} : cost <= x
  <2> DEFINE T == {m.cost : m \in S}
  <2>1. T \subseteq Nat /\ T # {}
    BY <1>1
  <2> HIDE DEF T
  <2>2. \E x \in T : \A y \in T : x <= y
    BY <2>1, LeastNumber
  <2> QED BY <2>2 DEF T
<1> DEFINE C == {m \in S : m.cost = cost}
<1>3. PICK place \in {m.place : m \in C} : \A x \in {m.place : m \in C} : place <= x
  <2> DEFINE T == {m.place : m \in C}
  <2>1. T \subseteq Nat /\ T # {}
    BY <1>1, <1>2
  <2> HIDE DEF T
  <2>2. \E x \in T : \A y \in T : x <= y
    BY <2>1, LeastNumber
  <2> QED BY <2>2 DEF T
<1>4. PICK m \in C : m.place = place
  BY <1>3
<1>5. ASSUME NEW n \in S \ {m}
      PROVE  m.cost < n.cost \/ (m.cost = n.cost /\ m.place < n.place)
  <2>1. m.cost = cost /\ cost <= n.cost /\ m.cost \in Nat /\ n.cost \in Nat
    BY <1>1, <1>2
  <2>2. CASE n.cost = cost
    <3>1. m.place <= n.place /\ m.place \in Nat /\ n.place \in Nat
      BY <1>1, <1>3, <1>4, <2>2
    <3>2. m.place # n.place
      BY CatalogAssumption
    <3> QED BY <2>1, <2>2, <3>1, <3>2
  <2>3. CASE n.cost # cost
    BY <2>1, <2>3
  <2> QED BY <2>2, <2>3
<1> QED BY <1>5

(* _select_model: the best of the models that fit is one of them.          *)
LEMMA TopIsSome ==
  ASSUME NEW p \in Providers, NEW S \in SUBSET Catalog[p], S # {}, NEW q
  PROVE  Top(S, q) # {}
<1> DEFINE C == IF q.computer /\ \E m \in S : m.computer THEN {m \in S : m.computer} ELSE S
           V == IF q.images /\ \E m \in C : m.vision THEN {m \in C : m.vision} ELSE C
<1>1. V \in SUBSET Catalog[p] /\ V # {} /\ V \subseteq C /\ C \subseteq S
  OBVIOUS
<1>2. PICK m \in V : \A n \in V \ {m} : m.cost < n.cost \/ (m.cost = n.cost /\ m.place < n.place)
  <2> HIDE DEF V
  <2> QED BY <1>1, LeastModel
<1>3. \A n \in S : n.cost \in Nat /\ n.vision \in BOOLEAN /\ n.computer \in BOOLEAN
  BY CatalogAssumption
<1>4. ASSUME NEW n \in S \ {m} PROVE Outranks(m, n, q)
  <2>1. CASE q.computer /\ m.computer # n.computer
    <3>1. m.computer
      BY <1>1, <1>3, <2>1
    <3> QED BY <2>1, <3>1 DEF Outranks
  <2>2. CASE ~(q.computer /\ m.computer # n.computer) /\ q.images /\ m.vision # n.vision
    <3>1. n \in C
      BY <1>1, <1>3, <2>2
    <3>2. m.vision
      BY <1>1, <1>3, <2>2, <3>1
    <3> QED BY <2>2, <3>2 DEF Outranks
  <2>3. CASE ~(q.computer /\ m.computer # n.computer) /\ ~(q.images /\ m.vision # n.vision)
    <3>1. n \in V
      BY <1>1, <1>3, <2>3
    <3>2. m.cost < n.cost \/ (m.cost = n.cost /\ m.place < n.place)
      BY <1>2, <3>1
    <3>3. m.cost \in Nat /\ n.cost \in Nat
      BY <1>1, <1>3
    <3> QED BY <2>3, <3>2, <3>3 DEF Outranks
  <2> QED BY <2>1, <2>2, <2>3
<1>5. m \in Top(S, q)
  BY <1>1, <1>4 DEF Top
<1> QED BY <1>5

(* _select_model finds a model when one fits, and a local provider offers  *)
(* one of those it has when none does.                                     *)
LEMMA ModelIsFound ==
  ASSUME NEW p \in Providers, NEW models \in SUBSET Catalog[p], NEW pol, NEW q
  PROVE  /\ (\E m \in models : Fits(m, p, pol, q)) => SelectModel(p, pol, q, models) # {}
         /\ p \in Local /\ models # {} => SelectModel(p, pol, q, models) # {}
<1> DEFINE fitting == {m \in models : Fits(m, p, pol, q)}
<1>1. fitting # {} => Top(fitting, q) # {}
  <2>1. fitting \in SUBSET Catalog[p]
    OBVIOUS
  <2> HIDE DEF fitting
  <2> QED BY <2>1, TopIsSome
<1>2. models # {} => First(models) # {}
  <2> SUFFICES ASSUME models # {} PROVE First(models) # {}
    OBVIOUS
  <2>1. \A m \in models : m.place \in Nat
    BY CatalogAssumption
  <2> DEFINE T == {m.place : m \in models}
  <2>2. T \subseteq Nat /\ T # {}
    BY <2>1
  <2> HIDE DEF T
  <2>3. PICK x \in T : \A y \in T : x <= y
    BY <2>2, LeastNumber
  <2>4. PICK m \in models : m.place = x
    BY DEF T
  <2>5. \A n \in models : m.place <= n.place
    BY <2>3, <2>4 DEF T
  <2> QED BY <2>5 DEF First
<1> QED BY <1>1, <1>2 DEF SelectModel

(* Every provider a call could go to is a candidate of its plan, was found *)
(* down, or has no model for it.                                           *)
Excused(c) ==
  planned[c] # None =>
    \A p \in Eligible(planned[c].policy, planned[c].request) :
      \/ p \in DOMAIN plan[c] \/ p \in down[c]
      \/ p \in Cloud /\ \A m \in Catalog[p] : ~Fits(m, p, planned[c].policy, planned[c].request)

(* Planning excuses them all, and what was found down stays so.            *)
LEMMA ExcusedHolds == Spec => [](\A c \in Calls : Excused(c))
<1> DEFINE Inv == \A c \in Calls : Excused(c)
<1>1. Init => Inv
  BY DEF Init, Excused
<1>2. TypeOK /\ Inv /\ [Next]_vars => Inv'
  <2> SUFFICES ASSUME TypeOK, Inv, [Next]_vars PROVE Inv'
    OBVIOUS
  <2>1. ASSUME NEW c \in Calls, NEW q \in Requests, NEW seen \in SUBSET Providers,
               NEW answering \in SUBSET Local, Route(c, q, seen, answering)
        PROVE  Inv'
    <3> DEFINE listing == Listing(Cached(answering))
               chain == Candidates(policy, q, seen, listing)
    <3>1. /\ plan'[c] = Decision(policy, q, seen, listing)
          /\ planned'[c] = [policy |-> policy, request |-> q]
          /\ down'[c] = (Providers \ seen) \cup {p \in seen : listing[p] = {}}
      BY <2>1 DEF Route, TypeOK
    <3>2. DOMAIN plan'[c] = chain
      BY <3>1 DEF Decision
    <3>3. ASSUME NEW p \in Eligible(policy, q), p \notin chain, p \notin down'[c]
          PROVE  p \in Cloud /\ \A m \in Catalog[p] : ~Fits(m, p, policy, q)
      <4>1. p \in Providers /\ p \in seen /\ listing[p] # {}
        BY <3>1, <3>3 DEF Eligible, Providers
      <4>2. listing[p] \in SUBSET Catalog[p]
        BY <4>1, ListingType
      <4>3. SelectModel(p, policy, q, listing[p]) = {}
        BY <3>3, <4>1 DEF Candidates
      <4> HIDE DEF listing
      <4>4. p \notin Local /\ \A m \in listing[p] : ~Fits(m, p, policy, q)
        BY <4>1, <4>2, <4>3, ModelIsFound
      <4>5. p \in Cloud
        BY <4>1, <4>4 DEF Providers
      <4>6. listing[p] = Catalog[p]
        BY <4>1, <4>5 DEF listing, Listing
      <4> QED BY <4>4, <4>5, <4>6
    <3>4. Excused(c)'
      BY <3>1, <3>2, <3>3 DEF Excused
    <3>5. \A d \in Calls \ {c} : Excused(d)'
      BY <2>1 DEF Route, TypeOK, Excused
    <3> QED BY <3>4, <3>5
  <2>2. ASSUME UNCHANGED <<plan, planned>>, \A c \in Calls : down[c] \subseteq down'[c] PROVE Inv'
    BY <2>2 DEF Excused
  <2>3. ASSUME NEW c \in Calls, Try(c) PROVE Inv'
    <3>1. UNCHANGED <<plan, planned>>
      BY <2>3 DEF Try, Answered, Unavailable, Failed
    <3>2. \A d \in Calls : down[d] \subseteq down'[d]
      BY <2>3 DEF Try, Answered, Unavailable, Failed, TypeOK
    <3> QED BY <2>2, <3>1, <3>2
  <2>4. ASSUME NEW c \in Calls, NEW p \in Providers, Deliver(c, p) PROVE Inv'
    BY <2>2, <2>4 DEF Deliver
  <2>5. ASSUME NEW c \in Calls, Abandon(c) PROVE Inv'
    BY <2>2, <2>5 DEF Abandon
  <2>6. CASE UNCHANGED callVars
    BY <2>2, <2>6 DEF callVars
  <2>7. (\/ \E pol \in Policies : SetPolicy(pol)
         \/ \E p \in Local : \E m \in Catalog[p] : Install(p, m) \/ Remove(p, m)
         \/ UNCHANGED vars) => UNCHANGED callVars
    BY DEF SetPolicy, Install, Remove, vars
  <2> QED BY <2>1, <2>3, <2>4, <2>5, <2>6, <2>7 DEF Next
<1> QED BY <1>1, <1>2, TypeCorrect, PTL DEF Spec

(* NoProviderMeansAllDown, of _plan and chat() (router.py:105-181): every  *)
(* provider that could have taken the call was down.                       *)
THEOREM NoProviderIsNoExcuse == Spec => []NoProviderMeansAllDown
<1>1. ASSUME IInv, NEW c \in Calls, Excused(c), result[c] = "NoProviderAvailableError"
      PROVE  /\ Policy(c).mode # "cloud_only" => Local \subseteq down[c]
             /\ /\ Policy(c).mode \notin {"local_only"} /\ ~Policy(c).monthly_exhausted
                /\ ~Request(c).private /\ ~Request(c).pii
                => \A p \in Cloud \ down[c] : \A m \in Catalog[p] : ~Fits(m, p, Policy(c), Request(c))
  <2>1. DOMAIN plan[c] \subseteq down[c] /\ planned[c] # None
    BY <1>1, NoneAssumption DEF IInv, Orderly, Results
  <2>2. \A p \in Eligible(Policy(c), Request(c)) :
          \/ p \in down[c]
          \/ p \in Cloud /\ \A m \in Catalog[p] : ~Fits(m, p, Policy(c), Request(c))
    BY <1>1, <2>1 DEF Excused, Policy, Request
  <2>3. Policy(c).mode # "cloud_only" => Local \subseteq Eligible(Policy(c), Request(c))
    BY DEF Eligible, Providers
  <2>4. /\ Policy(c).mode \notin {"local_only"} /\ ~Policy(c).monthly_exhausted
        /\ ~Request(c).private /\ ~Request(c).pii
        => Cloud \subseteq Eligible(Policy(c), Request(c))
    BY DEF Eligible, MustForceLocal, Providers
  <2> QED BY <2>2, <2>3, <2>4, ProvidersAssumption
<1>2. IInv /\ (\A c \in Calls : Excused(c)) => NoProviderMeansAllDown
  BY <1>1 DEF NoProviderMeansAllDown
<1> QED BY <1>2, IInvHolds, ExcusedHolds, PTL
===============================================================================
