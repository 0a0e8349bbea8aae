----------------------------- MODULE AgentLoopsProofs -----------------------------
(***************************************************************************)
(* Theorems about AgentLoops, for every registry of tools, every action    *)
(* the models may ask for, and every number of calls, iterations and       *)
(* tasks.                                                                  *)
(***************************************************************************)
EXTENDS AgentLoops, SequenceTheorems, WellFoundedInduction, TLAPS

-------------------------------------------------------------------------------
(* FlattenSeq *)

(* What FlattenSeq builds: the concatenation of the first i sequences.     *)
Flattens(f, s, n) == f = [i \in 1 .. n |-> IF i = 1 THEN s[i] ELSE f[i - 1] \o s[i]]

LEMMA FlattenExists ==
  ASSUME NEW s, NEW m \in Nat
  PROVE  \E f : Flattens(f, s, m)
<1> SUFFICES ASSUME ~ \E f : Flattens(f, s, m) PROVE FALSE
  OBVIOUS
<1> DEFINE T == {n \in Nat : ~ \E f : Flattens(f, s, n)}
<1>1. m \in T /\ T \subseteq Nat
  OBVIOUS
<1>2. PICK n \in T : \A k \in T : ~ (<<k, n>> \in OpToRel(<, Nat))
  <2> HIDE DEF T
  <2> QED BY <1>1, NatLessThanWellFounded, WFMin
<1>3. n \in Nat /\ \A k \in Nat : k < n => \E f : Flattens(f, s, k)
  BY <1>2 DEF OpToRel
<1>4. CASE n = 0
  <2> DEFINE f == [i \in 1 .. 0 |-> s[i]]
  <2>1. f = [i \in 1 .. n |-> IF i = 1 THEN s[i] ELSE f[i - 1] \o s[i]]
    BY <1>4
  <2> QED BY <1>2, <2>1 DEF Flattens
<1>5. CASE n # 0
  <2>1. PICK f : Flattens(f, s, n - 1)
    BY <1>3, <1>5
  <2> DEFINE g == [i \in 1 .. n |-> IF i = n THEN (IF n = 1 THEN s[i] ELSE f[n - 1] \o s[i]) ELSE f[i]]
  <2>2. ASSUME NEW i \in 1 .. n PROVE g[i] = IF i = 1 THEN s[i] ELSE g[i - 1] \o s[i]
    <3>1. CASE i = n
      BY <1>3, <3>1
    <3>2. CASE i # n
      <4>1. i \in 1 .. n - 1 /\ g[i] = f[i]
        BY <1>3, <3>2
      <4>2. f[i] = IF i = 1 THEN s[i] ELSE f[i - 1] \o s[i]
        BY <2>1, <4>1 DEF Flattens
      <4>3. i # 1 => g[i - 1] = f[i - 1]
        BY <1>3, <4>1
      <4> QED BY <4>1, <4>2, <4>3
    <3> QED BY <3>1, <3>2
  <2>3. g = [i \in 1 .. n |-> g[i]]
    OBVIOUS
  <2> HIDE DEF g
  <2>4. Flattens(g, s, n)
    BY <2>2, <2>3 DEF Flattens
  <2> QED BY <1>2, <2>4
<1> QED BY <1>4, <1>5

(* Two such functions agree where both are defined, and are typed.         *)
LEMMA FlattensAgree ==
  ASSUME NEW S, NEW s, NEW t, NEW m \in Nat, NEW k \in Nat, NEW n \in Nat, n <= m, n <= k,
         \A i \in 1 .. n : s[i] = t[i] /\ s[i] \in Seq(S),
         NEW f, NEW g, Flattens(f, s, m), Flattens(g, t, k)
  PROVE  \A i \in 1 .. n : f[i] = g[i] /\ f[i] \in Seq(S)
<1> SUFFICES ASSUME ~ \A i \in 1 .. n : f[i] = g[i] /\ f[i] \in Seq(S) PROVE FALSE
  OBVIOUS
<1> DEFINE T == {i \in Nat : i \in 1 .. n /\ ~(f[i] = g[i] /\ f[i] \in Seq(S))}
<1>1. T # {} /\ T \subseteq Nat
  OBVIOUS
<1>2. PICK i \in T : \A j \in T : ~ (<<j, i>> \in OpToRel(<, Nat))
  <2> HIDE DEF T
  <2> QED BY <1>1, NatLessThanWellFounded, WFMin
<1>3. /\ i \in 1 .. n /\ i \in 1 .. m /\ i \in 1 .. k
      /\ \A j \in 1 .. n : j < i => f[j] = g[j] /\ f[j] \in Seq(S)
  <2>1. i \in 1 .. n /\ i \in Nat /\ T \subseteq Nat
    OBVIOUS
  <2>2. \A j \in T : ~ (j < i)
    <3> HIDE DEF T
    <3> QED BY <1>2, <2>1 DEF OpToRel
  <2>3. \A j \in 1 .. n : j < i => j \notin T
    BY <2>2
  <2> QED BY <2>1, <2>3
<1>4. /\ f[i] = IF i = 1 THEN s[i] ELSE f[i - 1] \o s[i]
      /\ g[i] = IF i = 1 THEN t[i] ELSE g[i - 1] \o t[i]
  BY <1>3 DEF Flattens
<1>5. f[i] = g[i] /\ f[i] \in Seq(S)
  <2>1. s[i] = t[i] /\ s[i] \in Seq(S)
    BY <1>3
  <2>2. CASE i = 1
    BY <1>4, <2>1, <2>2
  <2>3. CASE i # 1
    <3>1. f[i - 1] = g[i - 1] /\ f[i - 1] \in Seq(S)
      BY <1>3, <2>3
    <3> QED BY <1>4, <2>1, <2>3, <3>1
  <2> QED BY <2>2, <2>3
<1> QED BY <1>2, <1>5

LEMMA FlattenIs ==
  ASSUME NEW s, Len(s) \in Nat, Len(s) # 0
  PROVE  \E f : Flattens(f, s, Len(s)) /\ FlattenSeq(s) = f[Len(s)]
<1> DEFINE f == CHOOSE f : f = [i \in 1 .. Len(s) |-> IF i = 1 THEN s[i] ELSE f[i - 1] \o s[i]]
<1>1. \E g : g = [i \in 1 .. Len(s) |-> IF i = 1 THEN s[i] ELSE g[i - 1] \o s[i]]
  BY FlattenExists DEF Flattens
<1>2. f = [i \in 1 .. Len(s) |-> IF i = 1 THEN s[i] ELSE f[i - 1] \o s[i]]
  BY <1>1
<1>3. FlattenSeq(s) = f[Len(s)]
  BY DEF FlattenSeq
<1> HIDE DEF f
<1> QED BY <1>2, <1>3 DEF Flattens

(* FlattenSeq, of sequences of sequences: what a further one adds.         *)
LEMMA FlattenAppend ==
  ASSUME NEW S, NEW s \in Seq(Seq(S)), NEW x \in Seq(S)
  PROVE  /\ FlattenSeq(s) \in Seq(S)
         /\ FlattenSeq(Append(s, x)) = FlattenSeq(s) \o x
<1> DEFINE t == Append(s, x)
<1>1. /\ Len(s) \in Nat /\ Len(t) = Len(s) + 1 /\ t[Len(s) + 1] = x
      /\ \A i \in 1 .. Len(s) : t[i] = s[i] /\ s[i] \in Seq(S)
  OBVIOUS
<1> HIDE DEF t
<1>2. PICK g : Flattens(g, t, Len(t)) /\ FlattenSeq(t) = g[Len(t)]
  BY <1>1, FlattenIs
<1>3. CASE Len(s) = 0
  <2>1. s = <<>> /\ FlattenSeq(s) = s
    BY <1>3, EmptySeq DEF FlattenSeq
  <2>2. g[1] = t[1]
    BY <1>1, <1>2, <1>3 DEF Flattens
  <2>3. FlattenSeq(t) = x
    BY <1>1, <1>2, <1>3, <2>2
  <2>4. FlattenSeq(s) \in Seq(S)
    BY <2>1, EmptySeq
  <2>5. <<>> \o x = x
    BY ConcatEmptySeq
  <2> QED BY <2>1, <2>3, <2>4, <2>5 DEF t
<1>4. CASE Len(s) # 0
  <2>1. PICK f : Flattens(f, s, Len(s)) /\ FlattenSeq(s) = f[Len(s)]
    BY <1>1, <1>4, FlattenIs
  <2>2. f[Len(s)] = g[Len(s)] /\ f[Len(s)] \in Seq(S)
    <3>1. \A i \in 1 .. Len(s) : f[i] = g[i] /\ f[i] \in Seq(S)
      <4> DEFINE n == Len(s)
                 k == Len(t)
      <4>1. n \in Nat /\ k \in Nat /\ n <= n /\ n <= k
        BY <1>1
      <4>2. \A i \in 1 .. n : s[i] = t[i] /\ s[i] \in Seq(S)
        BY <1>1
      <4>3. Flattens(f, s, n) /\ Flattens(g, t, k)
        BY <1>2, <2>1
      <4> HIDE DEF n, k
      <4>4. \A i \in 1 .. n : f[i] = g[i] /\ f[i] \in Seq(S)
        BY <4>1, <4>2, <4>3, FlattensAgree
      <4> QED BY <4>4 DEF n
    <3> QED BY <1>1, <1>4, <3>1
  <2>3. g[Len(t)] = g[Len(s)] \o x
    <3>1. Len(t) \in 1 .. Len(t) /\ Len(t) # 1 /\ Len(t) - 1 = Len(s)
      BY <1>1, <1>4
    <3> QED BY <1>1, <1>2, <3>1 DEF Flattens
  <2> QED BY <1>2, <2>1, <2>2, <2>3 DEF t
<1> QED BY <1>1, <1>3, <1>4

-------------------------------------------------------------------------------
(* Types *)

(* What the loops know of, loop by loop.                                   *)
LEMMA KnownIs ==
  /\ Known("claude") = DOMAIN ClaudeActions
  /\ Known("gemini") = DOMAIN GeminiKinds
  /\ Known("ollama") = DOMAIN OllamaActions
  /\ \A l : l \notin {"claude", "gemini", "ollama"} => Known(l) = {}
<1>1. Known("claude") = DOMAIN ClaudeActions
  BY Zenon DEF Known
<1>2. Known("gemini") = DOMAIN GeminiKinds
  BY Zenon DEF Known
<1>3. Known("ollama") = DOMAIN OllamaActions
  BY Zenon DEF Known
<1>4. ASSUME NEW l, l \notin {"claude", "gemini", "ollama"} PROVE Known(l) = {}
  BY <1>4, Zenon DEF Known
<1> QED BY <1>1, <1>2, <1>3, <1>4

(* The actions of the three tables, known or not, are sequences of         *)
(* gestures.                                                               *)
LEMMA GesturesType ==
  ASSUME NEW l, NEW name
  PROVE  Gestures(l, name) \in Seq(Moves)
<1> DEFINE R == {<<>>, Look, Drag, <<"click">>, <<"right">>, <<"middle">>, <<"double">>, <<"move">>,
                 <<"scroll">>, <<"text">>, <<"pause">>, <<"press">>, <<"hotkey">>,
                 <<"move", "scroll">>, <<"click", "text">>, <<"launch", "pause">>,
                 <<"launch", "pause", "hotkey", "text", "press">>}
<1>1. R \subseteq Seq(Moves)
  BY DEF Look, Drag, Moves
<1>2. ASSUME NEW k \in DOMAIN ClaudeActions PROVE ClaudeActions[k] \in R
  BY DEF ClaudeActions
<1>3. ASSUME NEW k \in DOMAIN GeminiPlans PROVE GeminiPlans[k] \in R
  BY DEF GeminiPlans
<1>4. ASSUME NEW k \in DOMAIN OllamaActions PROVE OllamaActions[k] \in R
  BY DEF OllamaActions
<1>5. \A k \in DOMAIN GeminiKinds : GeminiKinds[k] \in DOMAIN GeminiPlans
  BY DEF GeminiKinds, GeminiPlans
<1> DEFINE look == IF name \in {"done", "stuck"} THEN <<>> ELSE Look
<1>10. look \in R /\ <<>> \in R
  OBVIOUS
<1> HIDE DEF R
<1>6. CASE l = "claude" /\ name \in Known(l)
  <2>1. Gestures(l, name) = ClaudeActions[name]
    BY <1>6, Zenon DEF Gestures
  <2> QED BY <1>1, <1>2, <1>6, <2>1, KnownIs
<1>7. CASE l = "gemini" /\ name \in Known(l)
  <2>1. Gestures(l, name) = GeminiPlans[GeminiKinds[name]]
    BY <1>7, Zenon DEF Gestures
  <2> QED BY <1>1, <1>3, <1>5, <1>7, <2>1, KnownIs
<1>8. CASE l = "ollama" /\ name \in Known(l)
  <2>1. Gestures(l, name) = OllamaActions[name] \o look
    BY <1>8, Zenon DEF Gestures
  <2>2. OllamaActions[name] \in Seq(Moves) /\ look \in Seq(Moves)
    BY <1>1, <1>4, <1>8, <1>10, KnownIs
  <2> HIDE DEF look
  <2> QED BY <2>1, <2>2, ConcatProperties
<1>9. CASE name \notin Known(l)
  BY <1>1, <1>9, <1>10 DEF Gestures
<1> QED BY <1>6, <1>7, <1>8, <1>9, KnownIs

(* An answer that is decoded has a call for each name, in its order.       *)
LEMMA DecodedType ==
  ASSUME NEW p, NEW S, S \subseteq Names, NEW names \in Seq(S), NEW given \in BOOLEAN, NEW turn \in Nat
  PROVE  /\ Decoded(p, names, given, turn) \in Seq(Call)
         /\ Len(Decoded(p, names, given, turn)) = Len(names)
         /\ \A n \in 1 .. Len(names) :
              Decoded(p, names, given, turn)[n]
                = [id |-> CallId(p, names[n], given, turn, n), name |-> names[n]]
<1> DEFINE d == Decoded(p, names, given, turn)
<1>1. ASSUME NEW n \in 1 .. Len(names)
      PROVE  [id |-> CallId(p, names[n], given, turn, n), name |-> names[n]] \in Call
  <2>1. names[n] \in Names /\ n \in Nat /\ turn \in Nat
    OBVIOUS
  <2>2. \A x \in Names : CallId(p, x, given, turn, n) \in Id
    <3>1. \A x \in Names : NameId(x) \in Id /\ FreshId(turn, n) \in Id
      BY <2>1 DEF NameId, FreshId, Id
    <3> QED BY <3>1 DEF CallId
  <2> QED BY <2>1, <2>2 DEF Call
<1>2. d = [n \in 1 .. Len(names) |->
             [id |-> CallId(p, names[n], given, turn, n), name |-> names[n]]]
  BY DEF Decoded
<1>3. d \in [1 .. Len(names) -> Call]
  BY <1>1, <1>2
<1>4. d \in Seq(Call) /\ Len(d) = Len(names)
  BY <1>3
<1> QED BY <1>2, <1>4

LEMMA NamesOfType ==
  ASSUME NEW l \in Loops, NEW names \in NamesOf(l)
  PROVE  names \in Seq(Asked(l)) /\ Len(names) <= MaxCalls
<1> USE LoopsAssumption
<1>1. PICK n \in 0 .. MaxCalls : names \in [1 .. n -> Asked(l)]
  BY DEF NamesOf
<1> QED BY <1>1

LEMMA AskedAreNames ==
  ASSUME NEW l \in Loops
  PROVE  Asked(l) \subseteq Names /\ None \notin Names
BY LoopsAssumption DEF Names

-------------------------------------------------------------------------------
(* Type correctness *)

Messages == [role : {"user", "assistant"}, by : Providers \cup {None},
             calls : Seq(Call), results : Seq(Result)]

(* Where a loop stands in each phase.                                      *)
Standing ==
  /\ phase = "start" =>
       /\ messages = <<>> /\ transcript = <<>> /\ todo = <<>> /\ steps = None
       /\ results = <<>> /\ gestures = <<>> /\ iteration = 0 /\ tool_calls = 0
  /\ phase = "ask" => todo = <<>> /\ steps = None /\ Len(transcript) = iteration
  /\ phase = "act" =>
       todo # <<>> /\ Len(transcript) = iteration + 1 /\ iteration < MaxIterations
  /\ phase = "returned" => run \in RunResult
  /\ steps # None => todo # <<>> /\ loop # "demo"
  /\ loop = "ollama" => Len(todo) <= 1

TInv == TypeOK /\ steps \in Seq(Moves) \cup {None} /\ Standing

LEMMA ReturnType ==
  ASSUME NEW success \in BOOLEAN, NEW i \in Nat, NEW error \in Errors, TypeOK,
         Return(success, i, error)
  PROVE  phase' = "returned" /\ run' \in RunResult
BY DEF Return, TypeOK, RunResult

LEMMA LeaveType ==
  ASSUME NEW success \in BOOLEAN, NEW error \in Errors, TypeOK, Leave(success, error)
  PROVE  phase' = "returned" /\ run' \in RunResult
BY DEF Leave, Return, TypeOK, RunResult

LEMMA DieType ==
  ASSUME TypeOK, Die PROVE phase' = "died" /\ run' \in RunResult \cup {None}
BY DEF Die, TypeOK

(* A call that is served leaves the rest of them, and a result.            *)
LEMMA ServeType ==
  ASSUME TypeOK, todo # <<>>, NEW kind \in {"ok", "error", "image"}, Serve(kind)
  PROVE  /\ todo' \in Seq(Call) /\ Len(todo') = Len(todo) - 1
         /\ \A i \in 1 .. Len(todo') : todo'[i] = todo[i + 1]
         /\ todo' = <<>> <=> Len(todo) = 1
         /\ Len(todo) <= 1 => todo' = <<>> /\ Len(todo') <= 1
         /\ results' \in Seq(Result) /\ Len(results') = Len(results) + 1
         /\ steps' = None
<1>1. /\ todo \in Seq(Call) /\ results \in Seq(Result) /\ Head(todo) \in Call
      /\ Len(todo) \in Nat \ {0}
  BY DEF TypeOK
<1>2. [id |-> ResultId(kind), kind |-> kind] \in Result
  BY <1>1 DEF Call, Result, ResultId
<1> DEFINE r == [id |-> ResultId(kind), kind |-> kind]
<1>3. todo' = Tail(todo) /\ results' = Append(results, r) /\ steps' = None
  BY DEF Serve
<1> HIDE DEF r
<1>4. /\ results' \in Seq(Result) /\ Len(results') = Len(results) + 1
  BY <1>1, <1>2, <1>3 DEF r
<1>5. /\ todo' \in Seq(Call) /\ Len(todo') = Len(todo) - 1
      /\ \A i \in 1 .. Len(todo') : todo'[i] = todo[i + 1]
  BY <1>1, <1>3, HeadTailProperties
<1>6. /\ todo' = <<>> <=> Len(todo) = 1
      /\ Len(todo) <= 1 => todo' = <<>> /\ Len(todo') <= 1
  BY <1>1, <1>5, EmptySeq
<1> QED BY <1>3, <1>4, <1>5, <1>6

LEMMA MessageTypes ==
  /\ UserText \in Messages
  /\ \A rs \in Seq(Result) : UserResults(rs) \in Messages
  /\ \A p \in Providers, cs \in Seq(Call) : Assistant(p, cs) \in Messages
<1>1. <<>> \in Seq(Call) /\ <<>> \in Seq(Result)
  BY EmptySeq
<1> QED BY <1>1 DEF UserText, UserResults, Assistant, Messages

LEMMA NextRoundType ==
  ASSUME TInv, phase = "act", NEW ms \in Seq(Messages), NextRound(ms)
  PROVE  /\ messages' \in Seq(Messages) /\ iteration' \in 0 .. MaxIterations
         /\ iteration' = iteration + 1 /\ phase' = "ask"
BY LoopsAssumption DEF NextRound, TInv, TypeOK, Standing

(* One call is answered, and the round goes on or ends.                    *)
LEMMA AnsweredType ==
  ASSUME TInv, phase = "act", NEW kind \in {"ok", "error", "image"}, Answered(kind)
  PROVE  /\ Serve(kind) /\ UNCHANGED run
         /\ messages' \in Seq(Messages) /\ iteration' \in 0 .. MaxIterations
         /\ \/ /\ phase' = "ask" /\ todo' = <<>> /\ iteration' = iteration + 1
               /\ messages' = Append(messages, UserResults(results'))
            \/ phase' = "act" /\ todo' # <<>> /\ UNCHANGED <<iteration, messages>>
<1> USE DEF TInv
<1>1. Serve(kind) /\ UNCHANGED run /\ todo # <<>>
  BY DEF Answered, Standing
<1>2. results' \in Seq(Result) /\ (todo' = <<>> <=> Len(todo) = 1)
  BY <1>1, ServeType
<1>3. messages \in Seq(Messages) /\ iteration \in 0 .. MaxIterations
  BY DEF TypeOK, Messages
<1>4. CASE Len(todo) = 1
  <2> DEFINE m == UserResults(results')
  <2>1. m \in Messages
    BY <1>2, MessageTypes
  <2>2. NextRound(Append(messages, m))
    BY <1>4 DEF Answered
  <2> HIDE DEF m
  <2>3. Append(messages, m) \in Seq(Messages) /\ messages' = Append(messages, m)
    BY <1>3, <2>1, <2>2 DEF NextRound
  <2>4. /\ messages' \in Seq(Messages) /\ iteration' \in 0 .. MaxIterations
        /\ iteration' = iteration + 1 /\ phase' = "ask"
    BY <2>2, <2>3, NextRoundType
  <2> QED BY <1>1, <1>2, <1>4, <2>3, <2>4 DEF m
<1>5. CASE Len(todo) # 1
  BY <1>1, <1>2, <1>3, <1>5 DEF Answered
<1> QED BY <1>4, <1>5

LEMMA TInvInit == Init => TInv
<1> SUFFICES ASSUME Init PROVE TInv
  OBVIOUS
<1> USE LoopsAssumption
<1>1. loop \in Loops /\ planned \in {1, MaxTasks} /\ up \subseteq Providers
  BY DEF Init, Loops
<1>2. model \in [listed : BOOLEAN, marked : BOOLEAN]
  <2>1. [listed |-> FALSE, marked |-> FALSE] \in [listed : BOOLEAN, marked : BOOLEAN]
    OBVIOUS
  <2> QED BY <2>1, Zenon DEF Init
<1>3. /\ phase = "start" /\ messages = <<>> /\ transcript = <<>> /\ todo = <<>> /\ steps = None
      /\ results = <<>> /\ gestures = <<>> /\ iteration = 0 /\ tool_calls = 0
      /\ run = None /\ reports = <<>>
  BY DEF Init
<1>4. 0 \in 0 .. MaxIterations
  OBVIOUS
<1> HIDE LoopsAssumption
<1>5. TypeOK
  BY <1>1, <1>2, <1>3, <1>4, EmptySeq DEF TypeOK
<1> QED BY <1>3, <1>5 DEF TInv, Standing

LEMMA SaidType ==
  ASSUME TypeOK, NEW names \in Seq(Asked(loop)), NEW done \in BOOLEAN, Said(names, done)
  PROVE  /\ transcript' \in Seq([calls : Seq(Asked(loop)), done : BOOLEAN])
         /\ Len(transcript') = Len(transcript) + 1
         /\ transcript'[Len(transcript')] = [calls |-> names, done |-> done]
         /\ \A i \in 1 .. Len(transcript) : transcript'[i] = transcript[i]
<1> DEFINE a == [calls |-> names, done |-> done]
           T == [calls : Seq(Asked(loop)), done : BOOLEAN]
<1>1. a \in T /\ transcript \in Seq(T) /\ transcript' = Append(transcript, a)
  BY DEF TypeOK, Said
<1> HIDE DEF a, T
<1>2. /\ transcript' \in Seq(T) /\ Len(transcript') = Len(transcript) + 1
      /\ transcript'[Len(transcript')] = a
      /\ \A i \in 1 .. Len(transcript) : transcript'[i] = transcript[i]
  BY <1>1
<1> QED BY <1>2 DEF a, T

(* Any answer: it is said, and the loop is left or has calls to serve.     *)
LEMMA AnswerType ==
  ASSUME TInv, phase = "ask", iteration < MaxIterations,
         NEW names \in Seq(Asked(loop)), NEW done \in BOOLEAN, Said(names, done),
         NEW success \in BOOLEAN, NEW error \in Errors, NEW calls \in Seq(Call),
         names = <<>> <=> calls = <<>>, loop = "ollama" => Len(calls) <= 1,
         IF names = <<>> THEN NoCalls /\ Leave(success, error) ELSE TakeCalls(calls),
         AskUnchanged, messages' \in Seq(Messages)
  PROVE  TInv'
<1> USE DEF TInv
<1>1. /\ transcript' \in Seq([calls : Seq(Asked(loop)), done : BOOLEAN])
      /\ Len(transcript') = iteration + 1
  BY SaidType DEF Standing
<1>2. /\ UNCHANGED <<loop, planned, up, model, steps, gestures, iteration, tool_calls, reports>>
      /\ steps = None
  BY DEF AskUnchanged, setting, Standing
<1>3. CASE names = <<>>
  <2>1. phase' = "returned" /\ run' \in RunResult /\ todo' = <<>> /\ results' = <<>>
    BY <1>3, LeaveType DEF NoCalls
  <2>2. TypeOK'
    BY <1>1, <1>2, <2>1, EmptySeq DEF TypeOK, Messages
  <2> QED BY <1>2, <2>1, <2>2 DEF Standing
<1>4. CASE names # <<>>
  <2>1. phase' = "act" /\ run' = run /\ todo' = calls /\ results' = <<>>
    BY <1>4 DEF TakeCalls
  <2>2. TypeOK'
    BY <1>1, <1>2, <2>1, EmptySeq DEF TypeOK, Messages
  <2> QED BY <1>1, <1>2, <1>4, <2>1, <2>2 DEF Standing
<1> QED BY <1>3, <1>4

(* The four ways to answer, as one.                                        *)
AnswerNext ==
  \/ \E names \in NamesOf("claude"), stop \in {"end_turn", "tool_use", "max_tokens"},
       done \in BOOLEAN : ClaudeAnswers(names, stop, done)
  \/ \E names \in NamesOf("gemini"), done \in BOOLEAN : GeminiAnswers(names, done)
  \/ \E names \in OllamaParses : OllamaAnswers(names)
  \/ \E p \in up, names \in NamesOf("demo"), given \in BOOLEAN : DemoAnswers(p, names, given)

AnswerStep(names, done, success, error, p, given) ==
  LET calls == Decoded(p, names, given, Len(messages))
  IN  /\ phase = "ask" /\ iteration < MaxIterations
      /\ Said(names, done) /\ AskUnchanged
      /\ IF names = <<>> THEN NoCalls /\ Leave(success, error) ELSE TakeCalls(calls)
      /\ messages' = IF loop = "ollama" \/ (loop = "demo" /\ names = <<>>) THEN messages
                     ELSE Append(messages, Assistant(p, calls))
      /\ p # "gemini" => given
      /\ loop # "demo" /\ success => names = <<>> /\ done /\ error = None
      /\ error \in {None, "no_json"}
      /\ loop = "ollama" => Len(names) <= 1 /\ (done <=> names = <<"done">>)

LEMMA AnswersAreOne ==
  ASSUME TInv, AnswerNext
  PROVE  \E names \in NamesOf(loop), done \in BOOLEAN, success \in BOOLEAN,
           error \in Errors, p \in Providers, given \in BOOLEAN :
             AnswerStep(names, done, success, error, p, given)
<1> USE LoopsAssumption DEF AnswerStep, Asking, Errors, Providers
<1>1. ASSUME NEW names \in NamesOf("claude"), NEW stop \in {"end_turn", "tool_use", "max_tokens"},
             NEW done \in BOOLEAN, ClaudeAnswers(names, stop, done)
      PROVE  /\ loop = "claude"
             /\ AnswerStep(names, done, ClaudeSucceeds(stop, done), None, "claude", TRUE)
             /\ ClaudeSucceeds(stop, done) \in BOOLEAN
  BY <1>1 DEF ClaudeAnswers, ClaudeSucceeds
<1>2. ASSUME NEW names \in NamesOf("gemini"), NEW done \in BOOLEAN, GeminiAnswers(names, done)
      PROVE  loop = "gemini" /\ AnswerStep(names, done, done, None, "gemini", FALSE)
  BY <1>2 DEF GeminiAnswers
<1>3. ASSUME NEW names \in OllamaParses, OllamaAnswers(names)
      PROVE  /\ loop = "ollama" /\ names \in NamesOf("ollama")
             /\ AnswerStep(names, names = <<"done">>, FALSE, "no_json", "ollama", TRUE)
  <2>1. names \in NamesOf("ollama") /\ Len(names) <= 1
    <3>1. 0 \in 0 .. MaxCalls /\ 1 \in 0 .. MaxCalls
      OBVIOUS
    <3>2. CASE names = <<>>
      <4>1. names \in [1 .. 0 -> Asked("ollama")] /\ Len(names) <= 1
        BY <3>2
      <4> QED BY <3>1, <4>1 DEF NamesOf
    <3>3. ASSUME NEW name \in Asked("ollama"), names = <<name>>
          PROVE  names \in NamesOf("ollama") /\ Len(names) <= 1
      <4>1. names \in [1 .. 1 -> Asked("ollama")] /\ Len(names) <= 1
        BY <3>3
      <4> QED BY <3>1, <4>1 DEF NamesOf
    <3> QED BY <3>2, <3>3 DEF OllamaParses
  <2> DEFINE done == names = <<"done">>
             calls == Decoded("ollama", names, TRUE, Len(messages))
  <2>2. /\ loop = "ollama" /\ phase = "ask" /\ iteration < MaxIterations
        /\ Said(names, done) /\ messages' = messages /\ AskUnchanged
        /\ IF names = <<>> THEN NoCalls /\ Leave(FALSE, "no_json") ELSE TakeCalls(calls)
    BY <1>3 DEF OllamaAnswers
  <2> QED BY <2>1, <2>2
<1>4. ASSUME NEW p \in up, NEW names \in NamesOf("demo"), NEW given \in BOOLEAN,
             DemoAnswers(p, names, given)
      PROVE  loop = "demo" /\ p \in Providers /\ AnswerStep(names, FALSE, TRUE, None, p, given)
  <2> DEFINE calls == Decoded(p, names, given, Len(messages))
  <2>1. /\ loop = "demo" /\ phase = "ask" /\ iteration < MaxIterations
        /\ p \in Providers /\ (p # "gemini" => given)
        /\ Said(names, FALSE) /\ AskUnchanged
    BY <1>4 DEF DemoAnswers, TInv, TypeOK
  <2>2. IF names = <<>> THEN NoCalls /\ Leave(TRUE, None) /\ messages' = messages
        ELSE messages' = Append(messages, Assistant(p, calls)) /\ TakeCalls(calls)
    BY <1>4 DEF DemoAnswers
  <2>3. CASE names = <<>>
    BY <2>1, <2>2, <2>3
  <2>4. CASE names # <<>>
    BY <2>1, <2>2, <2>4
  <2> QED BY <2>3, <2>4
<1> HIDE DEF AnswerStep
<1>5. /\ TRUE \in BOOLEAN /\ FALSE \in BOOLEAN /\ \A x : (x = <<"done">>) \in BOOLEAN
      /\ None \in Errors /\ "no_json" \in Errors
      /\ "claude" \in Providers /\ "gemini" \in Providers /\ "ollama" \in Providers
  OBVIOUS
<1> DEFINE Goal == \E names \in NamesOf(loop), done \in BOOLEAN, success \in BOOLEAN,
                     error \in Errors, p \in Providers, given \in BOOLEAN :
                       AnswerStep(names, done, success, error, p, given)
<1>6. ASSUME NEW names \in NamesOf("claude"), NEW stop \in {"end_turn", "tool_use", "max_tokens"},
             NEW done \in BOOLEAN, ClaudeAnswers(names, stop, done)
      PROVE  Goal
  <2> DEFINE success == ClaudeSucceeds(stop, done)
  <2>1. /\ names \in NamesOf(loop) /\ success \in BOOLEAN
        /\ AnswerStep(names, done, success, None, "claude", TRUE)
    BY <1>1, <1>6
  <2> HIDE DEF success
  <2> USE <1>5, <2>1
  <2> WITNESS names \in NamesOf(loop), done \in BOOLEAN, success \in BOOLEAN, None \in Errors,
              "claude" \in Providers, TRUE \in BOOLEAN
  <2> QED OBVIOUS
<1>7. ASSUME NEW names \in NamesOf("gemini"), NEW done \in BOOLEAN, GeminiAnswers(names, done)
      PROVE  Goal
  BY <1>2, <1>5, <1>7, Zenon
<1>8. ASSUME NEW names \in OllamaParses, OllamaAnswers(names)
      PROVE  Goal
  BY <1>3, <1>5, <1>8, Zenon
<1>9. ASSUME NEW p \in up, NEW names \in NamesOf("demo"), NEW given \in BOOLEAN,
             DemoAnswers(p, names, given)
      PROVE  Goal
  <2>1. /\ names \in NamesOf(loop) /\ p \in Providers
        /\ AnswerStep(names, FALSE, TRUE, None, p, given)
    BY <1>4, <1>9
  <2> USE <1>5, <2>1
  <2> WITNESS names \in NamesOf(loop), FALSE \in BOOLEAN, TRUE \in BOOLEAN, None \in Errors,
              p \in Providers, given \in BOOLEAN
  <2> QED OBVIOUS
<1> QED BY <1>6, <1>7, <1>8, <1>9, Zenon DEF AnswerNext

(* What an answer says and asks for has its type, and is for the loop.     *)
LEMMA AnswerStepType ==
  ASSUME TInv, NEW names \in NamesOf(loop), NEW done \in BOOLEAN, NEW success \in BOOLEAN,
         NEW error \in Errors, NEW p \in Providers, NEW given \in BOOLEAN,
         AnswerStep(names, done, success, error, p, given)
  PROVE  /\ TInv' /\ names \in Seq(Asked(loop))
         /\ Decoded(p, names, given, Len(messages)) \in Seq(Call)
         /\ Len(Decoded(p, names, given, Len(messages))) = Len(names)
         /\ \A n \in 1 .. Len(names) :
              Decoded(p, names, given, Len(messages))[n]
                = [id |-> CallId(p, names[n], given, Len(messages), n), name |-> names[n]]
         /\ names = <<>> <=> Decoded(p, names, given, Len(messages)) = <<>>
<1> DEFINE turn  == Len(messages)
           calls == Decoded(p, names, given, turn)
<1>1. loop \in Loops /\ messages \in Seq(Messages) /\ Len(messages) \in Nat
  BY DEF TInv, TypeOK, Messages
<1>2. names \in Seq(Asked(loop)) /\ Asked(loop) \subseteq Names
  BY <1>1, NamesOfType, AskedAreNames
<1>3. /\ calls \in Seq(Call) /\ Len(calls) = Len(names)
      /\ \A n \in 1 .. Len(names) :
           calls[n] = [id |-> CallId(p, names[n], given, Len(messages), n), name |-> names[n]]
  <2> DEFINE S == Asked(loop)
  <2>1. names \in Seq(S) /\ S \subseteq Names /\ turn \in Nat
    BY <1>1, <1>2
  <2> HIDE DEF S, turn
  <2>2. calls \in Seq(Call)
    BY <2>1, DecodedType
  <2>3. Len(calls) = Len(names)
    BY <2>1, DecodedType
  <2>4. ASSUME NEW n \in 1 .. Len(names)
        PROVE  calls[n] = [id |-> CallId(p, names[n], given, turn, n), name |-> names[n]]
    BY <2>1 DEF Decoded
  <2> QED BY <2>2, <2>3, <2>4 DEF turn
<1>4. /\ phase = "ask" /\ iteration < MaxIterations /\ Said(names, done) /\ AskUnchanged
      /\ IF names = <<>> THEN NoCalls /\ Leave(success, error) ELSE TakeCalls(calls)
      /\ messages' = messages \/ messages' = Append(messages, Assistant(p, calls))
      /\ loop = "ollama" => Len(names) <= 1
  BY DEF AnswerStep
<1> HIDE DEF calls
<1>5. names = <<>> <=> calls = <<>>
  BY <1>2, <1>3, EmptySeq
<1>6. messages' \in Seq(Messages)
  <2>1. Assistant(p, calls) \in Messages
    BY <1>3, MessageTypes
  <2> QED BY <1>1, <1>4, <2>1
<1>7. TInv'
  BY <1>2, <1>3, <1>4, <1>5, <1>6, AnswerType
<1> QED BY <1>2, <1>3, <1>5, <1>7 DEF calls

LEMMA TInvNext == TInv /\ [Next]_vars => TInv'
<1> SUFFICES ASSUME TInv, [Next]_vars PROVE TInv'
  OBVIOUS
<1> USE DEF TInv
<1>1. ASSUME NoKey \/ StartRaises \/ DemoRaises \/ LogRaises PROVE TInv'
  <2>1. /\ UNCHANGED <<setting, talk, reports, run>>
        /\ phase' \in {"exited", "died"}
    BY <1>1 DEF NoKey, StartRaises, DemoRaises, LogRaises, Die
  <2> QED BY <2>1 DEF setting, talk, TypeOK, Standing, Messages, Final
<1>2. ASSUME NoSdk \/ DemoHasNobody \/ LoopRaises \/ Exhausted PROVE TInv'
  <2>1. /\ UNCHANGED <<setting, talk, reports>>
        /\ phase' = "returned" /\ run' \in RunResult
    <3>1. 0 \in Nat /\ iteration \in Nat /\ iteration + 1 \in Nat
      BY LoopsAssumption DEF TypeOK
    <3>2. UNCHANGED <<setting, talk, reports>>
      BY <1>2 DEF NoSdk, DemoHasNobody, LoopRaises, Exhausted
    <3>3. \A e \in {None, "max_iterations", "exception", "not_installed", "no_provider"} : e \in Errors
      BY DEF Errors
    <3>4. CASE Exhausted
      <4>1. \/ Return(TRUE, 0, None) \/ Return(FALSE, iteration + 1, "max_iterations")
            \/ Return(FALSE, iteration, "max_iterations")
        BY <3>4, Zenon DEF Exhausted
      <4>2. iteration \in Nat /\ tool_calls \in Nat
        BY LoopsAssumption DEF TypeOK
      <4>4. None \in Errors /\ "max_iterations" \in Errors
        BY <3>3
      <4>5. CASE Return(TRUE, 0, None)
        BY <3>2, <4>2, <4>4, <4>5 DEF Return, RunResult
      <4>6. CASE \E i \in Nat : Return(FALSE, i, "max_iterations")
        BY <3>2, <4>2, <4>4, <4>6 DEF Return, RunResult
      <4> QED BY <3>1, <4>1, <4>5, <4>6
    <3>5. CASE NoSdk
      BY <3>1, <3>3, <3>5, ReturnType, Zenon DEF NoSdk
    <3>6. CASE DemoHasNobody \/ LoopRaises
      BY <3>3, <3>6, LeaveType, Zenon DEF DemoHasNobody, LoopRaises
    <3> QED BY <1>2, <3>2, <3>4, <3>5, <3>6
  <2> QED BY <2>1 DEF setting, talk, TypeOK, Standing, Messages
<1>3. CASE Start
  <2>1. messages' = <<UserText>> /\ messages' \in Seq(Messages)
    BY <1>3, MessageTypes DEF Start
  <2> QED BY <1>3, <2>1 DEF Start, setting, TypeOK, Standing, Messages
<1>4. CASE AnswerNext
  <2>1. PICK names \in NamesOf(loop), done \in BOOLEAN, success \in BOOLEAN,
             error \in Errors, p \in Providers, given \in BOOLEAN :
               AnswerStep(names, done, success, error, p, given)
    BY <1>4, AnswersAreOne
  <2> QED BY <2>1, AnswerStepType
<1>5. ASSUME NEW kind \in {"ok", "error", "image"}, DemoExecutes(kind) PROVE TInv'
  <2>1. /\ phase = "act" /\ Answered(kind) /\ tool_calls' = tool_calls + 1
        /\ UNCHANGED <<loop, planned, up, model, transcript, gestures, reports>>
    BY <1>5 DEF DemoExecutes, Serving, setting
  <2>2. /\ Serve(kind) /\ todo # <<>>
        /\ messages' \in Seq(Messages) /\ iteration' \in 0 .. MaxIterations
        /\ \/ phase' = "ask" /\ todo' = <<>> /\ iteration' = iteration + 1
           \/ phase' = "act" /\ todo' # <<>> /\ UNCHANGED iteration
        /\ UNCHANGED run
    BY <2>1, AnsweredType DEF Standing
  <2>3. /\ todo' \in Seq(Call) /\ results' \in Seq(Result) /\ steps' = None /\ tool_calls' \in Nat
        /\ loop = "ollama" => Len(todo') <= 1
    BY <2>1, <2>2, ServeType DEF TypeOK, Standing
  <2> QED BY <2>1, <2>2, <2>3 DEF TypeOK, Standing, Messages
<1>6. CASE TakeUp
  <2>1. steps' \in Seq(Moves) /\ phase = "act" /\ loop # "demo"
    BY <1>6, GesturesType DEF TakeUp, Serving
  <2> QED BY <1>6, <2>1 DEF TakeUp, setting, TypeOK, Standing, Messages
<1>7. CASE Gesture
  <2>1. /\ phase = "act" /\ loop # "demo" /\ steps \in Seq(Moves) /\ steps # <<>>
        /\ steps' = Tail(steps) /\ gestures' = Append(gestures, Head(steps))
    BY <1>7 DEF Gesture, Serving
  <2>2. steps' \in Seq(Moves) /\ gestures' \in Seq(Moves)
    BY <2>1, HeadTailProperties DEF TypeOK
  <2> QED BY <1>7, <2>1, <2>2 DEF Gesture, setting, TypeOK, Standing, Messages
<1>8. CASE ActionDone
  <2>1. PICK kind \in {"ok", "error", "image"} : Answered(kind)
    BY <1>8 DEF ActionDone, AnswerKind
  <2>2. /\ phase = "act"
        /\ UNCHANGED <<loop, planned, up, model, transcript, gestures, tool_calls, reports>>
    BY <1>8 DEF ActionDone, Serving, setting
  <2>3. /\ Serve(kind) /\ todo # <<>>
        /\ messages' \in Seq(Messages) /\ iteration' \in 0 .. MaxIterations
        /\ \/ phase' = "ask" /\ todo' = <<>> /\ iteration' = iteration + 1
           \/ phase' = "act" /\ todo' # <<>> /\ UNCHANGED iteration
        /\ UNCHANGED run
    BY <2>1, <2>2, AnsweredType DEF Standing
  <2>4. /\ todo' \in Seq(Call) /\ results' \in Seq(Result) /\ steps' = None
        /\ loop = "ollama" => Len(todo') <= 1
    BY <2>3, ServeType DEF Standing
  <2> QED BY <2>2, <2>3, <2>4 DEF TypeOK, Standing, Messages
<1>10. ASSUME phase = "returned", reports' = Append(reports, run) PROVE reports' \in Seq(RunResult)
  BY <1>10 DEF TypeOK, Standing
<1>11. CASE NextTask
  BY <1>10, <1>11, LoopsAssumption, EmptySeq DEF NextTask, setting, TypeOK, Standing
<1>12. CASE Report
  BY <1>10, <1>12 DEF Report, setting, talk, TypeOK, Standing, Final
<1>13. CASE UNCHANGED vars
  BY <1>13 DEF vars, setting, talk, TypeOK, Standing, Messages
<1>14. CASE OllamaActionDone
  <2> DEFINE name == Head(todo).name
             ms   == Append(messages, Assistant("ollama", todo))
             kind == AnswerKind("ollama", name)
  <2>1. /\ phase = "act" /\ todo # <<>> /\ Serve(kind)
        /\ IF name \in {"done", "stuck"}
           THEN Leave(name = "done", None) /\ messages' = ms /\ UNCHANGED iteration
           ELSE NextRound(Append(ms, UserResults(results'))) /\ UNCHANGED run
        /\ UNCHANGED <<loop, planned, up, model, transcript, gestures, tool_calls, reports>>
    BY <1>14 DEF OllamaActionDone, Serving, setting, Standing
  <2>2. kind \in {"ok", "error", "image"}
    BY DEF AnswerKind
  <2> HIDE DEF kind, name
  <2>3. /\ todo' \in Seq(Call) /\ results' \in Seq(Result) /\ steps' = None
        /\ todo' = <<>> /\ Len(todo') <= 1
    BY <1>14, <2>1, <2>2, ServeType DEF OllamaActionDone, Serving, Standing
  <2>4. ms \in Seq(Messages)
    <3>1. Assistant("ollama", todo) \in Messages /\ messages \in Seq(Messages)
      BY MessageTypes DEF TypeOK, Providers, Messages
    <3> QED BY <3>1
  <2>5. CASE name \in {"done", "stuck"}
    <3>1. phase' = "returned" /\ run' \in RunResult
      BY <2>1, <2>5, LeaveType DEF Errors
    <3> QED BY <2>1, <2>3, <2>4, <2>5, <3>1 DEF TypeOK, Standing, Messages
  <2>6. CASE name \notin {"done", "stuck"}
    <3> DEFINE m == UserResults(results')
               ns == Append(ms, m)
    <3>1. ns \in Seq(Messages)
      <4>1. m \in Messages
        BY <2>3, MessageTypes
      <4> QED BY <2>4, <4>1
    <3>2. NextRound(ns) /\ UNCHANGED run
      BY <2>1, <2>6
    <3> HIDE DEF ns, m
    <3>3. /\ messages' \in Seq(Messages) /\ iteration' \in 0 .. MaxIterations
          /\ iteration' = iteration + 1 /\ phase' = "ask"
      BY <2>1, <3>1, <3>2, NextRoundType
    <3> QED BY <2>1, <2>3, <3>2, <3>3 DEF TypeOK, Standing, Messages
  <2> QED BY <2>5, <2>6
<1> QED BY <1>1, <1>2, <1>3, <1>4, <1>5, <1>6, <1>7, <1>8, <1>11, <1>12, <1>13, <1>14
        DEF Next, AnswerNext

-------------------------------------------------------------------------------
(* What was asked for, what was done, and what is left *)

AsksOf(l, calls) == FlattenSeq([i \in DOMAIN calls |-> Gestures(l, calls[i])])

(* The calls to serve are the last ones of the transcript, and those that  *)
(* were taken up are counted.                                              *)
Rounds ==
  LET calls == CallsOf(transcript)
  IN  /\ Len(todo) <= Len(calls)
      /\ \A i \in 1 .. Len(todo) : todo[i].name = calls[Len(calls) - Len(todo) + i]
      /\ tool_calls = Len(calls) - Len(todo) + (IF steps = None THEN 0 ELSE 1)
      /\ Len(results) + Len(todo) = IF transcript = <<>> THEN 0 ELSE Len(Last(transcript).calls)
      /\ loop = "ollama" /\ todo # <<>> =>
           (Last(transcript).done <=> todo[1].name = "done")

(* What was done, with what is left of the call that is served, is what    *)
(* the calls that were taken up ask for.                                   *)
Seen ==
  loop # "demo" =>
    gestures \o (IF steps = None THEN <<>> ELSE steps)
      = AsksOf(loop, SubSeq(CallsOf(transcript), 1, tool_calls))

LEMMA CallsOfEmpty == CallsOf(<<>>) = <<>>
<1> DEFINE s == [i \in DOMAIN <<>> |-> <<>>[i].calls]
<1>1. s = <<>>
  OBVIOUS
<1> HIDE DEF s
<1>2. FlattenSeq(s) = <<>>
  BY <1>1 DEF FlattenSeq
<1> QED BY <1>2 DEF s, CallsOf

LEMMA AppendIs ==
  ASSUME NEW S, NEW s \in Seq(S), NEW x \in S, NEW u \in [1 .. Len(s) + 1 -> S],
         u[Len(s) + 1] = x, \A i \in 1 .. Len(s) : u[i] = s[i]
  PROVE  u = Append(s, x)
<1>1. u \in Seq(S) /\ Len(u) = Len(s) + 1 /\ Len(s) \in Nat
  OBVIOUS
<1>2. \A i \in 1 .. Len(s) : Append(s, x)[i] = s[i]
  BY AppendProperties
<1>3. /\ Append(s, x) \in Seq(S) /\ Len(Append(s, x)) = Len(s) + 1
      /\ Append(s, x)[Len(s) + 1] = x
  BY AppendProperties
<1> DEFINE t == Append(s, x)
<1> HIDE DEF t
<1>4. \A i \in 1 .. Len(u) : u[i] = t[i]
  BY <1>1, <1>2, <1>3 DEF t
<1> QED BY <1>1, <1>3, <1>4, SeqEqual DEF t

LEMMA CallsOfType ==
  ASSUME NEW S, NEW t \in Seq([calls : Seq(S), done : BOOLEAN]),
         NEW a \in [calls : Seq(S), done : BOOLEAN]
  PROVE  CallsOf(t) \in Seq(S) /\ CallsOf(Append(t, a)) = CallsOf(t) \o a.calls
<1> DEFINE s == [i \in DOMAIN t |-> t[i].calls]
           u == [i \in DOMAIN Append(t, a) |-> Append(t, a)[i].calls]
           x == a.calls
           R == [calls : Seq(S), done : BOOLEAN]
           b == Append(t, a)
           n == Len(t)
<1>1. x \in Seq(S) /\ n \in Nat /\ \A r \in R : r.calls \in Seq(S)
  OBVIOUS
<1>2. /\ t \in Seq(R) /\ b \in Seq(R) /\ Len(b) = n + 1 /\ b[n + 1] = a
      /\ \A i \in 1 .. n : b[i] = t[i]
  <2>1. t \in Seq(R) /\ a \in R
    OBVIOUS
  <2> HIDE DEF R
  <2> QED BY <2>1
<1> HIDE DEF R, b
<1>3. s \in Seq(Seq(S)) /\ Len(s) = n /\ \A i \in 1 .. n : s[i] = t[i].calls
  <2>1. DOMAIN t = 1 .. n /\ \A i \in 1 .. n : t[i].calls \in Seq(S)
    BY <1>1, <1>2
  <2> DEFINE Q == Seq(S)
  <2>2. s = [i \in 1 .. n |-> t[i].calls]
    BY <2>1
  <2> HIDE DEF Q, s, n
  <2>3. s \in [1 .. n -> Q] /\ \A i \in 1 .. n : s[i] = t[i].calls
    BY <2>1, <2>2 DEF Q
  <2>4. s \in Seq(Q) /\ Len(s) = n
    BY <1>1, <2>3
  <2> QED BY <2>3, <2>4 DEF Q
<1>4. /\ u \in [1 .. n + 1 -> Seq(S)]
      /\ u[n + 1] = x /\ \A i \in 1 .. n : u[i] = s[i]
  BY <1>1, <1>2 DEF b
<1> HIDE DEF u, s, x, n
<1>5. u = Append(s, x)
  <2> DEFINE Q == Seq(S)
  <2>1. s \in Seq(Q) /\ x \in Q /\ u \in [1 .. Len(s) + 1 -> Q]
    BY <1>1, <1>3, <1>4
  <2> HIDE DEF Q
  <2> QED BY <1>3, <1>4, <2>1, AppendIs
<1>6. FlattenSeq(s) \in Seq(S) /\ FlattenSeq(u) = FlattenSeq(s) \o x
  BY <1>1, <1>3, <1>5, FlattenAppend
<1> QED BY <1>6 DEF u, s, x, CallsOf

LEMMA AsksAppend ==
  ASSUME NEW l, NEW S, NEW calls \in Seq(S), NEW name \in S
  PROVE  /\ AsksOf(l, calls) \in Seq(Moves)
         /\ AsksOf(l, Append(calls, name)) = AsksOf(l, calls) \o Gestures(l, name)
<1> DEFINE s == [i \in DOMAIN calls |-> Gestures(l, calls[i])]
           u == [i \in DOMAIN Append(calls, name) |-> Gestures(l, Append(calls, name)[i])]
           x == Gestures(l, name)
           n == Len(calls)
<1>1. x \in Seq(Moves) /\ n \in Nat
  BY GesturesType
<1>2. s \in Seq(Seq(Moves)) /\ Len(s) = n /\ \A i \in 1 .. n : s[i] = Gestures(l, calls[i])
  BY GesturesType
<1>3. /\ u \in [1 .. n + 1 -> Seq(Moves)]
      /\ u[n + 1] = x /\ \A i \in 1 .. n : u[i] = s[i]
  <2>1. DOMAIN Append(calls, name) = 1 .. n + 1
    OBVIOUS
  <2>2. Append(calls, name)[n + 1] = name /\ \A i \in 1 .. n : Append(calls, name)[i] = calls[i]
    OBVIOUS
  <2> QED BY <1>1, <2>1, <2>2, GesturesType
<1> HIDE DEF u, s, x, n
<1>4. u = Append(s, x)
  <2> DEFINE Q == Seq(Moves)
  <2>1. s \in Seq(Q) /\ x \in Q /\ u \in [1 .. Len(s) + 1 -> Q]
    BY <1>1, <1>2, <1>3
  <2> HIDE DEF Q
  <2> QED BY <1>2, <1>3, <2>1, AppendIs
<1>5. FlattenSeq(s) \in Seq(Moves) /\ FlattenSeq(u) = FlattenSeq(s) \o x
  BY <1>1, <1>2, <1>4, FlattenAppend
<1> QED BY <1>5 DEF u, s, x, AsksOf

LEMMA AsksType ==
  ASSUME NEW l, NEW S, NEW calls \in Seq(S)
  PROVE  AsksOf(l, calls) \in Seq(Moves)
<1> DEFINE s == [i \in DOMAIN calls |-> Gestures(l, calls[i])]
<1>1. s \in Seq(Seq(Moves)) /\ <<>> \in Seq(Moves)
  BY GesturesType, EmptySeq
<1> HIDE DEF s
<1>2. FlattenSeq(s) \in Seq(Moves)
  BY <1>1, FlattenAppend
<1> QED BY <1>2 DEF s, AsksOf

LEMMA AsksOfEmpty == ASSUME NEW l PROVE AsksOf(l, <<>>) = <<>>
<1> DEFINE s == [i \in DOMAIN <<>> |-> Gestures(l, <<>>[i])]
<1>1. s = <<>>
  OBVIOUS
<1> HIDE DEF s
<1>2. FlattenSeq(s) = <<>>
  BY <1>1 DEF FlattenSeq
<1> QED BY <1>2 DEF s, AsksOf

(* The first calls ask for the first gestures.                             *)
LEMMA AsksPrefix ==
  ASSUME NEW l, NEW S, NEW calls \in Seq(S), NEW k \in 0 .. Len(calls)
  PROVE  \E u \in Seq(Moves) : AsksOf(l, calls) = AsksOf(l, SubSeq(calls, 1, k)) \o u
<1> DEFINE Tells(j) == \E u \in Seq(Moves) :
                         AsksOf(l, SubSeq(calls, 1, j)) = AsksOf(l, SubSeq(calls, 1, k)) \o u
           m == Len(calls)
<1>0. m \in Nat /\ k \in 0 .. m /\ SubSeq(calls, 1, m) = calls
  OBVIOUS
<1> HIDE DEF m
<1>1. \A j \in 0 .. m : SubSeq(calls, 1, j) \in Seq(S) /\ AsksOf(l, SubSeq(calls, 1, j)) \in Seq(Moves)
  <2> SUFFICES ASSUME NEW j \in 0 .. m
               PROVE  SubSeq(calls, 1, j) \in Seq(S) /\ AsksOf(l, SubSeq(calls, 1, j)) \in Seq(Moves)
    OBVIOUS
  <2> DEFINE c == SubSeq(calls, 1, j)
  <2>1. c \in Seq(S)
    BY <1>0 DEF m
  <2> HIDE DEF c
  <2>2. AsksOf(l, c) \in Seq(Moves)
    BY <2>1, AsksType
  <2> QED BY <2>1, <2>2 DEF c
<1>2. Tells(k)
  <2> DEFINE a == AsksOf(l, SubSeq(calls, 1, k))
  <2>1. a \in Seq(Moves)
    BY <1>0, <1>1
  <2> HIDE DEF a
  <2>2. a = a \o <<>> /\ <<>> \in Seq(Moves)
    BY <2>1, ConcatEmptySeq, EmptySeq
  <2> QED BY <2>2 DEF a
<1>3. ASSUME NEW j \in k .. m - 1, Tells(j) PROVE Tells(j + 1)
  <2> DEFINE a == AsksOf(l, SubSeq(calls, 1, k))
             b == AsksOf(l, SubSeq(calls, 1, j))
             c == AsksOf(l, SubSeq(calls, 1, j + 1))
             g == Gestures(l, calls[j + 1])
  <2>1. PICK u \in Seq(Moves) : b = a \o u
    BY <1>3
  <2>2. c = b \o g
    <3>1. SubSeq(calls, 1, j + 1) = Append(SubSeq(calls, 1, j), calls[j + 1])
      BY <1>0 DEF m
    <3>2. calls[j + 1] \in S /\ SubSeq(calls, 1, j) \in Seq(S)
      BY <1>0, <1>1 DEF m
    <3> QED BY <3>1, <3>2, AsksAppend
  <2>3. a \in Seq(Moves) /\ g \in Seq(Moves)
    BY <1>0, <1>1, GesturesType
  <2> HIDE DEF a, b, c, g
  <2>4. u \in Seq(Moves)
    OBVIOUS
  <2>5. u \o g \in Seq(Moves)
    BY ONLY <2>3, <2>4, ConcatProperties
  <2>6. (a \o u) \o g = a \o (u \o g)
    BY ONLY <2>3, <2>4, ConcatAssociative
  <2>7. c = a \o (u \o g)
    BY ONLY <2>1, <2>2, <2>6
  <2> QED BY <2>5, <2>7 DEF a, c
<1> HIDE DEF Tells
<1> SUFFICES ASSUME ~Tells(m) PROVE FALSE
  BY <1>0 DEF Tells
<1> DEFINE T == {j \in Nat : j \in k .. m /\ ~Tells(j)}
<1>4. m \in T /\ T \subseteq Nat
  BY <1>0
<1>5. PICK j \in T : \A i \in T : ~(<<i, j>> \in OpToRel(<, Nat))
  <2> HIDE DEF T
  <2> QED BY <1>4, NatLessThanWellFounded, WFMin
<1>6. j \in k .. m /\ j \in Nat /\ ~Tells(j)
  OBVIOUS
<1>7. \A i \in T : ~(i < j)
  <2> HIDE DEF T
  <2> QED BY <1>4, <1>5, <1>6 DEF OpToRel
<1>8. j # k /\ j - 1 \in k .. m - 1 /\ j - 1 \in Nat
  BY <1>0, <1>2, <1>6
<1>9. Tells(j - 1)
  BY <1>0, <1>7, <1>8
<1>10. Tells((j - 1) + 1)
  BY <1>3, <1>8, <1>9
<1>11. (j - 1) + 1 = j
  BY <1>6
<1> QED BY <1>6, <1>10, <1>11

LEMMA CallsType == TypeOK => CallsOf(transcript) \in Seq(Asked(loop))
<1> SUFFICES ASSUME TypeOK PROVE CallsOf(transcript) \in Seq(Asked(loop))
  OBVIOUS
<1> DEFINE S == Asked(loop)
           a == [calls |-> <<>>, done |-> TRUE]
<1>1. transcript \in Seq([calls : Seq(S), done : BOOLEAN])
  BY DEF TypeOK
<1>2. a \in [calls : Seq(S), done : BOOLEAN]
  BY EmptySeq
<1> HIDE DEF S, a
<1>3. CallsOf(transcript) \in Seq(S)
  BY <1>1, <1>2, CallsOfType
<1> QED BY <1>3 DEF S

(* What an answer says is added to the calls.                              *)
LEMMA CallsOfSaid ==
  ASSUME TypeOK, NEW names \in Seq(Asked(loop)), NEW done \in BOOLEAN, Said(names, done)
  PROVE  CallsOf(transcript)' = CallsOf(transcript) \o names
<1> DEFINE S == Asked(loop)
           a == [calls |-> names, done |-> done]
<1>1. /\ transcript \in Seq([calls : Seq(S), done : BOOLEAN]) /\ a.calls = names
      /\ transcript' = Append(transcript, a)
  BY DEF TypeOK, Said
<1>2. a \in [calls : Seq(S), done : BOOLEAN]
  OBVIOUS
<1> HIDE DEF S, a
<1>3. CallsOf(Append(transcript, a)) = CallsOf(transcript) \o names
  BY <1>1, <1>2, CallsOfType
<1>4. CallsOf(transcript)' = CallsOf(transcript')
  BY DEF CallsOf
<1> QED BY <1>1, <1>3, <1>4

LEMMA RoundsKept ==
  ASSUME Rounds, UNCHANGED <<loop, transcript, todo, steps, results, tool_calls>>
  PROVE  Rounds'
BY DEF Rounds, CallsOf, Last

LEMMA RoundsAnswer ==
  ASSUME TInv, Rounds, NEW names \in NamesOf(loop), NEW done \in BOOLEAN, NEW success \in BOOLEAN,
         NEW error \in Errors, NEW p \in Providers, NEW given \in BOOLEAN,
         AnswerStep(names, done, success, error, p, given)
  PROVE  Rounds'
<1> DEFINE d == Decoded(p, names, given, Len(messages))
           C == CallsOf(transcript)
           D1 == CallsOf(transcript)'
<1>1. /\ names \in Seq(Asked(loop)) /\ Len(d) = Len(names)
      /\ \A n \in 1 .. Len(names) : d[n].name = names[n]
      /\ d = <<>> <=> names = <<>>
  <2>1. names \in Seq(Asked(loop)) /\ Len(d) = Len(names)
    BY AnswerStepType
  <2>2. \A n \in 1 .. Len(names) : d[n].name = names[n]
    BY <2>1 DEF Decoded
  <2>3. d = <<>> <=> names = <<>>
    BY AnswerStepType
  <2> QED BY <2>1, <2>2, <2>3
<1>2. /\ phase = "ask" /\ Said(names, done) /\ AskUnchanged
      /\ todo' = d /\ results' = <<>>
      /\ loop = "ollama" => Len(names) <= 1 /\ (done <=> names = <<"done">>)
  BY <1>1 DEF AnswerStep, NoCalls, TakeCalls
<1>3. /\ UNCHANGED <<loop, steps, tool_calls>> /\ todo = <<>> /\ steps = None
  BY <1>2 DEF AskUnchanged, setting, TInv, Standing
<1>4. C \in Seq(Asked(loop)) /\ D1 = C \o names
  BY <1>1, <1>2, CallsType, CallsOfSaid DEF TInv
<1>5. /\ Len(D1) = Len(C) + Len(names) /\ Len(C) \in Nat /\ Len(names) \in Nat
      /\ \A i \in 1 .. Len(names) : D1[Len(C) + i] = names[i]
  <2> HIDE DEF C, D1
  <2>1. /\ Len(C \o names) = Len(C) + Len(names) /\ Len(C) \in Nat /\ Len(names) \in Nat
        /\ \A i \in 1 .. Len(C) + Len(names) : (C \o names)[i] = IF i <= Len(C) THEN C[i] ELSE names[i - Len(C)]
    BY <1>1, <1>4, ConcatProperties
  <2> QED BY <1>4, <2>1
<1>6. /\ transcript' # <<>> /\ Last(transcript)' = [calls |-> names, done |-> done]
  BY <1>1, <1>2, SaidType, EmptySeq DEF Last, TInv, TypeOK
<1>7. tool_calls = Len(C)
  BY <1>3, <1>5 DEF Rounds
<1> HIDE DEF d, C, D1
<1>8. /\ Len(todo') <= Len(D1)
      /\ \A i \in 1 .. Len(todo') : todo'[i].name = D1[Len(D1) - Len(todo') + i]
      /\ tool_calls' = Len(D1) - Len(todo') + (IF steps' = None THEN 0 ELSE 1)
  <2>1. Len(todo') = Len(names) /\ Len(D1) - Len(todo') = Len(C) /\ Len(todo') <= Len(D1)
    <3>1. Len(todo') = Len(names)
      BY <1>1, <1>2
    <3>2. Len(C) \in Nat /\ Len(names) \in Nat /\ Len(D1) = Len(C) + Len(names)
      BY <1>5
    <3> QED BY <3>1, <3>2
  <2>2. \A i \in 1 .. Len(todo') : todo'[i].name = D1[Len(C) + i]
    BY <1>1, <1>2, <1>5, <2>1
  <2>3. tool_calls' = Len(C) + (IF steps' = None THEN 0 ELSE 1)
    BY <1>3, <1>5, <1>7
  <2> QED BY <2>1, <2>2, <2>3
<1>9. Len(results') + Len(todo') = IF transcript' = <<>> THEN 0 ELSE Len(Last(transcript)'.calls)
  BY <1>1, <1>2, <1>5, <1>6
<1>10. ASSUME loop' = "ollama", todo' # <<>>
       PROVE  Last(transcript)'.done <=> todo'[1].name = "done"
  <2>1. Len(names) = 1
    BY <1>1, <1>2, <1>3, <1>5, <1>10, EmptySeq
  <2>2. names = <<"done">> <=> names[1] = "done"
    BY <1>1, <2>1
  <2> QED BY <1>1, <1>2, <1>3, <1>6, <1>10, <2>1, <2>2
<1> QED BY <1>8, <1>9, <1>10 DEF Rounds, D1

LEMMA RoundsServe ==
  ASSUME TInv, Rounds, todo # <<>>, NEW kind \in {"ok", "error", "image"}, Serve(kind),
         UNCHANGED <<loop, transcript>>,
         tool_calls' = tool_calls + (IF steps = None THEN 1 ELSE 0)
  PROVE  Rounds'
<1> DEFINE C == CallsOf(transcript)
           m == Len(todo)
           n == Len(todo')
<1>1. /\ todo' \in Seq(Call) /\ n = m - 1 /\ \A i \in 1 .. n : todo'[i] = todo[i + 1]
      /\ Len(results') = Len(results) + 1 /\ steps' = None
      /\ m <= 1 => todo' = <<>>
  BY ServeType DEF TInv
<1>2. m \in Nat /\ n \in Nat /\ Len(C) \in Nat /\ Len(results) \in Nat
  BY <1>1, CallsType DEF TInv, TypeOK
<1>3. C' = C /\ Last(transcript)' = Last(transcript)
  BY DEF CallsOf, Last
<1>4. /\ m <= Len(C) /\ \A i \in 1 .. m : todo[i].name = C[Len(C) - m + i]
      /\ tool_calls = Len(C) - m + (IF steps = None THEN 0 ELSE 1)
      /\ Len(results) + m = IF transcript = <<>> THEN 0 ELSE Len(Last(transcript).calls)
  BY DEF Rounds
<1> HIDE DEF C, m, n
<1>5. ASSUME NEW i \in 1 .. n PROVE todo'[i].name = C[Len(C) - n + i]
  <2>1. i + 1 \in 1 .. m /\ Len(C) - m + (i + 1) = Len(C) - n + i
    BY <1>1, <1>2
  <2> QED BY <1>1, <1>4, <2>1
<1>6. /\ n <= Len(C) /\ tool_calls' = Len(C) - n + (IF steps' = None THEN 0 ELSE 1)
      /\ Len(results') + n = IF transcript' = <<>> THEN 0 ELSE Len(Last(transcript)'.calls)
  <2>1. n <= Len(C) /\ tool_calls' = Len(C) - n + (IF steps' = None THEN 0 ELSE 1)
    BY <1>1, <1>2, <1>4
  <2>2. Len(results') + n = Len(results) + m
    BY <1>1, <1>2
  <2> QED BY <1>3, <1>4, <2>1, <2>2
<1>7. loop = "ollama" => todo' = <<>>
  BY <1>1 DEF TInv, Standing, m
<1> QED BY <1>3, <1>5, <1>6, <1>7 DEF Rounds, C, n

(* A step that serves a call, in any loop: its kind, and what it counts.   *)
LEMMA ServesAre ==
  ASSUME TInv, (\E kind \in {"ok", "error", "image"} : DemoExecutes(kind))
                 \/ ActionDone \/ OllamaActionDone
  PROVE  /\ \E kind \in {"ok", "error", "image"} : Serve(kind)
         /\ phase = "act" /\ todo # <<>> /\ UNCHANGED <<setting, transcript, gestures, reports>>
         /\ tool_calls' = tool_calls + (IF steps = None THEN 1 ELSE 0)
         /\ loop # "demo" => steps = <<>>
<1>1. <<>> # None /\ tool_calls \in Nat
  BY LoopsAssumption, EmptySeq DEF TInv, TypeOK
<1>2. ASSUME NEW kind \in {"ok", "error", "image"}, DemoExecutes(kind)
      PROVE  /\ Serve(kind) /\ phase = "act" /\ todo # <<>> /\ steps = None /\ loop = "demo"
             /\ UNCHANGED <<setting, transcript, gestures, reports>>
             /\ tool_calls' = tool_calls + 1
  BY <1>2 DEF DemoExecutes, Serving, Answered, TInv, Standing
<1>3. AnswerKind(loop, Head(todo).name) \in {"ok", "error", "image"}
  BY DEF AnswerKind
<1>4. ASSUME ActionDone \/ OllamaActionDone
      PROVE  /\ Serve(AnswerKind(loop, Head(todo).name)) /\ phase = "act" /\ todo # <<>>
             /\ steps = <<>> /\ UNCHANGED <<setting, transcript, gestures, reports, tool_calls>>
  BY <1>4 DEF ActionDone, OllamaActionDone, Serving, Answered, TInv, Standing
<1>5. CASE \E kind \in {"ok", "error", "image"} : DemoExecutes(kind)
  BY <1>1, <1>2, <1>5
<1>6. CASE ActionDone \/ OllamaActionDone
  BY <1>1, <1>3, <1>4, <1>6
<1> QED BY <1>5, <1>6

RoundsNextSteps ==
  \/ NoKey \/ NoSdk \/ StartRaises \/ Start \/ DemoRaises \/ DemoHasNobody \/ LoopRaises
  \/ Exhausted \/ LogRaises \/ Report

(* The steps in which nothing is answered, served or done.                 *)
LEMMA TalkKept ==
  ASSUME RoundsNextSteps \/ UNCHANGED vars
  PROVE  UNCHANGED <<loop, transcript, todo, steps, results, gestures, iteration, tool_calls>>
<1>1. CASE UNCHANGED vars
  BY <1>1 DEF vars, setting, talk
<1>2. CASE RoundsNextSteps
  BY <1>2 DEF RoundsNextSteps, NoKey, NoSdk, StartRaises, Start, DemoRaises, DemoHasNobody,
     LoopRaises, Exhausted, LogRaises, Report, setting, talk
<1> QED BY <1>1, <1>2

LEMMA RoundsEmpty ==
  ASSUME transcript = <<>>, todo = <<>>, steps = None, results = <<>>, tool_calls = 0
  PROVE  Rounds
<1>1. CallsOf(transcript) = <<>>
  BY CallsOfEmpty
<1>2. Len(<<>>) = 0
  OBVIOUS
<1> QED BY <1>1, <1>2 DEF Rounds

LEMMA RoundsNext == TInv /\ Rounds /\ [Next]_vars => Rounds'
<1> SUFFICES ASSUME TInv, Rounds, [Next]_vars PROVE Rounds'
  OBVIOUS
<1>1. CASE RoundsNextSteps \/ UNCHANGED vars
  BY <1>1, TalkKept, RoundsKept
<1>2. CASE AnswerNext
  BY <1>2, AnswersAreOne, RoundsAnswer
<1>3. CASE (\E kind \in {"ok", "error", "image"} : DemoExecutes(kind))
             \/ ActionDone \/ OllamaActionDone
  <2>1. /\ \E kind \in {"ok", "error", "image"} : Serve(kind)
        /\ todo # <<>> /\ UNCHANGED <<loop, transcript>>
        /\ tool_calls' = tool_calls + (IF steps = None THEN 1 ELSE 0)
    BY <1>3, ServesAre DEF setting
  <2> QED BY <2>1, RoundsServe
<1>4. CASE TakeUp
  <2>1. /\ steps = None /\ steps' # None /\ tool_calls' = tool_calls + 1
        /\ UNCHANGED <<loop, transcript, todo, results>>
    BY <1>4, LoopsAssumption, GesturesType DEF TakeUp, setting
  <2>2. CallsOf(transcript)' = CallsOf(transcript) /\ Last(transcript)' = Last(transcript)
    BY <2>1 DEF CallsOf, Last
  <2>3. Len(CallsOf(transcript)) \in Nat /\ Len(todo) \in Nat
    BY CallsType DEF TInv, TypeOK
  <2> QED BY <2>1, <2>2, <2>3 DEF Rounds
<1>5. CASE Gesture
  <2>1. /\ steps \in Seq(Moves) /\ steps # <<>> /\ steps' = Tail(steps)
        /\ UNCHANGED <<loop, transcript, todo, results, tool_calls>>
    BY <1>5 DEF Gesture, setting, TInv
  <2>2. steps # None /\ steps' # None
    BY <2>1, LoopsAssumption
  <2>3. CallsOf(transcript)' = CallsOf(transcript) /\ Last(transcript)' = Last(transcript)
    BY <2>1 DEF CallsOf, Last
  <2> QED BY <2>1, <2>2, <2>3 DEF Rounds
<1>6. CASE NextTask
  <2>1. (/\ transcript = <<>> /\ todo = <<>> /\ steps = None /\ results = <<>>
         /\ tool_calls = 0)'
    BY <1>6 DEF NextTask
  <2> QED BY <2>1, RoundsEmpty, PTL
<1> QED BY <1>1, <1>2, <1>3, <1>4, <1>5, <1>6 DEF Next, AnswerNext, RoundsNextSteps

-------------------------------------------------------------------------------
(* The report *)

(* What is reported does not change after the loop has returned.           *)

(* A loop of the prototype that returns reports what its state shows.      *)
LEMMA ReportOf ==
  ASSUME TypeOK', Rounds', loop' # "demo",
         NEW success \in BOOLEAN, NEW i, NEW error,
         run' = [success |-> success, iterations |-> i, tool_calls |-> tool_calls', error |-> error],
         \/ i = Len(transcript')
         \/ /\ i = Len(transcript') + 1
            /\ error = "exception" \/ (loop' = "ollama" /\ error = "max_iterations"),
         steps' # None <=> error = "exception" /\ todo' # <<>>,
         success => /\ error = None /\ transcript' # <<>> /\ Last(transcript').done
                    /\ todo' = <<>>
  PROVE  ReportIsTrue'
<1>1. /\ run'.success = success /\ run'.iterations = i /\ run'.tool_calls = tool_calls'
      /\ run'.error = error
  OBVIOUS
<1>2. tool_calls' = Len(CallsOf(transcript')) - Len(todo') + (IF steps' = None THEN 0 ELSE 1)
  BY DEF Rounds, CallsOf
<1>3. run'.tool_calls = Len(CallsOf(transcript')) - Len(todo')
                          + (IF run'.error = "exception" /\ todo' # <<>> THEN 1 ELSE 0)
  BY <1>1, <1>2
<1>4. \/ run'.iterations = Len(transcript')
      \/ /\ run'.iterations = Len(transcript') + 1
         /\ run'.error = "exception" \/ (loop' = "ollama" /\ run'.error = "max_iterations")
  BY <1>1
<1>5. run'.success => /\ run'.error = None /\ transcript' # <<>> /\ Last(transcript').done
                      /\ todo' = <<>>
  BY <1>1
<1> QED BY <1>3, <1>4, <1>5 DEF ReportIsTrue, CallsOf, Last

LEMMA ReportNext ==
  TInv /\ TInv' /\ Rounds /\ Rounds' /\ ReportIsTrue /\ [Next]_vars => ReportIsTrue'
<1> SUFFICES ASSUME TInv, TInv', Rounds, Rounds', ReportIsTrue, [Next]_vars,
                    phase' = "returned", loop' # "demo", run'.error # "not_installed"
             PROVE  ReportIsTrue'
  BY DEF ReportIsTrue
<1> USE DEF TInv
<1>0. iteration \in Nat /\ None \in Errors
  BY LoopsAssumption DEF TypeOK, Errors
<1>1. CASE UNCHANGED vars
  BY <1>1 DEF vars, setting, talk, ReportIsTrue, CallsOf, Last
<1>2. CASE NoKey \/ NoSdk \/ StartRaises \/ Start \/ DemoRaises \/ DemoHasNobody \/ LogRaises
             \/ NextTask \/ Report
  <2>1. CASE NoSdk
    BY <2>1 DEF NoSdk, Return
  <2>2. CASE DemoHasNobody
    BY <2>2 DEF DemoHasNobody, Asking, setting
  <2>3. CASE NoKey \/ StartRaises \/ Start \/ DemoRaises \/ LogRaises \/ NextTask \/ Report
    BY <2>3 DEF NoKey, StartRaises, Start, DemoRaises, LogRaises, NextTask, Report, Die
  <2> QED BY <1>2, <2>1, <2>2, <2>3
<1>3. CASE AnswerNext
  <2>1. PICK names \in NamesOf(loop), done \in BOOLEAN, success \in BOOLEAN,
             error \in Errors, p \in Providers, given \in BOOLEAN :
               AnswerStep(names, done, success, error, p, given)
    BY <1>3, AnswersAreOne
  <2>2. /\ phase = "ask" /\ names = <<>> /\ Said(names, done) /\ AskUnchanged /\ todo' = <<>>
        /\ Leave(success, error) /\ error \in {None, "no_json"}
        /\ loop # "demo" /\ success => done /\ error = None
    BY <2>1 DEF AnswerStep, TakeCalls, NoCalls
  <2>3. /\ loop' = loop /\ steps' = None /\ tool_calls' = tool_calls
        /\ Len(transcript) = iteration
    BY <2>2 DEF AskUnchanged, setting, Standing
  <2>4. names \in Seq(Asked(loop))
    BY <2>1, AnswerStepType
  <2>5. /\ Len(transcript') = iteration + 1 /\ transcript' # <<>>
        /\ Last(transcript') = [calls |-> names, done |-> done]
    <3>1. /\ transcript' \in Seq([calls : Seq(Asked(loop)), done : BOOLEAN])
          /\ Len(transcript') = Len(transcript) + 1
          /\ transcript'[Len(transcript')] = [calls |-> names, done |-> done]
      BY <2>2, <2>4, SaidType
    <3>2. Len(transcript') = iteration + 1 /\ Len(transcript') # 0
      BY <1>0, <2>3, <3>1
    <3> QED BY <3>1, <3>2 DEF Last
  <2>6. run' = [success |-> success, iterations |-> Len(transcript'), tool_calls |-> tool_calls',
                error |-> error]
    BY <2>2, <2>3, <2>5 DEF Leave, Return
  <2> QED BY <2>2, <2>3, <2>5, <2>6, ReportOf
<1>4. CASE LoopRaises
  <2>1. /\ UNCHANGED <<loop, transcript, todo, steps, tool_calls>>
        /\ run' = [success |-> FALSE, iterations |-> iteration + 1, tool_calls |-> tool_calls',
                   error |-> "exception"]
        /\ (phase = "ask" \/ (phase = "act" /\ steps # None))
    BY <1>4 DEF LoopRaises, Leave, Return, setting, talk
  <2>2. steps' # None <=> todo' # <<>>
    BY <2>1 DEF Standing
  <2>3. \/ iteration + 1 = Len(transcript') \/ iteration + 1 = Len(transcript') + 1
    BY <2>1 DEF Standing
  <2> QED BY <2>1, <2>2, <2>3, ReportOf
<1>5. CASE Exhausted
  <2>1. /\ UNCHANGED <<loop, transcript, todo, steps, tool_calls>> /\ phase = "ask"
        /\ \/ loop = "ollama" /\ Return(FALSE, iteration + 1, "max_iterations")
           \/ Return(FALSE, iteration, "max_iterations")
    <3>1. /\ UNCHANGED <<setting, talk>> /\ phase = "ask"
      BY <1>5 DEF Exhausted
    <3>2. loop # "demo"
      BY <3>1 DEF setting
    <3>3. \/ loop = "ollama" /\ Return(FALSE, iteration + 1, "max_iterations")
          \/ Return(FALSE, iteration, "max_iterations")
      BY <1>5, <3>2, Zenon DEF Exhausted
    <3> QED BY <3>1, <3>3 DEF setting, talk
  <2>2. todo' = <<>> /\ steps' = None /\ iteration = Len(transcript')
    BY <2>1 DEF Standing
  <2>3. PICK i : /\ run' = [success |-> FALSE, iterations |-> i, tool_calls |-> tool_calls',
                            error |-> "max_iterations"]
                 /\ i = Len(transcript') \/ (i = Len(transcript') + 1 /\ loop' = "ollama")
    BY <2>1, <2>2 DEF Return
  <2> QED BY <2>2, <2>3, ReportOf
<1>6. CASE (\E kind \in {"ok", "error", "image"} : DemoExecutes(kind)) \/ TakeUp \/ Gesture
             \/ ActionDone
  BY <1>6 DEF DemoExecutes, TakeUp, Gesture, ActionDone, Answered, NextRound, Serving
<1>7. CASE OllamaActionDone
  <2> DEFINE name == Head(todo).name
  <2>1. /\ phase = "act" /\ loop = "ollama" /\ todo # <<>> /\ Leave(name = "done", None)
        /\ name \in {"done", "stuck"}
        /\ UNCHANGED <<loop, transcript, tool_calls>> /\ Serve(AnswerKind("ollama", name))
    BY <1>7 DEF OllamaActionDone, Serving, setting, NextRound, Standing
  <2>2. AnswerKind("ollama", name) \in {"ok", "error", "image"}
    BY DEF AnswerKind
  <2>3. todo' = <<>> /\ steps' = None
    <3> DEFINE kind == AnswerKind("ollama", name)
    <3> HIDE DEF kind
    <3>1. Serve(kind) /\ kind \in {"ok", "error", "image"}
      BY <2>1, <2>2 DEF kind
    <3> QED BY <2>1, <3>1, ServeType DEF Standing
  <2>4. Last(transcript').done <=> name = "done"
    <3>1. Last(transcript).done <=> todo[1].name = "done"
      BY <2>1 DEF Rounds
    <3>2. Head(todo) = todo[1]
      BY <2>1 DEF TypeOK
    <3> QED BY <2>1, <3>1, <3>2
  <2>5. Len(transcript') = iteration + 1 /\ transcript' # <<>>
    BY <1>0, <2>1, EmptySeq DEF Standing
  <2> DEFINE success == name = "done"
  <2>6. /\ success \in BOOLEAN
        /\ run' = [success |-> success, iterations |-> Len(transcript'),
                   tool_calls |-> tool_calls', error |-> None]
    BY <2>1, <2>5 DEF Leave, Return
  <2>7. success => Last(transcript').done
    BY <2>4
  <2> HIDE DEF success, name
  <2> QED BY <2>1, <2>3, <2>5, <2>6, <2>7, ReportOf
<1> QED BY <1>1, <1>2, <1>3, <1>4, <1>5, <1>6, <1>7 DEF Next, AnswerNext

-------------------------------------------------------------------------------
(* The dialogue *)

Over == phase \in {"returned"} \cup Final

AnswersOf(t) == [i \in DOMAIN t |-> t[i].calls]

LEMMA NotOver ==
  /\ phase \in {"start", "ask", "act"} => ~Over
  /\ phase \in {"returned", "exited", "died", "reported"} => Over
BY DEF Over, Final

(* Between the answers and the services, Open is: there are calls to serve. *)
LEMMA OpenIs == TInv /\ Rounds => (D!Open <=> todo # <<>>)
<1> SUFFICES ASSUME TInv, Rounds PROVE D!Open <=> todo # <<>>
  OBVIOUS
<1> DEFINE T == [calls : Seq(Asked(loop)), done : BOOLEAN]
           a == AnswersOf(transcript)
<1>1. transcript \in Seq(T) /\ Len(results) \in Nat /\ Len(todo) \in Nat /\ todo \in Seq(Call)
  BY DEF TInv, TypeOK
<1>2. todo # <<>> <=> Len(todo) # 0
  BY <1>1, EmptySeq
<1>3. Len(results) + Len(todo) = IF transcript = <<>> THEN 0 ELSE Len(Last(transcript).calls)
  BY DEF Rounds
<1>4. CASE transcript = <<>>
  <2>1. a = <<>>
    BY <1>4 DEF AnswersOf
  <2>2. ~D!Open
    BY <2>1 DEF D!Open, AnswersOf
  <2> QED BY <1>1, <1>2, <1>3, <1>4, <2>2
<1>5. CASE transcript # <<>>
  <2>1. Len(transcript) \in Nat \ {0} /\ Len(transcript) \in DOMAIN transcript
    <3> HIDE DEF T
    <3> QED BY <1>1, <1>5, EmptySeq
  <2>2. a # <<>> /\ Len(a) = Len(transcript) /\ a[Len(a)] = Last(transcript).calls
    <3> HIDE DEF T
    <3> QED BY <1>1, <2>1 DEF AnswersOf, Last
  <2>3. D!Open <=> a # <<>> /\ Len(results) < Len(a[Len(a)])
    BY DEF D!Open, AnswersOf
  <2> HIDE DEF a
  <2>4. Len(results) + Len(todo) = Len(a[Len(a)])
    BY <1>3, <1>5, <2>2
  <2> QED BY <1>1, <1>2, <2>2, <2>3, <2>4
<1> QED BY <1>4, <1>5

LEMMA DialogueKept ==
  ASSUME UNCHANGED <<transcript, results>>, Over' <=> Over
  PROVE  UNCHANGED D!vars
BY DEF D!vars, Over

(* The program gives up, before or after an answer.                        *)
LEMMA DialogueEnds ==
  ASSUME UNCHANGED <<transcript, results>>, ~Over, Over'
  PROVE  D!GiveUp
BY DEF D!GiveUp, Over

(* A call is served.                                                       *)
LEMMA DialogueServes ==
  ASSUME TInv, Rounds, phase = "act", NEW kind \in {"ok", "error", "image"}, Serve(kind),
         UNCHANGED transcript
  PROVE  D!Serve
<1>1. todo # <<>> /\ ~Over
  BY NotOver DEF TInv, Standing
<1>2. D!Open
  BY <1>1, OpenIs
<1>3. Len(results') = Len(results) + 1
  BY <1>1, ServeType DEF TInv
<1>4. (phase \in {"returned"} \cup Final)' \in BOOLEAN
  OBVIOUS
<1> QED BY <1>1, <1>2, <1>3, <1>4 DEF D!Serve, Over

LEMMA DialogueAnswers ==
  ASSUME TInv, Rounds, NEW names \in NamesOf(loop), NEW done \in BOOLEAN, NEW success \in BOOLEAN,
         NEW error \in Errors, NEW p \in Providers, NEW given \in BOOLEAN,
         AnswerStep(names, done, success, error, p, given)
  PROVE  D!Next
<1>1. /\ phase = "ask" /\ iteration < MaxIterations /\ Said(names, done) /\ results' = <<>>
      /\ names = <<>> => phase' = "returned"
  BY DEF AnswerStep, NoCalls, TakeCalls, Leave, Return
<1>2. /\ loop \in Loops /\ names \in Seq(Asked(loop))
      /\ todo = <<>> /\ Len(transcript) = iteration
  BY <1>1, AnswerStepType DEF TInv, TypeOK, Standing
<1>3. names \in UNION {NamesOf(l) : l \in Loops}
  BY <1>2
<1>4. ~Over /\ ~D!Open
  BY <1>1, <1>2, NotOver, OpenIs
<1> DEFINE a == AnswersOf(transcript)
           b == AnswersOf(transcript')
           T == [calls : Seq(Asked(loop)), done : BOOLEAN]
<1>5. /\ transcript \in Seq(T) /\ transcript' \in Seq(T) /\ Len(transcript') = Len(transcript) + 1
      /\ transcript'[Len(transcript')] = [calls |-> names, done |-> done]
      /\ \A i \in 1 .. Len(transcript) : transcript'[i] = transcript[i]
  BY <1>1, <1>2, SaidType DEF TInv, TypeOK
<1>6. b = Append(a, names) /\ Len(a) = iteration
  <2> DEFINE Q == Seq(Asked(loop))
             n == Len(transcript)
  <2>1. n \in Nat /\ names \in Q /\ \A r \in T : r.calls \in Q
    BY <1>2, <1>5
  <2> HIDE DEF T
  <2>2. /\ DOMAIN transcript = 1 .. n /\ DOMAIN transcript' = 1 .. n + 1
        /\ \A i \in 1 .. n : transcript[i] \in T
        /\ \A i \in 1 .. n + 1 : transcript'[i] \in T
    BY <1>5, <2>1
  <2> HIDE DEF Q, n
  <2>3. a \in [1 .. n -> Q] /\ \A i \in 1 .. n : a[i] = transcript[i].calls
    BY <2>1, <2>2 DEF AnswersOf
  <2>4. /\ b \in [1 .. n + 1 -> Q] /\ b[n + 1] = names
        /\ \A i \in 1 .. n : b[i] = transcript[i].calls
    BY <1>5, <2>1, <2>2 DEF AnswersOf, n
  <2> HIDE DEF a, b
  <2>5. a \in Seq(Q) /\ Len(a) = n
    BY <2>1, <2>3
  <2>6. b = Append(a, names)
    BY <2>1, <2>3, <2>4, <2>5, AppendIs
  <2> QED BY <1>2, <2>5, <2>6 DEF n
<1>7. D!Answer(names)
  <2>1. ~(phase \in {"returned"} \cup Final) /\ ~D!Open
    BY <1>4 DEF Over
  <2>2. a = [i \in DOMAIN transcript |-> transcript[i].calls]
        /\ b = [i \in DOMAIN transcript |-> transcript[i].calls]'
    BY DEF AnswersOf
  <2>3. Len([i \in DOMAIN transcript |-> transcript[i].calls]) < MaxIterations
    BY <1>1, <1>6, <2>2
  <2>4. [i \in DOMAIN transcript |-> transcript[i].calls]'
          = Append([i \in DOMAIN transcript |-> transcript[i].calls], names)
    BY <1>6, <2>2
  <2>5. Len(results)' = 0
    BY <1>1
  <2>6. (phase \in {"returned"} \cup Final)' \in BOOLEAN
    OBVIOUS
  <2>7. names = <<>> => (phase \in {"returned"} \cup Final)'
    BY <1>1 DEF Final
  <2> QED BY <2>1, <2>3, <2>4, <2>5, <2>6, <2>7, Zenon DEF D!Answer
<1> QED BY <1>3, <1>7 DEF D!Next

LEMMA DialogueNext == TInv /\ TInv' /\ Rounds /\ [Next]_vars => [D!Next]_(D!vars)
<1> SUFFICES ASSUME TInv, TInv', Rounds, [Next]_vars PROVE D!Next \/ UNCHANGED D!vars
  OBVIOUS
<1>1. CASE UNCHANGED vars
  <2>1. UNCHANGED <<transcript, results>> /\ (Over' <=> Over)
    BY <1>1 DEF vars, talk, Over
  <2> QED BY <2>1, DialogueKept
<1>2. CASE AnswerNext
  BY <1>2, AnswersAreOne, DialogueAnswers
<1>3. CASE NoKey \/ NoSdk \/ StartRaises \/ DemoRaises \/ DemoHasNobody \/ LoopRaises \/ Exhausted
  <2>1. /\ UNCHANGED <<transcript, results>> /\ phase \in {"start", "ask", "act"}
        /\ phase' \in {"exited", "died", "returned"}
    <3>1. CASE Exhausted
      <4>1. UNCHANGED talk /\ phase = "ask"
        BY <3>1 DEF Exhausted
      <4>2. \/ Return(TRUE, 0, None) \/ Return(FALSE, iteration + 1, "max_iterations")
            \/ Return(FALSE, iteration, "max_iterations")
        BY <3>1, Zenon DEF Exhausted
      <4>3. phase' = "returned"
        BY <4>2 DEF Return
      <4> QED BY <4>1, <4>3 DEF talk
    <3>2. CASE NoKey \/ NoSdk \/ StartRaises \/ DemoRaises \/ DemoHasNobody \/ LoopRaises
      BY <3>2 DEF NoKey, NoSdk, StartRaises, DemoRaises, DemoHasNobody, LoopRaises, Die, Leave,
         Return, Asking, talk
    <3> QED BY <1>3, <3>1, <3>2
  <2>2. ~Over /\ Over'
    BY <2>1, NotOver DEF Over, Final
  <2> QED BY <2>1, <2>2, DialogueEnds DEF D!Next
<1>4. CASE Start \/ TakeUp \/ Gesture
  <2>1. /\ UNCHANGED <<transcript, results>> /\ phase \in {"start", "act"}
        /\ phase' \in {"ask", "act"}
    BY <1>4 DEF Start, TakeUp, Gesture, Serving
  <2>2. Over' <=> Over
    BY <2>1 DEF Over, Final
  <2> QED BY <2>1, <2>2, DialogueKept
<1>5. CASE (\E kind \in {"ok", "error", "image"} : DemoExecutes(kind))
             \/ ActionDone \/ OllamaActionDone
  <2>1. /\ \E kind \in {"ok", "error", "image"} : Serve(kind)
        /\ phase = "act" /\ UNCHANGED transcript
    BY <1>5, ServesAre
  <2> QED BY <2>1, DialogueServes DEF D!Next
<1>6. CASE LogRaises \/ Report
  <2>1. /\ UNCHANGED <<transcript, results>> /\ phase = "returned" /\ phase' \in {"died", "reported"}
    BY <1>6 DEF LogRaises, Report, Die, talk
  <2>2. Over' <=> Over
    BY <2>1 DEF Over, Final
  <2> QED BY <2>1, <2>2, DialogueKept
<1>7. CASE NextTask
  <2>1. phase = "returned" /\ phase' = "start" /\ transcript' = <<>> /\ results' = <<>>
    BY <1>7 DEF NextTask
  <2>2. Over /\ ~Over'
    BY <2>1 DEF Over, Final
  <2>3. AnswersOf(transcript') = <<>> /\ Len(results') = 0
    BY <2>1 DEF AnswersOf
  <2>4. D!Again
    BY <2>2, <2>3 DEF D!Again, AnswersOf, Over
  <2> QED BY <2>4 DEF D!Next
<1> QED BY <1>1, <1>2, <1>3, <1>4, <1>5, <1>6, <1>7 DEF Next, AnswerNext

-------------------------------------------------------------------------------
(* The gestures *)

LEMMA SeenKept ==
  ASSUME Seen, UNCHANGED <<loop, transcript, steps, gestures, tool_calls>>
  PROVE  Seen'
BY DEF Seen, CallsOf, AsksOf

(* How many calls are taken up, in terms of those that were asked for.     *)
LEMMA TakenUp ==
  ASSUME TInv, Rounds
  PROVE  /\ CallsOf(transcript) \in Seq(Asked(loop)) /\ Len(CallsOf(transcript)) \in Nat
         /\ tool_calls \in 0 .. Len(CallsOf(transcript))
         /\ steps = None /\ todo # <<>> =>
              /\ tool_calls + 1 \in 1 .. Len(CallsOf(transcript))
              /\ Head(todo).name = CallsOf(transcript)[tool_calls + 1]
         /\ todo = <<>> => tool_calls = Len(CallsOf(transcript))
<1> DEFINE C == CallsOf(transcript)
<1>1. C \in Seq(Asked(loop)) /\ todo \in Seq(Call) /\ tool_calls \in Nat
  BY CallsType DEF TInv, TypeOK
<1>2. Len(C) \in Nat /\ Len(todo) \in Nat /\ (todo = <<>> <=> Len(todo) = 0)
  BY <1>1, EmptySeq
<1>3. /\ Len(todo) <= Len(C)
      /\ \A i \in 1 .. Len(todo) : todo[i].name = C[Len(C) - Len(todo) + i]
      /\ tool_calls = Len(C) - Len(todo) + (IF steps = None THEN 0 ELSE 1)
      /\ steps # None => todo # <<>>
  BY DEF Rounds, TInv, Standing
<1>4. todo # <<>> => Head(todo) = todo[1]
  BY <1>1
<1> HIDE DEF C
<1>5. tool_calls \in 0 .. Len(C)
  BY <1>1, <1>2, <1>3
<1>6. ASSUME steps = None, todo # <<>>
      PROVE  tool_calls + 1 \in 1 .. Len(C) /\ Head(todo).name = C[tool_calls + 1]
  <2>1. 1 \in 1 .. Len(todo) /\ tool_calls + 1 = Len(C) - Len(todo) + 1
    BY <1>2, <1>3, <1>6
  <2>2. todo[1].name = C[tool_calls + 1]
    BY <1>3, <2>1
  <2> QED BY <1>2, <1>3, <1>4, <1>6, <2>1, <2>2
<1>7. todo = <<>> => tool_calls = Len(C)
  BY <1>2, <1>3
<1> QED BY <1>1, <1>2, <1>5, <1>6, <1>7 DEF C

LEMMA SeenEmpty ==
  ASSUME transcript = <<>>, steps = None, gestures = <<>>, tool_calls = 0
  PROVE  Seen
<1>1. SubSeq(CallsOf(transcript), 1, tool_calls) = <<>>
  BY SubSeqEmpty
<1>2. AsksOf(loop, <<>>) = <<>> /\ <<>> \o <<>> = <<>>
  BY AsksOfEmpty
<1> QED BY <1>1, <1>2 DEF Seen

LEMMA SeenAnswer ==
  ASSUME TInv, Rounds, Seen, NEW names \in NamesOf(loop), NEW done \in BOOLEAN,
         NEW success \in BOOLEAN, NEW error \in Errors, NEW p \in Providers, NEW given \in BOOLEAN,
         AnswerStep(names, done, success, error, p, given)
  PROVE  Seen'
<1> DEFINE C == CallsOf(transcript)
           D1 == CallsOf(transcript)'
<1>1. /\ names \in Seq(Asked(loop)) /\ Said(names, done)
      /\ UNCHANGED <<loop, steps, gestures, tool_calls>>
  BY AnswerStepType DEF AnswerStep, AskUnchanged, setting
<1>2. C \in Seq(Asked(loop)) /\ tool_calls \in 0 .. Len(C)
  BY TakenUp
<1>3. D1 = C \o names
  BY <1>1, CallsOfSaid DEF TInv
<1>4. SubSeq(D1, 1, tool_calls) = SubSeq(C, 1, tool_calls)
  <2> HIDE DEF C, D1
  <2>1. CASE tool_calls = 0
    BY <2>1, SubSeqEmpty
  <2>2. CASE tool_calls # 0
    <3>1. tool_calls \in 1 .. Len(C) /\ 1 \in 1 .. Len(C)
      BY <1>2, <2>2
    <3> QED BY <1>1, <1>2, <1>3, <3>1, SubSeqOfConcat1
  <2> QED BY <2>1, <2>2
<1>5. Seen' <=> (loop # "demo" =>
                   gestures \o (IF steps = None THEN <<>> ELSE steps)
                     = AsksOf(loop, SubSeq(D1, 1, tool_calls)))
  BY <1>1 DEF Seen, CallsOf, AsksOf
<1>6. loop # "demo" => gestures \o (IF steps = None THEN <<>> ELSE steps)
                         = AsksOf(loop, SubSeq(C, 1, tool_calls))
  BY DEF Seen
<1> HIDE DEF C, D1
<1> QED BY <1>4, <1>5, <1>6

LEMMA SeenNext == TInv /\ Rounds /\ Seen /\ [Next]_vars => Seen'
<1> SUFFICES ASSUME TInv, Rounds, Seen, [Next]_vars PROVE Seen'
  OBVIOUS
<1> DEFINE C == CallsOf(transcript)
<1>0. gestures \in Seq(Moves) /\ <<>> \in Seq(Moves) /\ None \notin Seq(Moves)
  BY LoopsAssumption, EmptySeq DEF TInv, TypeOK
<1>1. CASE RoundsNextSteps \/ UNCHANGED vars
  BY <1>1, TalkKept, SeenKept
<1>2. CASE AnswerNext
  BY <1>2, AnswersAreOne, SeenAnswer
<1>3. CASE (\E kind \in {"ok", "error", "image"} : DemoExecutes(kind))
             \/ ActionDone \/ OllamaActionDone
  <2>1. /\ UNCHANGED <<loop, transcript, gestures>> /\ steps' = None
        /\ loop # "demo" => steps = <<>> /\ tool_calls' = tool_calls
    <3>1. /\ tool_calls \in Nat
          /\ steps = <<>> => steps # None
      BY <1>0 DEF TInv, TypeOK
    <3>2. /\ \E kind \in {"ok", "error", "image"} : Serve(kind)
          /\ UNCHANGED <<setting, transcript, gestures, reports>>
          /\ tool_calls' = tool_calls + (IF steps = None THEN 1 ELSE 0)
          /\ loop # "demo" => steps = <<>>
      BY <1>3, ServesAre
    <3>3. /\ steps' = None
          /\ UNCHANGED <<loop, transcript, gestures>>
      BY <3>2 DEF setting, Serve
    <3>4. ASSUME loop # "demo" PROVE steps = <<>> /\ tool_calls' = tool_calls
      BY <3>1, <3>2, <3>4
    <3> QED BY <3>3, <3>4
  <2>2. AsksOf(loop, SubSeq(CallsOf(transcript), 1, tool_calls))'
          = AsksOf(loop', SubSeq(CallsOf(transcript'), 1, tool_calls'))
    BY DEF AsksOf, CallsOf
  <2> QED BY <1>0, <2>1, <2>2 DEF Seen
<1>4. CASE TakeUp
  <2> DEFINE g == Gestures(loop, Head(todo).name)
             x == C[tool_calls + 1]
             a == SubSeq(C, 1, tool_calls)
             b == SubSeq(C, 1, tool_calls + 1)
  <2>1. /\ loop # "demo" /\ steps = None /\ todo # <<>> /\ steps' = g
        /\ tool_calls' = tool_calls + 1 /\ UNCHANGED <<loop, transcript, gestures>>
    BY <1>4 DEF TakeUp, Serving, setting, TInv, Standing
  <2>2. /\ C \in Seq(Asked(loop)) /\ Len(C) \in Nat /\ tool_calls \in Nat
        /\ tool_calls + 1 \in 1 .. Len(C) /\ Head(todo).name = x
    BY <2>1, TakenUp DEF TInv, TypeOK
  <2>3. g \in Seq(Moves) /\ g # None
    BY <1>0, GesturesType
  <2>4. /\ a \in Seq(Asked(loop)) /\ x \in Asked(loop) /\ b = Append(a, x)
    <3> HIDE DEF C
    <3> QED BY <2>2
  <2>5. AsksOf(loop, b) = AsksOf(loop, a) \o Gestures(loop, x)
    <3> HIDE DEF a, b, x
    <3> QED BY <2>4, AsksAppend
  <2>6. gestures \o <<>> = AsksOf(loop, a)
    BY <2>1 DEF Seen
  <2>7. gestures = AsksOf(loop, a) /\ Gestures(loop, x) = g
    BY <1>0, <2>2, <2>6, ConcatEmptySeq
  <2>8. gestures \o g = AsksOf(loop, b)
    <3> HIDE DEF a, b, g, x
    <3> QED BY <2>5, <2>7
  <2>9. AsksOf(loop, SubSeq(CallsOf(transcript), 1, tool_calls))' = AsksOf(loop, b)
    BY <2>1 DEF AsksOf, CallsOf
  <2> HIDE DEF g, b
  <2> QED BY <2>1, <2>3, <2>8, <2>9 DEF Seen
<1>5. CASE Gesture
  <2> DEFINE b == AsksOf(loop, SubSeq(CallsOf(transcript), 1, tool_calls))
  <2>1. /\ loop # "demo" /\ steps \in Seq(Moves) /\ steps # <<>> /\ steps # None
        /\ steps' = Tail(steps) /\ gestures' = Append(gestures, Head(steps))
        /\ UNCHANGED <<loop, transcript, tool_calls>>
    BY <1>0, <1>5 DEF Gesture, Serving, setting, TInv
  <2>2. gestures \o steps = b
    BY <2>1 DEF Seen
  <2>3. /\ Append(gestures, Head(steps)) \o Tail(steps) = gestures \o steps
        /\ Tail(steps) \in Seq(Moves)
    BY <1>0, <2>1
  <2>4. AsksOf(loop, SubSeq(CallsOf(transcript), 1, tool_calls))' = b
    BY <2>1 DEF AsksOf, CallsOf
  <2>5. gestures' \o steps' = b /\ steps' # None
    BY <1>0, <2>1, <2>2, <2>3
  <2> HIDE DEF b
  <2> QED BY <2>4, <2>5 DEF Seen
<1>6. CASE NextTask
  <2>1. (transcript = <<>> /\ steps = None /\ gestures = <<>> /\ tool_calls = 0)'
    BY <1>6 DEF NextTask
  <2> QED BY <2>1, SeenEmpty, PTL
<1> QED BY <1>1, <1>2, <1>3, <1>4, <1>5, <1>6 DEF Next, AnswerNext, RoundsNextSteps

(* What was done is a first part of what was asked for, and all of it when *)
(* no call is left.                                                        *)
LEMMA SeenIsFollowing == TInv /\ Rounds /\ Seen => DesktopFollowsTheModel
<1> SUFFICES ASSUME TInv, Rounds, Seen, loop # "demo" PROVE DesktopFollowsTheModel
  BY DEF DesktopFollowsTheModel
<1> DEFINE C == CallsOf(transcript)
           a == AsksOf(loop, SubSeq(C, 1, tool_calls))
           b == AsksOf(loop, C)
           left == IF steps = None THEN <<>> ELSE steps
<1>1. /\ C \in Seq(Asked(loop)) /\ tool_calls \in 0 .. Len(C)
      /\ todo = <<>> => tool_calls = Len(C)
  BY TakenUp
<1>2. gestures \in Seq(Moves) /\ left \in Seq(Moves) /\ gestures \o left = a
  BY EmptySeq DEF Seen, TInv, TypeOK
<1>3. PICK u \in Seq(Moves) : b = a \o u
  <2> HIDE DEF C
  <2> QED BY <1>1, AsksPrefix
<1>4. Asks(C) = b
  <2> HIDE DEF C, a, left
  <2> QED BY Zenon DEF Asks, AsksOf
<1> HIDE DEF a, b, left
<1>5. b = gestures \o (left \o u) /\ left \o u \in Seq(Moves)
  <2>0. gestures \in Seq(Moves) /\ left \in Seq(Moves) /\ u \in Seq(Moves)
    BY <1>2
  <2>1. (gestures \o left) \o u = gestures \o (left \o u)
    BY ONLY <2>0, ConcatAssociative
  <2>2. left \o u \in Seq(Moves)
    BY <2>0, ConcatProperties
  <2>3. b = (gestures \o left) \o u
    BY <1>2, <1>3
  <2> HIDE DEF C
  <2> QED BY <2>1, <2>2, <2>3
<1>6. IsPrefix(gestures, b)
  <2> DEFINE v == left \o u
  <2> HIDE DEF v
  <2>1. /\ b = gestures \o v /\ v \in Seq(Moves)
    BY <1>5 DEF v
  <2> QED BY <1>2, <2>1 DEF IsPrefix
<1>7. ASSUME phase = "ask" PROVE gestures = b
  <2>1. todo = <<>> /\ left = <<>>
    BY <1>7 DEF TInv, Standing, left
  <2>2. SubSeq(C, 1, tool_calls) = C
    <3> HIDE DEF C
    <3> QED BY <1>1, <2>1, SubSeqFull
  <2>3. a = b
    BY <2>2 DEF a, b
  <2> QED BY <1>2, <2>1, <2>3, ConcatEmptySeq
<1> QED BY <1>4, <1>6, <1>7 DEF DesktopFollowsTheModel

-------------------------------------------------------------------------------
(* The conversation *)

Odd(n) == n % 2 = 1

(* The ids that the calls of one answer have: all of the turn, or names.   *)
Fresh(calls, turn) == \A n \in DOMAIN calls : calls[n].id = FreshId(turn, n)
Named(calls)       == \A n \in DOMAIN calls : calls[n].id = NameId(calls[n].name)

(* The turns alternate, and what is asked is answered in the next.         *)
Alternates(m) ==
  \A i \in 1 .. Len(m) :
    /\ Odd(i) => m[i].role = "user" /\ m[i].calls = <<>>
    /\ ~Odd(i) =>
         /\ m[i].role = "assistant" /\ m[i].calls # <<>> /\ m[i].results = <<>>
         /\ Fresh(m[i].calls, i - 1) \/ Named(m[i].calls)
         /\ i < Len(m) => SentBack(m[i + 1], m[i])

NamedIn(m) == {i \in DOMAIN m : \E n \in DOMAIN m[i].calls : m[i].calls[n].id.name # None}

(* No id is given twice, unless it is a name.                              *)
IdsOf(m) == FlattenSeq([i \in DOMAIN m |-> ClaudeCalls(m[i])])
Unique(m) ==
  NamedIn(m) = {} =>
    /\ IsInjective(IdsOf(m))
    /\ \A j \in 1 .. Len(IdsOf(m)) : IdsOf(m)[j].turn < Len(m)

(* On Ollama's wire, the results of a message come right after it; those   *)
(* of the last one may be to come.                                         *)
Wire(m) == FlattenSeq([i \in DOMAIN m |-> OllamaWire(m[i])])
Pending(m) == IF Odd(Len(m)) THEN 0 ELSE Len(m[Len(m)].calls)
Wired(m) ==
  \A j \in 1 .. Len(Wire(m)) : \A k \in 1 .. Wire(m)[j].calls :
    /\ j + k <= Len(Wire(m)) + Pending(m)
    /\ j + k <= Len(Wire(m)) => Wire(m)[j + k].role = "tool"

Talk(m) == m \in Seq(Messages) /\ m # <<>> /\ Alternates(m) /\ Unique(m) /\ Wired(m)

(* The results so far are those of the first calls of the last message,    *)
(* and the calls to do are the others.                                     *)
Halfway(last) ==
  /\ Len(last.calls) = Len(results) + Len(todo)
  /\ \A n \in 1 .. Len(results) : SentFor(results[n], last.calls[n])
  /\ \A n \in 1 .. Len(todo) : todo[n].id = last.calls[Len(results) + n].id

Conversation ==
  /\ phase = "ask" => Talk(messages) /\ Odd(Len(messages))
  /\ phase = "act" /\ loop # "ollama" =>
       Talk(messages) /\ ~Odd(Len(messages)) /\ Halfway(messages[Len(messages)])
  /\ phase = "act" /\ loop = "ollama" =>
       /\ Talk(messages) /\ Odd(Len(messages)) /\ results = <<>>
       /\ Fresh(todo, Len(messages)) \/ Named(todo)

LEMMA FlattenStep ==
  ASSUME NEW S, NEW n \in Nat, NEW s \in [1 .. n -> Seq(S)], NEW u \in [1 .. n + 1 -> Seq(S)],
         \A i \in 1 .. n : u[i] = s[i]
  PROVE  FlattenSeq(s) \in Seq(S) /\ FlattenSeq(u) = FlattenSeq(s) \o u[n + 1]
<1> DEFINE Q == Seq(S)
           x == u[n + 1]
<1>1. s \in [1 .. n -> Q] /\ u \in [1 .. n + 1 -> Q] /\ x \in Q
  OBVIOUS
<1> HIDE DEF Q
<1>2. s \in Seq(Q) /\ Len(s) = n
  BY <1>1
<1>3. u = Append(s, x)
  BY <1>1, <1>2, AppendIs
<1> HIDE DEF x
<1>4. FlattenSeq(s) \in Seq(S) /\ FlattenSeq(Append(s, x)) = FlattenSeq(s) \o x
  BY <1>1, <1>2, FlattenAppend DEF Q
<1> QED BY <1>3, <1>4 DEF x

LEMMA MessagesAppend ==
  ASSUME NEW m \in Seq(Messages), NEW x \in Messages
  PROVE  /\ Append(m, x) \in Seq(Messages) /\ Len(Append(m, x)) = Len(m) + 1 /\ Len(m) \in Nat
         /\ Append(m, x)[Len(m) + 1] = x
         /\ \A i \in 1 .. Len(m) : Append(m, x)[i] = m[i] /\ m[i] \in Messages
         /\ DOMAIN m = 1 .. Len(m) /\ DOMAIN Append(m, x) = 1 .. Len(m) + 1
         /\ Append(m, x) # <<>>
<1> DEFINE S == Messages
<1> HIDE DEF S
<1>1. ASSUME NEW t \in Seq(S), NEW y \in S
      PROVE  /\ Append(t, y) \in Seq(S) /\ Len(Append(t, y)) = Len(t) + 1 /\ Len(t) \in Nat
             /\ Append(t, y)[Len(t) + 1] = y
             /\ \A i \in 1 .. Len(t) : Append(t, y)[i] = t[i] /\ t[i] \in S
             /\ DOMAIN t = 1 .. Len(t) /\ DOMAIN Append(t, y) = 1 .. Len(t) + 1
             /\ Append(t, y) # <<>>
  OBVIOUS
<1> QED BY <1>1 DEF S

(* What the calls and the results of a message are on the wires.           *)
LEMMA WiresType ==
  ASSUME NEW x \in Messages
  PROVE  /\ ClaudeCalls(x) \in Seq(Id) /\ Len(ClaudeCalls(x)) = Len(x.calls)
         /\ \A n \in 1 .. Len(x.calls) : ClaudeCalls(x)[n] = x.calls[n].id
         /\ ClaudeResults(x) \in Seq(Id \cup {None}) /\ Len(ClaudeResults(x)) = Len(x.results)
         /\ \A n \in 1 .. Len(x.results) : ClaudeResults(x)[n] = x.results[n].id
         /\ x.calls \in Seq(Call) /\ x.results \in Seq(Result)
<1>1. x.calls \in Seq(Call) /\ x.results \in Seq(Result)
  BY DEF Messages
<1>2. (\A c \in Call : c.id \in Id) /\ (\A r \in Result : r.id \in Id \cup {None})
  BY DEF Call, Result
<1>3. ASSUME NEW S, NEW T, \A c \in S : c.id \in T, NEW s \in Seq(S)
      PROVE  LET t == [n \in DOMAIN s |-> s[n].id]
             IN  t \in Seq(T) /\ Len(t) = Len(s) /\ \A n \in 1 .. Len(s) : t[n] = s[n].id
  <2> DEFINE t == [n \in DOMAIN s |-> s[n].id]
             k == Len(s)
  <2>1. k \in Nat /\ DOMAIN s = 1 .. k /\ \A n \in 1 .. k : s[n] \in S
    OBVIOUS
  <2> HIDE DEF k
  <2>2. t = [n \in 1 .. k |-> s[n].id] /\ \A n \in 1 .. k : s[n].id \in T
    BY <1>3, <2>1
  <2> HIDE DEF t
  <2>3. t \in [1 .. k -> T] /\ \A n \in 1 .. k : t[n] = s[n].id
    BY <2>2
  <2>4. t \in Seq(T) /\ Len(t) = k
    BY <2>1, <2>3
  <2> QED BY <2>3, <2>4 DEF k, t
<1>4. LET t == [n \in DOMAIN x.calls |-> x.calls[n].id]
      IN  t \in Seq(Id) /\ Len(t) = Len(x.calls) /\ \A n \in 1 .. Len(x.calls) : t[n] = x.calls[n].id
  BY <1>1, <1>2, <1>3
<1>5. LET t == [n \in DOMAIN x.results |-> x.results[n].id]
      IN  /\ t \in Seq(Id \cup {None}) /\ Len(t) = Len(x.results)
          /\ \A n \in 1 .. Len(x.results) : t[n] = x.results[n].id
  BY <1>1, <1>2, <1>3
<1> QED BY <1>1, <1>4, <1>5, Zenon DEF ClaudeCalls, ClaudeResults

LEMMA IdsAppend ==
  ASSUME NEW m \in Seq(Messages), NEW x \in Messages
  PROVE  IdsOf(m) \in Seq(Id) /\ IdsOf(Append(m, x)) = IdsOf(m) \o ClaudeCalls(x)
<1> DEFINE n == Len(m)
           b == Append(m, x)
           s == [i \in DOMAIN m |-> ClaudeCalls(m[i])]
           u == [i \in DOMAIN b |-> ClaudeCalls(b[i])]
<1>1. /\ n \in Nat /\ DOMAIN m = 1 .. n /\ DOMAIN b = 1 .. n + 1 /\ b[n + 1] = x
      /\ \A i \in 1 .. n : b[i] = m[i] /\ m[i] \in Messages
  BY MessagesAppend
<1> HIDE DEF n, b
<1>2. \A i \in 1 .. n : ClaudeCalls(m[i]) \in Seq(Id)
  BY <1>1, WiresType
<1>3. ClaudeCalls(x) \in Seq(Id)
  BY WiresType
<1>4. /\ s \in [1 .. n -> Seq(Id)] /\ u \in [1 .. n + 1 -> Seq(Id)]
      /\ u[n + 1] = ClaudeCalls(x) /\ \A i \in 1 .. n : u[i] = s[i]
  <2> DEFINE Q == Seq(Id)
  <2>1. (\A i \in 1 .. n : ClaudeCalls(m[i]) \in Q) /\ ClaudeCalls(x) \in Q
    BY <1>2, <1>3
  <2> HIDE DEF Q
  <2>2. s \in [1 .. n -> Q] /\ u \in [1 .. n + 1 -> Q]
    BY <1>1, <2>1
  <2>3. u[n + 1] = ClaudeCalls(x) /\ \A i \in 1 .. n : u[i] = s[i]
    BY <1>1
  <2> QED BY <2>2, <2>3 DEF Q
<1> HIDE DEF s, u
<1>5. FlattenSeq(s) \in Seq(Id) /\ FlattenSeq(u) = FlattenSeq(s) \o ClaudeCalls(x)
  BY <1>1, <1>4, FlattenStep
<1> QED BY <1>5 DEF s, u, b, IdsOf

OnWire == [role : {"user", "assistant", "tool"}, calls : Nat]

LEMMA OllamaWireType ==
  ASSUME NEW x \in Messages
  PROVE  /\ OllamaWire(x) \in Seq(OnWire)
         /\ x.results = <<>> =>
              /\ Len(OllamaWire(x)) = 1
              /\ OllamaWire(x)[1].role = x.role /\ OllamaWire(x)[1].calls = Len(x.calls)
         /\ x.calls = <<>> /\ x.results # <<>> =>
              /\ Len(OllamaWire(x)) = Len(x.results)
              /\ \A j \in 1 .. Len(x.results) :
                   OllamaWire(x)[j].role = "tool" /\ OllamaWire(x)[j].calls = 0
<1> DEFINE e == [role |-> x.role, calls |-> Len(x.calls)]
           t == [role |-> "tool", calls |-> 0]
           n == Len(x.results)
           first == IF x.calls = <<>> /\ x.results # <<>> THEN <<>> ELSE <<e>>
           rest == [j \in DOMAIN x.results |-> t]
<1>1. /\ x.calls \in Seq(Call) /\ x.results \in Seq(Result) /\ x.role \in {"user", "assistant"}
      /\ n \in Nat /\ DOMAIN x.results = 1 .. n /\ (x.results = <<>> <=> n = 0)
  BY EmptySeq DEF Messages
<1>2. e \in OnWire /\ t \in OnWire /\ e.role = x.role /\ e.calls = Len(x.calls)
      /\ t.role = "tool" /\ t.calls = 0
  BY <1>1 DEF OnWire
<1> HIDE DEF e, t, n
<1>3. rest \in Seq(OnWire) /\ Len(rest) = n /\ \A j \in 1 .. n : rest[j] = t
  <2>1. rest = [j \in 1 .. n |-> t]
    BY <1>1
  <2> HIDE DEF rest
  <2>2. rest \in [1 .. n -> OnWire] /\ \A j \in 1 .. n : rest[j] = t
    BY <1>2, <2>1
  <2> QED BY <1>1, <2>2
<1>4. first \in Seq(OnWire)
  BY <1>2, EmptySeq
<1>5. OllamaWire(x) = first \o rest
  BY DEF OllamaWire, e, t
<1>6. (x.results = <<>> => first = <<e>>) /\ (x.calls = <<>> /\ x.results # <<>> => first = <<>>)
  OBVIOUS
<1> HIDE DEF first, rest
<1>7. ASSUME x.results = <<>>
      PROVE  OllamaWire(x) = <<e>>
  <2>1. rest = <<>>
    BY <1>1, <1>3, <1>7, EmptySeq
  <2> QED BY <1>4, <1>5, <1>6, <1>7, <2>1, ConcatEmptySeq
<1>8. ASSUME x.calls = <<>>, x.results # <<>>
      PROVE  OllamaWire(x) = rest
  BY <1>3, <1>5, <1>6, <1>8, ConcatEmptySeq
<1>9. OllamaWire(x) \in Seq(OnWire)
  BY <1>3, <1>4, <1>5, ConcatProperties
<1> QED BY <1>2, <1>3, <1>7, <1>8, <1>9 DEF n

LEMMA WireAppend ==
  ASSUME NEW m \in Seq(Messages), NEW x \in Messages
  PROVE  Wire(m) \in Seq(OnWire) /\ Wire(Append(m, x)) = Wire(m) \o OllamaWire(x)
<1> DEFINE n == Len(m)
           b == Append(m, x)
           s == [i \in DOMAIN m |-> OllamaWire(m[i])]
           u == [i \in DOMAIN b |-> OllamaWire(b[i])]
<1>1. /\ n \in Nat /\ DOMAIN m = 1 .. n /\ DOMAIN b = 1 .. n + 1 /\ b[n + 1] = x
      /\ \A i \in 1 .. n : b[i] = m[i] /\ m[i] \in Messages
  BY MessagesAppend
<1> HIDE DEF n, b
<1>2. \A i \in 1 .. n : OllamaWire(m[i]) \in Seq(OnWire)
  BY <1>1, OllamaWireType
<1>3. OllamaWire(x) \in Seq(OnWire)
  BY OllamaWireType
<1>4. /\ s \in [1 .. n -> Seq(OnWire)] /\ u \in [1 .. n + 1 -> Seq(OnWire)]
      /\ u[n + 1] = OllamaWire(x) /\ \A i \in 1 .. n : u[i] = s[i]
  <2> DEFINE Q == Seq(OnWire)
  <2>1. (\A i \in 1 .. n : OllamaWire(m[i]) \in Q) /\ OllamaWire(x) \in Q
    BY <1>2, <1>3
  <2> HIDE DEF Q
  <2>2. s \in [1 .. n -> Q] /\ u \in [1 .. n + 1 -> Q]
    BY <1>1, <2>1
  <2>3. u[n + 1] = OllamaWire(x) /\ \A i \in 1 .. n : u[i] = s[i]
    BY <1>1
  <2> QED BY <2>2, <2>3 DEF Q
<1> HIDE DEF s, u
<1>5. FlattenSeq(s) \in Seq(OnWire) /\ FlattenSeq(u) = FlattenSeq(s) \o OllamaWire(x)
  BY <1>1, <1>4, FlattenStep
<1> QED BY <1>5 DEF s, u, b, Wire

LEMMA Parity ==
  ASSUME NEW n \in Nat
  PROVE  Odd(n + 1) <=> ~Odd(n)
BY DEF Odd

LEMMA ConcatParts ==
  ASSUME NEW S, NEW s \in Seq(S), NEW t \in Seq(S)
  PROVE  /\ s \o t \in Seq(S) /\ Len(s \o t) = Len(s) + Len(t) /\ Len(s) \in Nat /\ Len(t) \in Nat
         /\ \A i \in 1 .. Len(s) : (s \o t)[i] = s[i]
         /\ \A i \in 1 .. Len(t) : (s \o t)[Len(s) + i] = t[i]
<1>1. /\ s \o t \in Seq(S) /\ Len(s \o t) = Len(s) + Len(t)
      /\ \A i \in 1 .. Len(s) + Len(t) :
           (s \o t)[i] = IF i <= Len(s) THEN s[i] ELSE t[i - Len(s)]
  BY ConcatProperties
<1>2. Len(s) \in Nat /\ Len(t) \in Nat
  OBVIOUS
<1>3. ASSUME NEW i \in 1 .. Len(t) PROVE (s \o t)[Len(s) + i] = t[i]
  <2>1. Len(s) + i \in 1 .. Len(s) + Len(t) /\ ~(Len(s) + i <= Len(s)) /\ (Len(s) + i) - Len(s) = i
    BY <1>2
  <2> QED BY <1>1, <2>1
<1>4. ASSUME NEW i \in 1 .. Len(s) PROVE (s \o t)[i] = s[i]
  <2>1. i \in 1 .. Len(s) + Len(t) /\ i <= Len(s)
    BY <1>2
  <2> QED BY <1>1, <2>1
<1> QED BY <1>1, <1>2, <1>3, <1>4

LEMMA IdParts ==
  /\ \A x : NameId(x).name = x
  /\ \A t, n : FreshId(t, n).turn = t /\ FreshId(t, n).n = n /\ FreshId(t, n).name = None
BY DEF NameId, FreshId

(* A message with calls may follow one without.                            *)
LEMMA TalkAsks ==
  ASSUME NEW m, Talk(m), Odd(Len(m)), NEW p \in Providers, NEW calls \in Seq(Call), calls # <<>>,
         None \notin Names, Fresh(calls, Len(m)) \/ Named(calls)
  PROVE  Talk(Append(m, Assistant(p, calls)))
<1> DEFINE x == Assistant(p, calls)
           b == Append(m, x)
           n == Len(m)
           k == Len(calls)
<1>1. m \in Seq(Messages) /\ Alternates(m) /\ Unique(m) /\ Wired(m)
  BY DEF Talk
<1>2. /\ x \in Messages /\ x.role = "assistant" /\ x.calls = calls /\ x.results = <<>>
  BY MessageTypes DEF Assistant
<1> HIDE DEF x
<1>3. /\ b \in Seq(Messages) /\ Len(b) = n + 1 /\ n \in Nat /\ b[n + 1] = x /\ b # <<>>
      /\ \A i \in 1 .. n : b[i] = m[i] /\ m[i] \in Messages
      /\ DOMAIN m = 1 .. n /\ DOMAIN b = 1 .. n + 1
  BY <1>1, <1>2, MessagesAppend
<1>4. /\ k \in Nat \ {0} /\ DOMAIN calls = 1 .. k
      /\ \A i \in 1 .. k : calls[i] \in Call /\ calls[i].name \in Names
  <2>1. \A c \in Call : c.name \in Names
    BY DEF Call
  <2>2. k \in Nat /\ DOMAIN calls = 1 .. k /\ \A i \in 1 .. k : calls[i] \in Call
    OBVIOUS
  <2>3. k # 0
    BY EmptySeq
  <2> QED BY <2>1, <2>2, <2>3
<1>5. Odd(n) /\ ~Odd(n + 1)
  BY <1>3, Parity
<1> HIDE DEF b
<1>6. Alternates(b)
  <2>1. ASSUME NEW i \in 1 .. n
        PROVE  /\ Odd(i) => b[i].role = "user" /\ b[i].calls = <<>>
               /\ ~Odd(i) =>
                    /\ b[i].role = "assistant" /\ b[i].calls # <<>> /\ b[i].results = <<>>
                    /\ Fresh(b[i].calls, i - 1) \/ Named(b[i].calls)
                    /\ i < n + 1 => SentBack(b[i + 1], b[i])
    <3>1. b[i] = m[i]
      BY <1>3
    <3>2. ASSUME ~Odd(i) PROVE i + 1 \in 1 .. n /\ i < n /\ b[i + 1] = m[i + 1]
      BY <1>3, <1>5, <3>2
    <3> QED BY <1>1, <3>1, <3>2 DEF Alternates
  <2>2. Fresh(b[n + 1].calls, n + 1 - 1) \/ Named(b[n + 1].calls)
    BY <1>2, <1>3
  <2> QED BY <1>2, <1>3, <1>5, <2>1, <2>2 DEF Alternates
<1>7. Unique(b)
  <2> SUFFICES ASSUME NamedIn(b) = {}
               PROVE  /\ IsInjective(IdsOf(b))
                      /\ \A j \in 1 .. Len(IdsOf(b)) : IdsOf(b)[j].turn < Len(b)
    BY DEF Unique
  <2>1. NamedIn(m) = {}
    BY <1>3 DEF NamedIn
  <2>2. Fresh(calls, n)
    <3>1. ~Named(calls)
      <4> SUFFICES ASSUME Named(calls) PROVE FALSE
        OBVIOUS
      <4>1. 1 \in DOMAIN calls /\ n + 1 \in DOMAIN b /\ b[n + 1].calls = calls
        BY <1>2, <1>3, <1>4
      <4>2. calls[1].id.name = None
        BY <4>1 DEF NamedIn
      <4>3. calls[1].name # None
        BY <1>4, <4>1
      <4>4. calls[1].id = NameId(calls[1].name)
        BY <4>1 DEF Named
      <4> QED BY <4>2, <4>3, <4>4, IdParts
    <3> QED BY <3>1
  <2> DEFINE f == IdsOf(m)
             c == ClaudeCalls(x)
  <2>3. /\ f \in Seq(Id) /\ IdsOf(b) = f \o c
    BY <1>1, <1>2, IdsAppend DEF b
  <2>4. c \in Seq(Id) /\ Len(c) = k /\ \A i \in 1 .. k : c[i].turn = n /\ c[i].n = i
    <3>1. c \in Seq(Id) /\ Len(c) = k /\ \A i \in 1 .. k : c[i] = calls[i].id
      BY <1>2, WiresType
    <3>2. \A i \in 1 .. k : calls[i].id = FreshId(n, i)
      BY <1>4, <2>2 DEF Fresh
    <3> HIDE DEF c, k, n
    <3> QED BY <3>1, <3>2, IdParts
  <2>5. /\ \A i, j \in 1 .. Len(f) : f[i] = f[j] => i = j
        /\ \A j \in 1 .. Len(f) : f[j].turn < n /\ f[j] \in Id
    <3>1. IsInjective(f) /\ \A j \in 1 .. Len(f) : f[j].turn < n
      BY <1>1, <2>1 DEF Unique
    <3> HIDE DEF f
    <3> QED BY <2>3, <3>1 DEF IsInjective
  <2> HIDE DEF f, c
  <2> DEFINE g == f \o c
             l == Len(f)
  <2>6. /\ g \in Seq(Id) /\ Len(g) = l + k /\ l \in Nat
        /\ \A i \in 1 .. l : g[i] = f[i]
        /\ \A i \in l + 1 .. l + k : g[i] = c[i - l]
    <3>1. /\ f \o c \in Seq(Id) /\ Len(f \o c) = Len(f) + Len(c)
          /\ \A i \in 1 .. Len(f) + Len(c) :
               (f \o c)[i] = IF i <= Len(f) THEN f[i] ELSE c[i - Len(f)]
      BY <2>3, <2>4, ConcatProperties
    <3>2. Len(f) \in Nat
      BY <2>3
    <3> HIDE DEF k
    <3> QED BY <1>4, <2>4, <3>1, <3>2
  <2> HIDE DEF g, l
  <2>7. DOMAIN g = 1 .. l + k
    BY <2>6
  <2>8. ASSUME NEW i \in 1 .. l + k
        PROVE  \/ i \in 1 .. l /\ g[i] = f[i] /\ g[i].turn < n
               \/ i \in l + 1 .. l + k /\ g[i] = c[i - l] /\ g[i].turn = n /\ g[i].n = i - l
    <3>1. CASE i \in 1 .. l
      BY <2>5, <2>6, <3>1 DEF l
    <3>2. CASE i \in l + 1 .. l + k
      <4>1. i - l \in 1 .. k
        BY <1>4, <2>6, <3>2
      <4> QED BY <2>4, <2>6, <3>2, <4>1
    <3> QED BY <1>4, <2>6, <3>1, <3>2
  <2>9. IsInjective(g)
    <3> SUFFICES ASSUME NEW i \in 1 .. l + k, NEW j \in 1 .. l + k, g[i] = g[j] PROVE i = j
      BY <2>7 DEF IsInjective
    <3>1. g[i].turn = g[j].turn /\ g[i].n = g[j].n
      OBVIOUS
    <3>2. CASE i \in 1 .. l /\ j \in 1 .. l
      BY <2>5, <2>6, <3>2 DEF l
    <3>3. CASE ~(i \in 1 .. l /\ j \in 1 .. l)
      <4>1. ~(g[i].turn < n) \/ ~(g[j].turn < n)
        BY <1>3, <2>8, <3>3
      <4>2. g[i].n = i - l /\ g[j].n = j - l
        BY <1>3, <2>8, <3>1, <4>1
      <4> QED BY <1>4, <2>6, <3>1, <4>2
    <3> QED BY <3>2, <3>3
  <2>10. \A j \in 1 .. Len(g) : g[j].turn < n + 1
    <3>1. ASSUME NEW j \in 1 .. l + k PROVE g[j].turn < n + 1
      <4>1. CASE g[j].turn < n /\ g[j] = f[j] /\ j \in 1 .. l
        <5>1. f[j] \in Id
          BY <2>5, <4>1 DEF l
        <5>2. g[j].turn \in Nat
          BY <4>1, <5>1 DEF Id
        <5> QED BY <1>3, <4>1, <5>2
      <4>2. CASE g[j].turn = n
        BY <1>3, <4>2
      <4> QED BY <2>8, <4>1, <4>2
    <3> QED BY <2>6, <3>1
  <2>11. IdsOf(b) = g
    BY <2>3 DEF g
  <2> QED BY <1>3, <2>9, <2>10, <2>11
<1>8. Wired(b)
  <2> DEFINE w == Wire(m)
             e == OllamaWire(x)
             v == Wire(b)
             l == Len(w)
  <2>1. w \in Seq(OnWire) /\ v = w \o e
    BY <1>1, <1>2, WireAppend DEF b
  <2>2. e \in Seq(OnWire) /\ Len(e) = 1 /\ e[1].calls = k
    BY <1>2, OllamaWireType
  <2>3. Pending(b) = k /\ Pending(m) = 0
    BY <1>2, <1>3, <1>5 DEF Pending
  <2>4. \A j \in 1 .. l : \A i \in 1 .. w[j].calls :
          /\ j + i <= l + Pending(m)
          /\ j + i <= l => w[j + i].role = "tool"
    BY <1>1, Zenon DEF Wired
  <2> HIDE DEF w, e, v
  <2>5. l \in Nat /\ \A j \in 1 .. l : w[j].calls \in Nat
    <3>1. \A o \in OnWire : o.calls \in Nat
      BY DEF OnWire
    <3> QED BY <2>1, <3>1
  <2>6. /\ Len(v) = l + 1 /\ v[l + 1] = e[1]
        /\ \A j \in 1 .. l : v[j] = w[j]
    <3>1. /\ Len(w \o e) = Len(w) + Len(e) /\ \A i \in 1 .. Len(w) : (w \o e)[i] = w[i]
          /\ \A i \in 1 .. Len(e) : (w \o e)[Len(w) + i] = e[i]
      <4>1. w \in Seq(OnWire) /\ e \in Seq(OnWire)
        BY <2>1, <2>2
      <4>2. Len(w \o e) = Len(w) + Len(e)
        BY ONLY <4>1, ConcatParts
      <4>3. \A i \in 1 .. Len(w) : (w \o e)[i] = w[i]
        BY ONLY <4>1, ConcatParts
      <4>4. \A i \in 1 .. Len(e) : (w \o e)[Len(w) + i] = e[i]
        BY ONLY <4>1, ConcatParts
      <4> QED BY <4>2, <4>3, <4>4
    <3>2. /\ Len(v) = Len(w) + Len(e) /\ \A i \in 1 .. Len(w) : v[i] = w[i]
          /\ \A i \in 1 .. Len(e) : v[Len(w) + i] = e[i]
      BY <2>1, <3>1
    <3> QED BY <2>2, <3>2
  <2> HIDE DEF l
  <2>7. ASSUME NEW j \in 1 .. l + 1, NEW i \in 1 .. v[j].calls
        PROVE  j + i <= (l + 1) + k /\ (j + i <= l + 1 => v[j + i].role = "tool")
    <3>1. CASE j \in 1 .. l
      <4>0. v[j] = w[j] /\ w[j].calls \in Nat
        BY <2>5, <2>6, <3>1
      <4>1. i \in 1 .. w[j].calls /\ i \in Nat
        BY <4>0
      <4>5. /\ j + i <= l + Pending(m)
            /\ j + i <= l => w[j + i].role = "tool"
        BY <2>4, <3>1, <4>1, Zenon
      <4>2. j + i <= l /\ w[j + i].role = "tool"
        BY <2>3, <2>5, <4>1, <4>5
      <4>3. j + i \in 1 .. l
        BY <2>5, <4>1, <4>2
      <4> QED BY <1>4, <2>5, <2>6, <4>1, <4>2, <4>3
    <3>2. CASE j = l + 1
      BY <1>4, <2>2, <2>5, <2>6, <3>2
    <3> QED BY <2>5, <3>1, <3>2
  <2> QED BY <2>3, <2>6, <2>7 DEF Wired, v
<1> QED BY <1>3, <1>6, <1>7, <1>8 DEF Talk, b, x

(* The results of all the calls of the last message may follow it.         *)
LEMMA TalkTells ==
  ASSUME NEW m, Talk(m), ~Odd(Len(m)), NEW rs \in Seq(Result),
         Len(rs) = Len(m[Len(m)].calls),
         \A i \in 1 .. Len(rs) : SentFor(rs[i], m[Len(m)].calls[i])
  PROVE  Talk(Append(m, UserResults(rs)))
<1> DEFINE x == UserResults(rs)
           b == Append(m, x)
           n == Len(m)
           k == Len(rs)
<1>1. m \in Seq(Messages) /\ Alternates(m) /\ Unique(m) /\ Wired(m) /\ m # <<>>
  BY DEF Talk
<1>2. x \in Messages /\ x.role = "user" /\ x.calls = <<>> /\ x.results = rs
  BY MessageTypes DEF UserResults
<1> HIDE DEF x
<1>3. /\ b \in Seq(Messages) /\ Len(b) = n + 1 /\ n \in Nat /\ b[n + 1] = x /\ b # <<>>
      /\ \A i \in 1 .. n : b[i] = m[i] /\ m[i] \in Messages
      /\ DOMAIN m = 1 .. n /\ DOMAIN b = 1 .. n + 1
  BY <1>1, <1>2, MessagesAppend
<1>4. n \in 1 .. n /\ ~Odd(n) /\ Odd(n + 1)
  <2>1. n # 0
    BY <1>1, EmptySeq
  <2> QED BY <1>3, <2>1, Parity
<1>5. /\ k \in Nat \ {0} /\ Len(m[n].calls) = k /\ rs # <<>>
      /\ \A i \in 1 .. k : SentFor(rs[i], m[n].calls[i])
  <2>1. m[n].calls # <<>> /\ m[n].calls \in Seq(Call)
    BY <1>1, <1>3, <1>4, WiresType DEF Alternates
  <2>2. Len(m[n].calls) \in Nat /\ Len(m[n].calls) # 0
    BY <2>1, EmptySeq
  <2> QED BY <2>2
<1> HIDE DEF b, n
<1>6. SentBack(x, m[n])
  <2>1. m[n].calls \in Seq(Call)
    BY <1>3, <1>4, WiresType
  <2>2. DOMAIN m[n].calls = 1 .. k
    BY <1>5, <2>1
  <2> QED BY <1>2, <1>5, <2>2 DEF SentBack
<1>7. Alternates(b)
  <2>1. ASSUME NEW i \in 1 .. n
        PROVE  /\ Odd(i) => b[i].role = "user" /\ b[i].calls = <<>>
               /\ ~Odd(i) =>
                    /\ b[i].role = "assistant" /\ b[i].calls # <<>> /\ b[i].results = <<>>
                    /\ Fresh(b[i].calls, i - 1) \/ Named(b[i].calls)
                    /\ i < n + 1 => SentBack(b[i + 1], b[i])
    <3>1. b[i] = m[i]
      BY <1>3
    <3>2. CASE i = n
      BY <1>1, <1>3, <1>4, <1>6, <3>1, <3>2 DEF Alternates, n
    <3>3. CASE i # n
      <4>1. i < n /\ b[i + 1] = m[i + 1]
        BY <1>3, <3>3
      <4> QED BY <1>1, <3>1, <4>1 DEF Alternates, n
    <3> QED BY <3>2, <3>3
  <2> QED BY <1>2, <1>3, <1>4, <2>1 DEF Alternates
<1>8. Unique(b)
  <2>1. NamedIn(b) = {} => NamedIn(m) = {}
    BY <1>3 DEF NamedIn
  <2> DEFINE f == IdsOf(m)
             c == ClaudeCalls(x)
  <2>2. f \in Seq(Id) /\ IdsOf(b) = f \o c /\ c \in Seq(Id) /\ Len(c) = 0
    BY <1>1, <1>2, IdsAppend, WiresType DEF b
  <2> HIDE DEF f, c
  <2>3. c = <<>> /\ f \o <<>> = f
    BY <2>2, EmptySeq, ConcatEmptySeq
  <2>4. IdsOf(b) = IdsOf(m)
    BY <2>2, <2>3 DEF f
  <2>5. ASSUME NEW j \in 1 .. Len(f), f[j].turn < n PROVE f[j].turn < n + 1
    <3>1. \A y \in Id : y.turn \in Nat
      BY DEF Id
    <3>2. f[j].turn \in Nat
      BY <2>2, <3>1
    <3> QED BY <1>3, <2>5, <3>2
  <2> QED BY <1>1, <1>3, <2>1, <2>4, <2>5 DEF Unique, f, n
<1>9. Wired(b)
  <2> DEFINE w == Wire(m)
             e == OllamaWire(x)
             v == Wire(b)
             l == Len(w)
  <2>1. w \in Seq(OnWire) /\ v = w \o e
    BY <1>1, <1>2, WireAppend DEF b
  <2>2. /\ e \in Seq(OnWire) /\ Len(e) = k
        /\ \A i \in 1 .. k : e[i].role = "tool" /\ e[i].calls = 0
    BY <1>2, <1>5, OllamaWireType
  <2>3. Pending(b) = 0 /\ Pending(m) = k
    BY <1>3, <1>4, <1>5 DEF Pending, n
  <2>4. \A j \in 1 .. l : \A i \in 1 .. w[j].calls :
          /\ j + i <= l + Pending(m)
          /\ j + i <= l => w[j + i].role = "tool"
    BY <1>1, Zenon DEF Wired
  <2> HIDE DEF w, e, v, k
  <2>5. l \in Nat /\ \A j \in 1 .. l : w[j].calls \in Nat
    <3>1. \A o \in OnWire : o.calls \in Nat
      BY DEF OnWire
    <3> QED BY <2>1, <3>1
  <2>6. /\ Len(v) = l + k
        /\ \A j \in 1 .. l : v[j] = w[j]
        /\ \A i \in 1 .. k : v[l + i] = e[i]
    <3>1. w \in Seq(OnWire) /\ e \in Seq(OnWire)
      BY <2>1, <2>2
    <3>2. Len(w \o e) = Len(w) + Len(e)
      BY ONLY <3>1, ConcatParts
    <3>3. \A i \in 1 .. Len(w) : (w \o e)[i] = w[i]
      BY ONLY <3>1, ConcatParts
    <3>4. \A i \in 1 .. Len(e) : (w \o e)[Len(w) + i] = e[i]
      BY ONLY <3>1, ConcatParts
    <3> QED BY <2>1, <2>2, <3>2, <3>3, <3>4
  <2> HIDE DEF l
  <2>7. ASSUME NEW j \in 1 .. l + k, NEW i \in 1 .. v[j].calls
        PROVE  j + i <= (l + k) + 0 /\ (j + i <= l + k => v[j + i].role = "tool")
    <3>1. CASE j \in 1 .. l
      <4>1. v[j] = w[j] /\ w[j].calls \in Nat
        BY <2>5, <2>6, <3>1
      <4>2. i \in 1 .. w[j].calls /\ i \in Nat
        BY <4>1
      <4>3. /\ j + i <= l + Pending(m)
            /\ j + i <= l => w[j + i].role = "tool"
        BY <2>4, <3>1, <4>2, Zenon
      <4>4. CASE j + i <= l
        <5>1. j + i \in 1 .. l
          BY <2>5, <4>2, <4>4
        <5> QED BY <1>5, <2>5, <2>6, <4>2, <4>3, <4>4, <5>1
      <4>5. CASE ~(j + i <= l)
        <5>1. (j + i) - l \in 1 .. k /\ l + ((j + i) - l) = j + i /\ j + i <= (l + k) + 0
          BY <1>5, <2>3, <2>5, <4>2, <4>3, <4>5
        <5>2. v[j + i] = e[(j + i) - l]
          BY <2>6, <5>1
        <5> QED BY <2>2, <5>1, <5>2
      <4> QED BY <4>4, <4>5
    <3>2. CASE ~(j \in 1 .. l)
      <4>1. j - l \in 1 .. k /\ l + (j - l) = j
        BY <1>5, <2>5, <3>2
      <4>2. v[j].calls = 0
        BY <2>2, <2>6, <4>1
      <4> QED BY <4>2
    <3> QED BY <3>1, <3>2
  <2> QED BY <2>3, <2>6, <2>7 DEF Wired, v
<1> QED BY <1>3, <1>7, <1>8, <1>9 DEF Talk, b, x

(* The first message. *)
LEMMA TalkStarts == Talk(<<UserText>>) /\ Odd(Len(<<UserText>>))
<1> DEFINE x == UserText
           b == <<x>>
           o == <<>>
<1>1. x \in Messages /\ x.role = "user" /\ x.calls = <<>> /\ x.results = <<>>
  BY MessageTypes DEF UserText
<1> HIDE DEF x
<1>2. /\ b \in Seq(Messages) /\ b # <<>> /\ Len(b) = 1 /\ b[1] = x /\ DOMAIN b = {1}
      /\ o \in Seq(Messages) /\ b = Append(o, x)
  BY <1>1, EmptySeq
<1> HIDE DEF b
<1>3. Odd(Len(b)) /\ Odd(1)
  BY <1>2 DEF Odd
<1>4. Alternates(b)
  BY <1>1, <1>2, <1>3 DEF Alternates
<1>5. IdsOf(o) = <<>> /\ Wire(o) = <<>>
  <2>1. \A s : FlattenSeq(s) = IF Len(s) = 0 THEN s ELSE FlattenSeq(s)
    BY DEF FlattenSeq
  <2>2. [i \in DOMAIN o |-> ClaudeCalls(o[i])] = <<>> /\ [i \in DOMAIN o |-> OllamaWire(o[i])] = <<>>
    OBVIOUS
  <2> QED BY <2>1, <2>2, EmptySeq DEF IdsOf, Wire
<1>6. Unique(b)
  <2> DEFINE c == ClaudeCalls(x)
  <2>1. IdsOf(b) = <<>> \o c /\ c \in Seq(Id) /\ Len(c) = 0
    BY <1>1, <1>2, <1>5, IdsAppend, WiresType
  <2> HIDE DEF c
  <2>2. c = <<>> /\ <<>> \o c = c
    BY <2>1, EmptySeq, ConcatEmptySeq
  <2>3. IdsOf(b) = <<>>
    BY <2>1, <2>2
  <2> QED BY <2>3, EmptySeq DEF Unique, IsInjective
<1>7. Wired(b)
  <2> DEFINE e == OllamaWire(x)
  <2>1. Wire(b) = <<>> \o e /\ e \in Seq(OnWire)
    BY <1>1, <1>2, <1>5, WireAppend, OllamaWireType
  <2>2. Len(e) = 1 /\ e[1].calls = 0
    BY <1>1, OllamaWireType
  <2> HIDE DEF e
  <2>3. Wire(b) = e
    BY <2>1, ConcatEmptySeq
  <2>4. \A j \in 1 .. Len(e) : \A k \in 1 .. e[j].calls : FALSE
    BY <2>2
  <2> QED BY <2>3, <2>4 DEF Wired
<1> QED BY <1>2, <1>3, <1>4, <1>6, <1>7 DEF Talk, b, x

(* A conversation that has something for each call can go on, with whom    *)
(* the property says.                                                      *)
SaysAll(m) == \A i \in DOMAIN m : \A n \in DOMAIN m[i].results : m[i].results[n].id # None

LEMMA TalkIsAccepted ==
  ASSUME NEW m, Talk(m), Odd(Len(m)), None \notin Names
  PROVE  /\ \A i \in DOMAIN m :
              /\ m[i].role = IF i % 2 = 1 THEN "user" ELSE "assistant"
              /\ m[i].role = "assistant" =>
                   /\ i < Len(m)
                   /\ SentBack(m[i + 1], m[i])
         /\ Accepts("ollama", m)
         /\ SaysAll(m) /\ NamedIn(m) = {} => Accepts("claude", m)
         /\ SaysAll(m) /\ NamedIn(m) = {i \in DOMAIN m : m[i].role = "assistant"} => Accepts("gemini", m)
<1> DEFINE n == Len(m)
<1>1. m \in Seq(Messages) /\ Alternates(m) /\ Unique(m) /\ Wired(m) /\ m # <<>>
  BY DEF Talk
<1>2. n \in Nat /\ DOMAIN m = 1 .. n /\ \A i \in 1 .. n : m[i] \in Messages
  BY <1>1, MessagesAppend, MessageTypes
<1>3. ASSUME NEW i \in DOMAIN m
      PROVE  /\ Odd(i) => m[i].role = "user"
             /\ ~Odd(i) =>
                  /\ m[i].role = "assistant" /\ i < n /\ m[i].calls # <<>>
                  /\ SentBack(m[i + 1], m[i])
                  /\ Fresh(m[i].calls, i - 1) \/ Named(m[i].calls)
  <2>1. i \in 1 .. n
    BY <1>2
  <2>2. ~Odd(i) => i < n
    BY <1>2, <2>1
  <2> QED BY <1>1, <2>1, <2>2 DEF Alternates
<1>4. ASSUME NEW i \in DOMAIN m
      PROVE  /\ m[i].role = IF i % 2 = 1 THEN "user" ELSE "assistant"
             /\ m[i].role = "assistant" =>
                  i < Len(m) /\ SentBack(m[i + 1], m[i])
  BY <1>3 DEF Odd
<1>5. ASSUME SaysAll(m), NEW i \in Turns(m)
      PROVE  i \in DOMAIN m /\ ~Odd(i) /\ ClaudeCalls(m[i]) = ClaudeResults(m[i + 1])
  <2>1. i \in DOMAIN m /\ ~Odd(i) /\ i + 1 \in DOMAIN m /\ SentBack(m[i + 1], m[i])
    BY <1>2, <1>3 DEF Turns
  <2> DEFINE x == m[i]
             y == m[i + 1]
             k == Len(x.calls)
             c == ClaudeCalls(x)
             q == ClaudeResults(y)
             Ids == Id \cup {None}
  <2>2. x \in Messages /\ y \in Messages
    BY <1>2, <2>1
  <2>3. SentBack(y, x) /\ \A j \in DOMAIN y.results : y.results[j].id # None
    BY <1>5, <2>1 DEF SaysAll
  <2> HIDE DEF x, y
  <2>4. c \in Seq(Id) /\ Len(c) = k /\ \A j \in 1 .. k : c[j] = x.calls[j].id
    BY <2>2, WiresType
  <2>5. /\ q \in Seq(Ids) /\ Len(q) = Len(y.results)
        /\ \A j \in 1 .. Len(y.results) : q[j] = y.results[j].id
    BY <2>2, WiresType
  <2>6. DOMAIN x.calls = 1 .. k /\ DOMAIN y.results = 1 .. Len(y.results)
    BY <2>2, WiresType
  <2>7. Len(y.results) = k /\ \A j \in 1 .. k : y.results[j].id = x.calls[j].id
    BY <2>3, <2>6 DEF SentBack, SentFor
  <2>8. c \in Seq(Ids)
    BY <2>4, SeqDef
  <2> HIDE DEF c, q, Ids
  <2>9. c = q
    BY <2>4, <2>5, <2>7, <2>8, SeqEqual
  <2> QED BY <2>1, <2>9 DEF c, q, x, y
<1>6. OllamaAccepts(m)
  <2> DEFINE w == Wire(m)
  <2>1. \A j \in 1 .. Len(w) : \A k \in 1 .. w[j].calls :
          /\ j + k <= Len(w) + Pending(m)
          /\ j + k <= Len(w) => w[j + k].role = "tool"
    BY <1>1, Zenon DEF Wired
  <2>2. Pending(m) = 0 /\ w \in Seq(OnWire)
    BY <1>1, WireAppend, MessageTypes DEF Pending
  <2> HIDE DEF w
  <2>3. ASSUME NEW j \in DOMAIN w, NEW k \in 1 .. w[j].calls
        PROVE  j + k \in DOMAIN w /\ w[j + k].role = "tool"
    <3>1. Len(w) \in Nat /\ j \in 1 .. Len(w) /\ DOMAIN w = 1 .. Len(w) /\ w[j] \in OnWire
      BY <2>2
    <3>2. k \in Nat /\ k >= 1
      <4>1. w[j].calls \in Nat
        BY <3>1 DEF OnWire
      <4> QED BY <4>1
    <3>3. /\ j + k <= Len(w) + Pending(m)
          /\ j + k <= Len(w) => w[j + k].role = "tool"
      BY <2>1, <3>1, Zenon
    <3> QED BY <2>2, <3>1, <3>2, <3>3
  <2> QED BY <2>3 DEF OllamaAccepts, w, Wire
<1>7. ASSUME SaysAll(m), NamedIn(m) = {}
      PROVE  ClaudeAccepts(m)
  <2>1. IsInjective(FlattenSeq([i \in DOMAIN m |-> ClaudeCalls(m[i])]))
    BY <1>1, <1>7 DEF Unique, IdsOf
  <2> QED BY <1>5, <1>7, <2>1 DEF ClaudeAccepts
<1>8. ASSUME SaysAll(m), NamedIn(m) = {i \in DOMAIN m : m[i].role = "assistant"}
      PROVE  GeminiAccepts(m)
  <2> SUFFICES ASSUME NEW i \in Turns(m)
               PROVE  GeminiCalls(m[i]) = GeminiResponses(m[i + 1])
    BY DEF GeminiAccepts
  <2>1. i \in DOMAIN m /\ ~Odd(i) /\ m[i].role = "assistant" /\ i \in NamedIn(m)
        /\ ClaudeCalls(m[i]) = ClaudeResults(m[i + 1])
    BY <1>3, <1>5, <1>8
  <2>2. Named(m[i].calls)
    <3>1. PICK k \in DOMAIN m[i].calls : m[i].calls[k].id.name # None
      BY <2>1 DEF NamedIn
    <3>2. ~Fresh(m[i].calls, i - 1)
      BY <3>1, IdParts DEF Fresh
    <3> QED BY <1>3, <2>1, <3>2
  <2> DEFINE cs == m[i].calls
  <2>3. cs \in Seq(Call) /\ \A c \in Call : c.name \in Names
    BY <1>2, <2>1, WiresType DEF Call
  <2>4. GeminiCalls(m[i]) = [k \in DOMAIN cs |-> NameId(cs[k].name)]
    BY DEF GeminiCalls
  <2>5. ClaudeCalls(m[i]) = [k \in DOMAIN cs |-> cs[k].id]
    BY DEF ClaudeCalls
  <2>6. \A k \in DOMAIN cs : cs[k].id = NameId(cs[k].name)
    BY <2>2 DEF Named
  <2>7. GeminiCalls(m[i]) = ClaudeCalls(m[i])
    BY <2>4, <2>5, <2>6
  <2>8. GeminiResponses(m[i + 1]) = ClaudeResults(m[i + 1])
    BY DEF GeminiResponses, ClaudeResults
  <2> QED BY <2>1, <2>7, <2>8
<1>9. /\ Accepts("ollama", m) <=> OllamaAccepts(m)
      /\ Accepts("claude", m) <=> ClaudeAccepts(m)
      /\ Accepts("gemini", m) <=> GeminiAccepts(m)
  BY Zenon DEF Accepts
<1> QED BY <1>4, <1>6, <1>7, <1>8, <1>9

LEMMA ConversationEnds == ASSUME phase' \notin {"ask", "act"} PROVE Conversation'
BY DEF Conversation

LEMMA ConversationKept ==
  ASSUME Conversation, UNCHANGED <<loop, phase, messages, todo, results>>
  PROVE  Conversation'
BY DEF Conversation, Halfway

(* The result of the next call: what is served is one more, in its place.  *)
LEMMA HalfwayServe ==
  ASSUME TypeOK, todo # <<>>, NEW kind \in {"ok", "error", "image"}, Serve(kind),
         NEW last \in Messages, Halfway(last)
  PROVE  /\ Len(last.calls) = Len(results') + Len(todo')
         /\ \A n \in 1 .. Len(results') : SentFor(results'[n], last.calls[n])
         /\ \A n \in 1 .. Len(todo') : todo'[n].id = last.calls[Len(results') + n].id
<1> DEFINE r == [id |-> ResultId(kind), kind |-> kind]
           k == Len(results)
<1>1. /\ todo \in Seq(Call) /\ results \in Seq(Result) /\ k \in Nat /\ Len(todo) \in Nat \ {0}
      /\ Head(todo) = todo[1]
  BY DEF TypeOK
<1>2. r \in Result /\ (r.id = todo[1].id \/ (r.id = None /\ r.kind = "image"))
  <2>1. \A c \in Call : c.id \in Id
    BY DEF Call
  <2>2. todo[1] \in Call
    BY <1>1
  <2> QED BY <1>1, <2>1, <2>2 DEF Result, ResultId
<1>3. results' = Append(results, r)
  BY DEF Serve
<1> HIDE DEF r
<1>4. /\ Len(todo') = Len(todo) - 1 /\ \A i \in 1 .. Len(todo') : todo'[i] = todo[i + 1]
      /\ Len(results') = k + 1
  BY ServeType
<1>5. /\ Len(last.calls) = k + Len(todo)
      /\ \A n \in 1 .. k : SentFor(results[n], last.calls[n])
      /\ \A n \in 1 .. Len(todo) : todo[n].id = last.calls[k + n].id
  BY DEF Halfway
<1>6. (\A n \in 1 .. k : results'[n] = results[n]) /\ results'[k + 1] = r
  BY <1>1, <1>2, <1>3
<1> HIDE DEF k
<1>7. ASSUME NEW n \in 1 .. k + 1 PROVE SentFor(results'[n], last.calls[n])
  <2>1. CASE n \in 1 .. k
    BY <1>5, <1>6, <2>1
  <2>2. CASE n = k + 1
    <3>1. 1 \in 1 .. Len(todo)
      BY <1>1
    <3> QED BY <1>2, <1>5, <1>6, <2>2, <3>1 DEF SentFor
  <2> QED BY <1>1, <2>1, <2>2
<1>8. ASSUME NEW n \in 1 .. Len(todo') PROVE todo'[n].id = last.calls[(k + 1) + n].id
  <2>1. n + 1 \in 1 .. Len(todo) /\ k + (n + 1) = (k + 1) + n
    BY <1>1, <1>4
  <2>2. todo'[n] = todo[n + 1] /\ todo[n + 1].id = last.calls[k + (n + 1)].id
    BY <1>4, <1>5, <2>1
  <2> QED BY <2>1, <2>2
<1>9. Len(last.calls) = (k + 1) + Len(todo')
  BY <1>1, <1>4, <1>5
<1>10. Len(results') = k + 1
  BY <1>4
<1> QED BY <1>7, <1>8, <1>9, <1>10

LEMMA ConversationAnswered ==
  ASSUME TInv, Conversation, phase = "act", loop # "ollama", UNCHANGED loop,
         NEW kind \in {"ok", "error", "image"}, Answered(kind)
  PROVE  Conversation'
<1> DEFINE last == messages[Len(messages)]
<1>1. /\ Talk(messages) /\ ~Odd(Len(messages)) /\ Halfway(last)
      /\ todo # <<>> /\ TypeOK
  BY DEF Conversation, TInv, Standing
<1>2. messages \in Seq(Messages) /\ last \in Messages /\ Len(messages) \in Nat
  <2>1. messages \in Seq(Messages) /\ Len(messages) \in Nat /\ messages # <<>>
    BY <1>1 DEF Talk
  <2>2. Len(messages) \in 1 .. Len(messages)
    BY <2>1, EmptySeq
  <2>3. \A i \in 1 .. Len(messages) : messages[i] \in Messages
    BY <2>1, MessageTypes, MessagesAppend
  <2> QED BY <2>1, <2>2, <2>3
<1>3. /\ Serve(kind)
      /\ \/ /\ phase' = "ask" /\ todo' = <<>>
            /\ messages' = Append(messages, UserResults(results'))
         \/ phase' = "act" /\ UNCHANGED messages
  BY AnsweredType
<1>4. /\ Len(last.calls) = Len(results') + Len(todo')
      /\ \A n \in 1 .. Len(results') : SentFor(results'[n], last.calls[n])
      /\ \A n \in 1 .. Len(todo') : todo'[n].id = last.calls[Len(results') + n].id
  <2> HIDE DEF last
  <2> QED BY <1>1, <1>2, <1>3, HalfwayServe
<1>5. results' \in Seq(Result)
  BY <1>1, <1>3, ServeType
<1>6. CASE phase' = "act" /\ UNCHANGED messages
  BY <1>1, <1>4, <1>6 DEF Conversation, Halfway
<1>7. CASE /\ phase' = "ask" /\ todo' = <<>>
           /\ messages' = Append(messages, UserResults(results'))
  <2> DEFINE rs == results'
  <2>1. Len(rs) = Len(last.calls) /\ rs \in Seq(Result)
    BY <1>4, <1>5, <1>7, EmptySeq
  <2> HIDE DEF rs
  <2>2. \A n \in 1 .. Len(rs) : SentFor(rs[n], messages[Len(messages)].calls[n])
    BY <1>4 DEF rs
  <2>3. Talk(Append(messages, UserResults(rs)))
    BY <1>1, <2>1, <2>2, TalkTells
  <2>4. Odd(Len(Append(messages, UserResults(rs))))
    <3>1. UserResults(rs) \in Messages
      BY <2>1, MessageTypes
    <3>2. Len(Append(messages, UserResults(rs))) = Len(messages) + 1
      BY <1>2, <3>1, MessagesAppend
    <3> QED BY <1>1, <1>2, <3>2, Parity
  <2>5. messages' = Append(messages, UserResults(rs))
    BY <1>7 DEF rs
  <2>6. Talk(messages') /\ Odd(Len(messages'))
    BY <2>3, <2>4, <2>5
  <2> QED BY <1>7, <2>6 DEF Conversation
<1> QED BY <1>3, <1>6, <1>7

LEMMA ConversationOllama ==
  ASSUME TInv, Conversation, OllamaActionDone
  PROVE  Conversation'
<1> DEFINE name == Head(todo).name
           x == Assistant("ollama", todo)
           m == messages
           kind == AnswerKind("ollama", name)
<1>1. /\ phase = "act" /\ loop = "ollama" /\ todo # <<>> /\ Len(todo) <= 1 /\ TypeOK
      /\ Talk(m) /\ Odd(Len(m)) /\ results = <<>>
      /\ Fresh(todo, Len(m)) \/ Named(todo)
  BY DEF OllamaActionDone, Serving, TInv, Standing, Conversation
<1>2. kind \in {"ok", "error", "image"}
  BY DEF AnswerKind
<1>3. /\ Serve(kind)
      /\ IF name \in {"done", "stuck"}
         THEN phase' = "returned"
         ELSE phase' = "ask" /\ messages' = Append(Append(m, x), UserResults(results'))
  BY DEF OllamaActionDone, Leave, Return, NextRound
<1> HIDE DEF kind
<1>4. CASE name \in {"done", "stuck"}
  BY <1>3, <1>4, ConversationEnds
<1>5. CASE name \notin {"done", "stuck"}
  <2>1. m \in Seq(Messages) /\ todo \in Seq(Call) /\ "ollama" \in Providers /\ None \notin Names
    BY <1>1, LoopsAssumption DEF Talk, TypeOK, Providers
  <2>2. x \in Messages /\ x.calls = todo
    BY <2>1, MessageTypes DEF Assistant
  <2> DEFINE b == Append(m, x)
             rs == results'
  <2>3. Talk(b)
    <3> HIDE DEF m
    <3> QED BY <1>1, <2>1, TalkAsks
  <2> HIDE DEF x
  <2>4. b \in Seq(Messages) /\ Len(b) = Len(m) + 1 /\ b[Len(m) + 1] = x /\ Len(m) \in Nat
    BY <2>1, <2>2, MessagesAppend
  <2>5. ~Odd(Len(b))
    BY <1>1, <2>4, Parity
  <2> HIDE DEF b
  <2>6. Halfway(x)
    BY <1>1, <2>1, <2>2 DEF Halfway
  <2>7. /\ Len(todo) = Len(rs) + Len(todo') /\ todo' = <<>> /\ rs \in Seq(Result)
        /\ \A n \in 1 .. Len(rs) : SentFor(rs[n], todo[n])
    BY <1>1, <1>2, <1>3, <2>2, <2>6, HalfwayServe, ServeType
  <2>8. Len(rs) = Len(b[Len(b)].calls) /\ \A n \in 1 .. Len(rs) : SentFor(rs[n], b[Len(b)].calls[n])
    <3>1. Len(rs) = Len(todo)
      BY <2>7, EmptySeq
    <3> QED BY <2>2, <2>4, <2>7, <3>1
  <2> HIDE DEF rs
  <2> DEFINE c == Append(b, UserResults(rs))
  <2>9. Talk(c)
    BY <2>3, <2>5, <2>7, <2>8, TalkTells
  <2>10. Odd(Len(c))
    <3>1. UserResults(rs) \in Messages
      BY <2>7, MessageTypes
    <3>2. Len(c) = Len(b) + 1 /\ Len(b) \in Nat
      BY <2>4, <3>1, MessagesAppend
    <3> QED BY <2>5, <3>2, Parity
  <2>11. phase' = "ask" /\ messages' = c
    BY <1>3, <1>5 DEF b, rs
  <2> HIDE DEF c
  <2>12. Talk(messages') /\ Odd(Len(messages'))
    BY <2>9, <2>10, <2>11
  <2> QED BY <2>11, <2>12 DEF Conversation
<1> QED BY <1>4, <1>5

LEMMA ConversationAnswer ==
  ASSUME TInv, Conversation, NEW names \in NamesOf(loop), NEW done \in BOOLEAN,
         NEW success \in BOOLEAN, NEW error \in Errors, NEW p \in Providers, NEW given \in BOOLEAN,
         AnswerStep(names, done, success, error, p, given)
  PROVE  Conversation'
<1> DEFINE calls == Decoded(p, names, given, Len(messages))
           m == messages
<1>1. /\ calls \in Seq(Call) /\ Len(calls) = Len(names) /\ names \in Seq(Asked(loop))
      /\ names = <<>> <=> calls = <<>>
  BY AnswerStepType
<1>2. /\ phase = "ask"
      /\ IF names = <<>> THEN NoCalls /\ Leave(success, error) ELSE TakeCalls(calls)
      /\ messages' = IF loop = "ollama" \/ (loop = "demo" /\ names = <<>>) THEN messages
                     ELSE Append(messages, Assistant(p, calls))
      /\ UNCHANGED loop
  BY DEF AnswerStep, AskUnchanged, setting
<1>3. Fresh(calls, Len(m)) \/ Named(calls)
  <2> DEFINE S == DOMAIN names
             turn == Len(m)
  <2>1. calls = [n \in S |-> [id |-> CallId(p, names[n], given, turn, n), name |-> names[n]]]
    BY DEF Decoded
  <2> HIDE DEF S, turn, calls
  <2>2. \A n \in DOMAIN calls :
          calls[n].id = CallId(p, names[n], given, turn, n) /\ calls[n].name = names[n]
    BY <2>1
  <2>3. Fresh(calls, turn) \/ Named(calls)
    BY <2>2 DEF CallId, Fresh, Named
  <2> QED BY <2>3 DEF turn
<1> HIDE DEF calls
<1>4. CASE names = <<>>
  BY <1>2, <1>4, ConversationEnds DEF Leave, Return
<1>5. CASE names # <<>>
  <2>1. phase' = "act" /\ todo' = calls /\ results' = <<>>
    BY <1>2, <1>5 DEF TakeCalls
  <2>2. Talk(m) /\ Odd(Len(m)) /\ m \in Seq(Messages) /\ None \notin Names /\ calls # <<>>
    BY <1>1, <1>2, <1>5, LoopsAssumption DEF Conversation, Talk
  <2>3. CASE loop = "ollama"
    <3>1. messages' = messages /\ loop' = "ollama"
      BY <1>2, <2>3
    <3>2. (Fresh(todo, Len(messages)) \/ Named(todo))'
      BY <1>3, <2>1, <3>1 DEF Fresh, Named
    <3> QED BY <2>1, <2>2, <3>1, <3>2 DEF Conversation
  <2>4. CASE loop # "ollama"
    <3> DEFINE x == Assistant(p, calls)
               b == Append(m, x)
    <3>1. Talk(b)
      <4> HIDE DEF m
      <4> QED BY <1>1, <1>3, <2>2, TalkAsks
    <3>2. x \in Messages /\ x.calls = calls
      BY <1>1, MessageTypes DEF Assistant
    <3> HIDE DEF x
    <3>3. Len(b) = Len(m) + 1 /\ Len(m) \in Nat /\ b[Len(b)] = x
      BY <2>2, <3>2, MessagesAppend
    <3>4. ~Odd(Len(b))
      BY <2>2, <3>3, Parity
    <3>5. messages' = b /\ loop' # "ollama"
      BY <1>2, <1>5, <2>4 DEF x
    <3> HIDE DEF b
    <3>6. (Halfway(messages[Len(messages)]))'
      <4>1. /\ Len(x.calls) = Len(results') + Len(todo')
            /\ \A n \in 1 .. Len(results') : SentFor(results'[n], x.calls[n])
            /\ \A n \in 1 .. Len(todo') : todo'[n].id = x.calls[Len(results') + n].id
        BY <1>1, <2>1, <3>2
      <4> QED BY <3>3, <3>5, <4>1 DEF Halfway
    <3>7. (Talk(messages) /\ ~Odd(Len(messages)))'
      <4>1. Talk(messages') /\ ~Odd(Len(messages'))
        BY <3>1, <3>4, <3>5
      <4> QED BY <4>1
    <3> QED BY <2>1, <3>5, <3>6, <3>7 DEF Conversation
  <2> QED BY <2>3, <2>4
<1> QED BY <1>4, <1>5

LEMMA ConversationNext == TInv /\ Conversation /\ [Next]_vars => Conversation'
<1> SUFFICES ASSUME TInv, Conversation, [Next]_vars PROVE Conversation'
  OBVIOUS
<1>1. CASE UNCHANGED vars
  BY <1>1, ConversationKept DEF vars, setting, talk
<1>2. CASE AnswerNext
  BY <1>2, AnswersAreOne, ConversationAnswer
<1>3. CASE Start
  <2>1. phase' = "ask" /\ messages' = <<UserText>>
    BY <1>3 DEF Start
  <2>2. Talk(messages') /\ Odd(Len(messages'))
    BY <2>1, TalkStarts
  <2> QED BY <2>1, <2>2 DEF Conversation
<1>4. CASE NoKey \/ NoSdk \/ StartRaises \/ DemoRaises \/ DemoHasNobody \/ LoopRaises
             \/ Exhausted \/ LogRaises \/ NextTask \/ Report
  BY <1>4, ConversationEnds DEF NoKey, NoSdk, StartRaises, DemoRaises, DemoHasNobody, LoopRaises,
     Exhausted, LogRaises, NextTask, Report, Die, Leave, Return
<1>5. CASE TakeUp \/ Gesture
  BY <1>5, ConversationKept DEF TakeUp, Gesture, setting
<1>6. ASSUME NEW kind \in {"ok", "error", "image"}, DemoExecutes(kind)
      PROVE  Conversation'
  BY <1>6, ConversationAnswered DEF DemoExecutes, Serving, setting
<1>7. CASE ActionDone
  <2> DEFINE kind == AnswerKind(loop, Head(todo).name)
  <2>1. kind \in {"ok", "error", "image"}
    BY DEF AnswerKind
  <2>2. phase = "act" /\ loop # "ollama" /\ UNCHANGED loop /\ Answered(kind)
    BY <1>7 DEF ActionDone, Serving, setting
  <2> HIDE DEF kind
  <2> QED BY <2>1, <2>2, ConversationAnswered
<1>8. CASE OllamaActionDone
  BY <1>8, ConversationOllama
<1> QED BY <1>1, <1>2, <1>3, <1>4, <1>5, <1>6, <1>7, <1>8 DEF Next, AnswerNext

(* Outside of gemini_loop.py every result says its call. *)
Spoken ==
  loop # "gemini" =>
    /\ SaysAll(messages)
    /\ \A n \in DOMAIN results : results[n].id # None

LEMMA SaysAppend ==
  ASSUME NEW m \in Seq(Messages), SaysAll(m), NEW x \in Messages,
         \A n \in DOMAIN x.results : x.results[n].id # None
  PROVE  SaysAll(Append(m, x))
<1> DEFINE b == Append(m, x)
<1>1. /\ DOMAIN m = 1 .. Len(m) /\ DOMAIN b = 1 .. Len(m) + 1 /\ Len(m) \in Nat
      /\ b[Len(m) + 1] = x /\ \A i \in 1 .. Len(m) : b[i] = m[i]
  BY MessagesAppend
<1> HIDE DEF b
<1>2. ASSUME NEW i \in DOMAIN b, NEW n \in DOMAIN b[i].results PROVE b[i].results[n].id # None
  <2>1. CASE i = Len(m) + 1
    BY <1>1, <1>2, <2>1
  <2>2. CASE i # Len(m) + 1
    <3>1. i \in 1 .. Len(m) /\ b[i] = m[i]
      BY <1>1, <1>2, <2>2
    <3> QED BY <1>1, <1>2, <3>1 DEF SaysAll
  <2> QED BY <2>1, <2>2
<1> QED BY <1>2 DEF SaysAll, b

LEMMA SpokenKept ==
  ASSUME Spoken, UNCHANGED <<loop, messages, results>> PROVE Spoken'
BY DEF Spoken, SaysAll

(* The next result says its call. *)
LEMMA SpokenServe ==
  ASSUME TypeOK, todo # <<>>, Spoken, loop # "gemini",
         NEW kind \in {"ok", "error", "image"}, Serve(kind)
  PROVE  \A n \in DOMAIN results' : results'[n].id # None
<1> DEFINE r == [id |-> ResultId(kind), kind |-> kind]
<1>1. /\ todo \in Seq(Call) /\ results \in Seq(Result) /\ todo[1] \in Call
      /\ Head(todo) = todo[1]
  BY DEF TypeOK
<1>2. \A c \in Call : c.id \in Id
  BY DEF Call
<1>3. r.id = Head(todo).id /\ r.id \in Id /\ r.id # None /\ r \in Result
  BY <1>1, <1>2, LoopsAssumption DEF ResultId, Result
<1>4. results' = Append(results, r)
  BY DEF Serve
<1> HIDE DEF r
<1> QED BY <1>1, <1>3, <1>4 DEF Spoken

LEMMA SpokenAnswered ==
  ASSUME TInv, Spoken, phase = "act", UNCHANGED loop,
         NEW kind \in {"ok", "error", "image"}, Answered(kind)
  PROVE  Spoken'
<1> SUFFICES ASSUME loop # "gemini"
             PROVE  SaysAll(messages') /\ \A n \in DOMAIN results' : results'[n].id # None
  BY DEF Spoken, SaysAll
<1>1. /\ Serve(kind)
      /\ \/ messages' = Append(messages, UserResults(results'))
         \/ UNCHANGED messages
  BY AnsweredType
<1>2. TypeOK /\ todo # <<>> /\ SaysAll(messages)
  BY DEF TInv, Standing, Spoken
<1>3. \A n \in DOMAIN results' : results'[n].id # None
  BY <1>1, <1>2, SpokenServe
<1> DEFINE rs == results'
<1>4. UserResults(rs) \in Messages /\ UserResults(rs).results = rs
  BY <1>1, <1>2, ServeType, MessageTypes DEF UserResults
<1>5. messages \in Seq(Messages)
  BY <1>2 DEF TypeOK, Messages
<1> HIDE DEF rs
<1>6. SaysAll(Append(messages, UserResults(rs)))
  BY <1>2, <1>3, <1>4, <1>5, SaysAppend DEF rs
<1> QED BY <1>1, <1>2, <1>3, <1>6 DEF rs

LEMMA SpokenOllama ==
  ASSUME TInv, Spoken, OllamaActionDone PROVE Spoken'
<1> DEFINE name == Head(todo).name
           kind == AnswerKind("ollama", name)
           x == Assistant("ollama", todo)
           rs == results'
           b == Append(messages, x)
<1>1. /\ TypeOK /\ todo # <<>> /\ loop = "ollama" /\ UNCHANGED loop
      /\ SaysAll(messages) /\ messages \in Seq(Messages)
      /\ kind \in {"ok", "error", "image"} /\ Serve(kind)
      /\ messages' = b \/ messages' = Append(b, UserResults(rs))
  BY DEF OllamaActionDone, Serving, TInv, Standing, Spoken, setting, TypeOK, Messages,
     AnswerKind, NextRound
<1>2. \A n \in DOMAIN rs : rs[n].id # None
  BY <1>1, SpokenServe
<1>3. x \in Messages /\ x.results = <<>> /\ DOMAIN <<>> = {}
  <2>1. todo \in Seq(Call) /\ "ollama" \in Providers
    BY <1>1 DEF TypeOK, Providers
  <2> QED BY <2>1, MessageTypes DEF Assistant
<1>4. rs \in Seq(Result)
  BY <1>1, ServeType
<1> HIDE DEF x, rs, kind
<1>5. UserResults(rs) \in Messages /\ UserResults(rs).results = rs
  BY <1>4, MessageTypes DEF UserResults
<1>6. SaysAll(b)
  BY <1>1, <1>3, SaysAppend
<1>7. b \in Seq(Messages)
  BY <1>1, <1>3, MessagesAppend
<1> HIDE DEF b
<1>8. SaysAll(Append(b, UserResults(rs)))
  BY <1>2, <1>5, <1>6, <1>7, SaysAppend
<1>9. SaysAll(messages')
  BY <1>1, <1>6, <1>8
<1> QED BY <1>2, <1>9 DEF Spoken, SaysAll, rs

LEMMA SpokenAnswer ==
  ASSUME TInv, Spoken, NEW names \in NamesOf(loop), NEW done \in BOOLEAN,
         NEW success \in BOOLEAN, NEW error \in Errors, NEW p \in Providers, NEW given \in BOOLEAN,
         AnswerStep(names, done, success, error, p, given)
  PROVE  Spoken'
<1> DEFINE calls == Decoded(p, names, given, Len(messages))
           x == Assistant(p, calls)
<1>1. calls \in Seq(Call)
  BY AnswerStepType
<1>2. /\ results' = <<>> /\ UNCHANGED loop
      /\ messages' = messages \/ messages' = Append(messages, x)
  BY DEF AnswerStep, AskUnchanged, setting, NoCalls, TakeCalls
<1> HIDE DEF calls
<1>3. x \in Messages /\ x.results = <<>> /\ DOMAIN <<>> = {}
  BY <1>1, MessageTypes DEF Assistant
<1>4. messages \in Seq(Messages)
  BY DEF TInv, TypeOK, Messages
<1> HIDE DEF x
<1>5. SaysAll(messages) => SaysAll(Append(messages, x))
  BY <1>3, <1>4, SaysAppend
<1>6. DOMAIN results' = {}
  BY <1>2, <1>3
<1>7. SaysAll(messages) => SaysAll(messages')
  BY <1>2, <1>5
<1> QED BY <1>2, <1>6, <1>7 DEF Spoken, SaysAll

LEMMA SpokenNext == TInv /\ Spoken /\ [Next]_vars => Spoken'
<1> SUFFICES ASSUME TInv, Spoken, [Next]_vars PROVE Spoken'
  OBVIOUS
<1>1. CASE UNCHANGED vars
  BY <1>1, SpokenKept DEF vars, setting, talk
<1>2. CASE AnswerNext
  BY <1>2, AnswersAreOne, SpokenAnswer
<1>3. CASE Start
  <2>1. UNCHANGED <<loop, results>> /\ messages' = <<UserText>> /\ UserText.results = <<>>
    BY <1>3 DEF Start, setting, UserText
  <2>2. SaysAll(messages')
    BY <2>1 DEF SaysAll
  <2> QED BY <2>1, <2>2 DEF Spoken, SaysAll
<1>4. CASE NextTask
  <2>1. messages' = <<>> /\ results' = <<>>
    BY <1>4 DEF NextTask
  <2> QED BY <2>1 DEF Spoken, SaysAll
<1>5. CASE NoKey \/ NoSdk \/ StartRaises \/ DemoRaises \/ DemoHasNobody \/ LoopRaises
             \/ Exhausted \/ LogRaises \/ Report \/ TakeUp \/ Gesture
  BY <1>5, SpokenKept DEF NoKey, NoSdk, StartRaises, DemoRaises, DemoHasNobody, LoopRaises,
     Exhausted, LogRaises, Report, TakeUp, Gesture, setting, talk
<1>6. ASSUME NEW kind \in {"ok", "error", "image"}, DemoExecutes(kind)
      PROVE  Spoken'
  BY <1>6, SpokenAnswered DEF DemoExecutes, Serving, setting
<1>7. CASE ActionDone
  <2> DEFINE kind == AnswerKind(loop, Head(todo).name)
  <2>1. kind \in {"ok", "error", "image"}
    BY DEF AnswerKind
  <2>2. phase = "act" /\ UNCHANGED loop /\ Answered(kind)
    BY <1>7 DEF ActionDone, Serving, setting
  <2> HIDE DEF kind
  <2> QED BY <2>1, <2>2, SpokenAnswered
<1>8. CASE OllamaActionDone
  BY <1>8, SpokenOllama
<1> QED BY <1>1, <1>2, <1>3, <1>4, <1>5, <1>6, <1>7, <1>8 DEF Next, AnswerNext

LEMMA ConversationIsAccepted == TInv /\ Conversation /\ Spoken => ConversationCanGoOn
<1> SUFFICES ASSUME TInv, Conversation, Spoken, phase = "ask" PROVE ConversationCanGoOn
  BY DEF ConversationCanGoOn
<1>1. Talk(messages) /\ Odd(Len(messages)) /\ None \notin Names
  BY LoopsAssumption DEF Conversation
<1>2. NamedIn(messages) = NamesAsIds /\ (SaysAll(messages) <=> AllSayTheirCall)
  BY DEF NamedIn, NamesAsIds, SaysAll, AllSayTheirCall
<1>3. loop # "gemini" => AllSayTheirCall
  BY <1>2 DEF Spoken
<1> QED BY <1>1, <1>2, <1>3, TalkIsAccepted DEF ConversationCanGoOn

-------------------------------------------------------------------------------
(* The theorems *)

LoopsInv == TInv /\ Rounds /\ Seen /\ ReportIsTrue /\ Conversation /\ Spoken

LEMMA LoopsInvInit == Init => LoopsInv
<1> SUFFICES ASSUME Init PROVE LoopsInv
  OBVIOUS
<1>1. /\ transcript = <<>> /\ todo = <<>> /\ steps = None /\ results = <<>>
      /\ tool_calls = 0 /\ gestures = <<>> /\ phase = "start" /\ messages = <<>>
  BY DEF Init
<1>2. ReportIsTrue
  BY <1>1 DEF ReportIsTrue
<1>3. Conversation
  BY <1>1 DEF Conversation
<1>4. Spoken
  BY <1>1 DEF Spoken, SaysAll
<1> QED BY <1>1, <1>2, <1>3, <1>4, TInvInit, RoundsEmpty, SeenEmpty DEF LoopsInv

LEMMA LoopsInvNext == LoopsInv /\ [Next]_vars => LoopsInv'
<1> SUFFICES ASSUME LoopsInv, [Next]_vars PROVE LoopsInv'
  OBVIOUS
<1>1. TInv /\ Rounds /\ Seen /\ ReportIsTrue /\ Conversation /\ Spoken
  BY DEF LoopsInv
<1>2. TInv' /\ Rounds' /\ Seen' /\ Conversation' /\ Spoken'
  BY <1>1, TInvNext, RoundsNext, SeenNext, ConversationNext, SpokenNext
<1>3. ReportIsTrue'
  BY <1>1, <1>2, ReportNext
<1> QED BY <1>2, <1>3 DEF LoopsInv

LEMMA LoopsInvAlways == Spec => []LoopsInv
BY LoopsInvInit, LoopsInvNext, PTL DEF Spec

(* The four loops keep what they talk of: calls of the names the model may *)
(* use, gestures of tools.py, and a result for each id.                    *)
THEOREM LoopsTypeCorrect == Spec => []TypeOK
<1>1. LoopsInv => TypeOK
  BY DEF LoopsInv, TInv
<1> QED BY <1>1, LoopsInvAlways, PTL

(* A RunResult says what happened: the iterations and the calls are those  *)
(* of the transcript, and a success is a last answer that says so, whose   *)
(* calls were all served, with nothing raised.                             *)
THEOREM ReportsAreTrue == Spec => []ReportIsTrue
<1>1. LoopsInv => ReportIsTrue
  BY DEF LoopsInv
<1> QED BY <1>1, LoopsInvAlways, PTL

(* What was done to the desktop is a first part of what the answers ask    *)
(* for, in their order, and all of it when the model is asked again.       *)
THEOREM DesktopFollows == Spec => []DesktopFollowsTheModel
<1>1. LoopsInv => DesktopFollowsTheModel
  BY SeenIsFollowing DEF LoopsInv
<1> QED BY <1>1, LoopsInvAlways, PTL

(* When a model is asked, something was sent back for every call in the    *)
(* next message and in its place: the result with its id or, in the loop   *)
(* of Gemini only, a picture.  Without pictures the conversation is one    *)
(* that Ollama takes; that Claude takes, when no id is a name; that Gemini *)
(* takes, when Gemini made it and all its ids are names.                   *)
THEOREM ConversationsCanGoOn == Spec => []ConversationCanGoOn
<1>1. LoopsInv => ConversationCanGoOn
  BY ConversationIsAccepted DEF LoopsInv
<1> QED BY <1>1, LoopsInvAlways, PTL

LEMMA DialogueInit == Init => D!Init
<1> SUFFICES ASSUME Init PROVE D!Init
  OBVIOUS
<1>1. transcript = <<>> /\ results = <<>> /\ phase = "start"
  BY DEF Init
<1>2. [i \in DOMAIN transcript |-> transcript[i].calls] = <<>>
  BY <1>1
<1> QED BY <1>1, <1>2 DEF D!Init, Final

(* Each of the four loops implements Dialogue: it asks at most             *)
(* max_iterations times, and never before the last answer's calls are all  *)
(* served, one by one.                                                     *)
THEOREM LoopsImplementDialogue == Spec => LoopsAreDialogues
<1>1. LoopsInv /\ LoopsInv' /\ [Next]_vars => [D!Next]_(D!vars)
  BY DialogueNext DEF LoopsInv
<1> QED BY <1>1, DialogueInit, LoopsInvAlways, PTL DEF LoopsAreDialogues, D!Spec, Spec
=================================================================================
