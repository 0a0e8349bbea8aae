------------------------------- MODULE AgentLoops -------------------------------
(***************************************************************************)
(* The four loops that let a model act: the one of                         *)
(* agent/prototype/integration_demo.py, over the router, the providers and *)
(* the tool executor, and the three of the prototype (claude_loop.py,      *)
(* gemini_loop.py, ollama_loop.py), each talking to one SDK and making     *)
(* gestures on the desktop, with the benchmark of run.py that runs them    *)
(* task after task.                                                        *)
(*                                                                         *)
(* The models, the SDKs and the desktop are external: they answer with any *)
(* calls, and any step that touches them may raise.  What a tool does, and *)
(* which provider the router tries first, are in ToolExecutor and Router.  *)
(***************************************************************************)
EXTENDS ProviderMessages, DesktopActions, FiniteSets

CONSTANTS
  Tools,         \* the names of the registry of the demo
  Actions,       \* the actions a model of each prototype may ask for
  MaxCalls,      \* bound: calls of one answer
  MaxIterations, \* of RunConfig and of run()
  MaxTasks       \* BENCHMARK_TASKS

Loops     == {"demo", "claude", "gemini", "ollama"}
Providers == {"claude", "gemini", "ollama"}

Asked(l) == IF l = "demo" THEN Tools ELSE Actions[l]
Names    == UNION {Asked(l) : l \in Loops}
Id       == [name : Names \cup {None}, turn : Nat, n : Nat]

ASSUME LoopsAssumption ==
  /\ MaxCalls \in Nat \ {0} /\ MaxIterations \in Nat \ {0} /\ MaxTasks \in Nat \ {0}
  /\ DOMAIN Actions = Providers
  /\ None \notin Seq(Moves) \cup Names \cup Id

VARIABLES
  loop,       \* which program runs
  planned,    \* how many tasks: one, or those of the benchmark
  up,         \* the providers of the demo's router
  model,      \* of Ollama: whether it is listed and whether its name has a marker
  phase,
  messages,   \* messages, contents or history
  transcript, \* what each answer said (the demo prints it)
  todo,       \* the calls of the last answer that are not answered yet
  steps,      \* the gestures of the first of them still to make, None before it
  results,    \* tool_results, response_parts or results
  gestures,   \* history: what was done to the desktop in this task
  iteration, tool_calls,
  run,        \* RunResult, or the code the demo returns
  reports     \* results of _benchmark

setting == <<loop, planned, up, model>>
talk == <<messages, transcript, todo, steps, results, gestures, iteration, tool_calls>>
vars == <<setting, phase, talk, run, reports>>

Errors == {None, "max_iterations", "exception", "no_json", "not_installed", "no_provider"}

Final == {"reported", "exited", "died"}

Call   == [id : Id, name : Names]
Result == [id : Id \cup {None}, kind : {"ok", "error", "image"}]
RunResult == [success : BOOLEAN, iterations : Nat, tool_calls : Nat, error : Errors]

TypeOK ==
  /\ loop \in Loops /\ planned \in {1, MaxTasks} /\ up \subseteq Providers
  /\ model \in [listed : BOOLEAN, marked : BOOLEAN]
  /\ phase \in {"start", "ask", "act", "returned"} \cup Final
  /\ messages \in Seq([role : {"user", "assistant"}, by : Providers \cup {None},
                       calls : Seq(Call), results : Seq(Result)])
  /\ transcript \in Seq([calls : Seq(Asked(loop)), done : BOOLEAN])
  /\ todo \in Seq(Call) /\ results \in Seq(Result)
  /\ gestures \in Seq(Moves)
  /\ iteration \in 0 .. MaxIterations /\ tool_calls \in Nat
  /\ run \in RunResult \cup {None} /\ reports \in Seq(RunResult)

Init ==
  /\ loop \in Loops
  /\ planned \in IF loop = "demo" THEN {1} ELSE {1, MaxTasks}
  /\ up \in IF loop = "demo" THEN SUBSET Providers ELSE {{}}
  /\ model \in IF "ollama" \in up THEN [listed : BOOLEAN, marked : BOOLEAN]
               ELSE {[listed |-> FALSE, marked |-> FALSE]}
  /\ phase = "start"
  /\ messages = <<>> /\ transcript = <<>> /\ todo = <<>> /\ steps = None
  /\ results = <<>> /\ gestures = <<>> /\ iteration = 0 /\ tool_calls = 0
  /\ run = None /\ reports = <<>>

-------------------------------------------------------------------------------
(* The ends of a loop *)

Die == phase' = "died" /\ UNCHANGED run

(* RunResult(...), and the number that a loop gives as its iterations.     *)
Return(success, iterations, error) ==
  /\ phase' = "returned"
  /\ run' = [success |-> success, iterations |-> iterations,
             tool_calls |-> tool_calls, error |-> error]

(* The loops of the prototype give iteration + 1; the demo returns a code. *)
Leave(success, error) ==
  Return(success, IF loop = "demo" THEN 0 ELSE iteration + 1, error)

-------------------------------------------------------------------------------
(* Before the first question *)

(* run.py: no key; _build_router: no provider.  sys.exit.                  *)
NoKey ==
  /\ phase = "start"
  /\ loop \in {"claude", "gemini"} \/ (loop = "demo" /\ up = {})
  /\ phase' = "exited"
  /\ UNCHANGED <<setting, talk, run, reports>>

(* gemini_loop.py: no google-genai, or one without ComputerUse.            *)
NoSdk ==
  /\ phase = "start" /\ loop = "gemini"
  /\ Return(FALSE, 0, "not_installed")
  /\ UNCHANGED <<setting, talk, reports>>

(* The client, the size of the screen and the first screenshot are outside *)
(* of every try.                                                           *)
StartRaises ==
  /\ phase = "start" /\ loop # "demo"
  /\ Die
  /\ UNCHANGED <<setting, talk, reports>>

Start ==
  /\ phase = "start"
  /\ loop = "demo" => up # {}
  /\ messages' = <<UserText>>
  /\ phase' = "ask"
  /\ UNCHANGED <<setting, transcript, todo, steps, results, gestures, iteration,
                 tool_calls, run, reports>>

-------------------------------------------------------------------------------
(* The model is asked *)

(* A fault: one question too many. *)
AskingOnce(l) == phase = "ask" /\ loop = l /\ iteration <= MaxIterations

Asking(l) == phase = "ask" /\ loop = l /\ iteration < MaxIterations

NamesOf(l) == UNION {[1 .. n -> Asked(l)] : n \in 0 .. MaxCalls}

(* The words of success are looked for in an answer without calls only.    *)
Said(names, done) == transcript' = Append(transcript, [calls |-> names, done |-> done])

(* The answer has calls: they are served one by one.                       *)
TakeCalls(calls) ==
  /\ todo' = calls /\ results' = <<>> /\ phase' = "act"
  /\ UNCHANGED run

(* The answer has none. *)
NoCalls == todo' = <<>> /\ results' = <<>>

AskUnchanged == UNCHANGED <<setting, steps, gestures, iteration, tool_calls, reports>>

ClaudeSucceeds(stop, done) == stop = "end_turn" /\ done

(* claude_loop.py: an answer without a tool_use ends the loop; it is a     *)
(* success when it is an end_turn with the words that are looked for.      *)
ClaudeAnswers(names, stop, done) ==
  /\ Asking("claude")
  /\ stop = "tool_use" => names # <<>>
  /\ stop = "end_turn" => names = <<>>
  /\ done => names = <<>>
  /\ Said(names, done)
  /\ LET calls == Decoded("claude", names, TRUE, Len(messages))
     IN  /\ messages' = Append(messages, Assistant("claude", calls))
         /\ IF names = <<>>
            THEN NoCalls /\ Leave(ClaudeSucceeds(stop, done), None)
            ELSE TakeCalls(calls)
  /\ AskUnchanged

(* gemini_loop.py: an answer without a function_call ends the loop.        *)
GeminiAnswers(names, done) ==
  /\ Asking("gemini")
  /\ done => names = <<>>
  /\ Said(names, done)
  /\ LET calls == Decoded("gemini", names, FALSE, Len(messages))
     IN  /\ messages' = Append(messages, Assistant("gemini", calls))
         /\ IF names = <<>>
            THEN NoCalls /\ Leave(done, None)
            ELSE TakeCalls(calls)
  /\ AskUnchanged

(* ollama_loop.py, _parse_action: one action in JSON, or nothing.          *)
OllamaParses == {<<>>} \cup {<<name>> : name \in Asked("ollama")}

(* The answer becomes a message only when its action was carried out.      *)
OllamaAnswers(names) ==
  /\ Asking("ollama") /\ names \in OllamaParses
  /\ Said(names, names = <<"done">>)
  /\ UNCHANGED messages
  /\ IF names = <<>>
     THEN NoCalls /\ Leave(FALSE, "no_json")
     ELSE TakeCalls(Decoded("ollama", names, TRUE, Len(messages)))
  /\ AskUnchanged

(* A provider of the demo answers, with an id for each call or, if it is   *)
(* Gemini, without; Ollama makes several calls only when it was sent the   *)
(* tools.  An answer without calls ends the loop and is not kept.          *)
DemoAnswers(p, names, given) ==
  /\ Asking("demo") /\ p \in up /\ Accepts(p, messages)
  /\ p = "ollama" /\ ~NativeTools(model) => Len(names) <= 1
  /\ p # "gemini" => given
  /\ Said(names, FALSE)
  /\ IF names = <<>>
     THEN NoCalls /\ Leave(TRUE, None) /\ UNCHANGED messages
     ELSE LET calls == Decoded(p, names, given, Len(messages))
          IN  /\ messages' = Append(messages, Assistant(p, calls))
              /\ TakeCalls(calls)
  /\ AskUnchanged

(* A provider refuses the conversation: InvalidRequestError, or the error  *)
(* of any other status, is nobody's to catch.                              *)
DemoRaises ==
  /\ Asking("demo") /\ Die
  /\ UNCHANGED <<setting, talk, reports>>

DemoHasNobody ==
  /\ Asking("demo")
  /\ Leave(FALSE, "no_provider")
  /\ UNCHANGED <<setting, talk, reports>>

(* A fault: an action that raises is passed over.                          *)
LoopRaisesOn ==
  /\ loop # "demo" /\ phase = "act" /\ steps # None
  /\ steps' = <<>>
  /\ UNCHANGED <<setting, phase, messages, transcript, todo, results, gestures,
                 iteration, tool_calls, run, reports>>

(* A fault: a task that raises is tried again. *)
LoopRetries ==
  /\ loop # "demo"
  /\ \/ phase = "ask" /\ iteration < MaxIterations
     \/ phase = "act" /\ steps # None
  /\ phase' = "start"
  /\ messages' = <<>> /\ transcript' = <<>> /\ todo' = <<>> /\ steps' = None
  /\ results' = <<>> /\ gestures' = <<>> /\ iteration' = 0 /\ tool_calls' = 0
  /\ UNCHANGED <<setting, run, reports>>

(* The loops of the prototype catch whatever is raised in a question or in *)
(* an action, which was counted before, and end.                           *)
LoopRaises ==
  /\ loop # "demo"
  /\ \/ phase = "ask" /\ iteration < MaxIterations
     \/ phase = "act" /\ steps # None
  /\ Leave(FALSE, "exception")
  /\ UNCHANGED <<setting, talk, reports>>

(* A fault: every loop gives one iteration too many.                       *)
ExhaustedPlus ==
  /\ phase = "ask" /\ iteration = MaxIterations
  /\ IF loop = "demo" THEN Return(TRUE, 0, None)
     ELSE Return(FALSE, iteration + 1, "max_iterations")
  /\ UNCHANGED <<setting, talk, reports>>

(* The loop is exhausted.  A for leaves its variable at the last value, a  *)
(* while does not: ollama_loop.py counts one iteration too many.           *)
Exhausted ==
  /\ phase = "ask" /\ iteration = MaxIterations
  /\ CASE loop = "demo"   -> Return(TRUE, 0, None)
       [] loop = "ollama" -> Return(FALSE, iteration + 1, "max_iterations")
       [] OTHER           -> Return(FALSE, iteration, "max_iterations")
  /\ UNCHANGED <<setting, talk, reports>>

-------------------------------------------------------------------------------
(* The calls are served *)

Serving(ls) == phase = "act" /\ loop \in ls

(* The results go to the model with the next question.                     *)
NextRound(ms) ==
  /\ messages' = ms
  /\ iteration' = iteration + 1
  /\ phase' = "ask"

(* gemini_loop.py: a screenshot goes back as a picture of its own, which   *)
(* is no function_response and says of no call that it is its answer.      *)
ResultId(kind) == IF loop = "gemini" /\ kind = "image" THEN None ELSE Head(todo).id

Serve(kind) ==
  /\ results' = Append(results, [id |-> ResultId(kind), kind |-> kind])
  /\ todo' = Tail(todo)
  /\ steps' = None

(* A fault: the first result goes back at once. *)
AnsweredEarly(kind) ==
  /\ Serve(kind)
  /\ NextRound(Append(messages, UserResults(results')))
  /\ UNCHANGED run

(* A fault: a call that failed is left without a result.                   *)
AnsweredUnlessFailed(kind) ==
  /\ todo' = Tail(todo) /\ steps' = None
  /\ results' = IF kind = "error" THEN results
                ELSE Append(results, [id |-> ResultId(kind), kind |-> kind])
  /\ IF Len(todo) = 1 THEN NextRound(Append(messages, UserResults(results')))
     ELSE UNCHANGED <<messages, iteration, phase>>
  /\ UNCHANGED run

(* One call is answered, and the last one ends the round.                  *)
Answered(kind) ==
  /\ Serve(kind)
  /\ IF Len(todo) = 1 THEN NextRound(Append(messages, UserResults(results')))
     ELSE UNCHANGED <<messages, iteration, phase>>
  /\ UNCHANGED run

(* integration_demo.py: execute_to_block answers every call, with an error *)
(* when the tool raised, was refused or is not there.                      *)
DemoExecutes(kind) ==
  /\ Serving({"demo"})
  /\ Answered(kind)
  /\ tool_calls' = tool_calls + 1
  /\ UNCHANGED <<setting, transcript, gestures, reports>>

(* tool_calls += 1, the log, and the plan of the action.                   *)
TakeUp ==
  /\ Serving({"claude", "gemini", "ollama"}) /\ steps = None
  /\ tool_calls' = tool_calls + 1
  /\ steps' = Gestures(loop, Head(todo).name)
  /\ UNCHANGED <<setting, phase, messages, transcript, todo, results, gestures,
                 iteration, run, reports>>

Gesture ==
  /\ Serving({"claude", "gemini", "ollama"}) /\ steps \notin {None, <<>>}
  /\ gestures' = Append(gestures, Head(steps))
  /\ steps' = Tail(steps)
  /\ UNCHANGED <<setting, phase, messages, transcript, todo, results, iteration,
                 tool_calls, run, reports>>

ActionDone ==
  /\ Serving({"claude", "gemini"}) /\ steps = <<>>
  /\ Answered(AnswerKind(loop, Head(todo).name))
  /\ UNCHANGED <<setting, transcript, gestures, tool_calls, reports>>

(* ollama_loop.py: done and stuck end the loop; after any other action the *)
(* model is told of it, and shown the screen unless it was an error.       *)
OllamaActionDone ==
  /\ Serving({"ollama"}) /\ steps = <<>>
  /\ LET name == Head(todo).name
         ms   == Append(messages, Assistant("ollama", todo))
     IN  /\ Serve(AnswerKind("ollama", name))
         /\ IF name \in {"done", "stuck"}
            THEN Leave(name = "done", None) /\ messages' = ms /\ UNCHANGED iteration
            ELSE NextRound(Append(ms, UserResults(results'))) /\ UNCHANGED run
  /\ UNCHANGED <<setting, transcript, gestures, tool_calls, reports>>

-------------------------------------------------------------------------------
(* run.py *)

(* transcript.json or summary.json cannot be written. *)
LogRaises ==
  /\ phase = "returned" /\ loop # "demo" /\ run.error # "not_installed"
  /\ Die
  /\ UNCHANGED <<setting, talk, reports>>

NextTask ==
  /\ phase = "returned" /\ Len(reports) + 1 < planned
  /\ reports' = Append(reports, run)
  /\ phase' = "start" /\ run' = None
  /\ messages' = <<>> /\ transcript' = <<>> /\ todo' = <<>> /\ steps' = None
  /\ results' = <<>> /\ gestures' = <<>> /\ iteration' = 0 /\ tool_calls' = 0
  /\ UNCHANGED setting

(* report.md, after the last task; a single run is printed.                *)
Report ==
  /\ phase = "returned" /\ Len(reports) + 1 = planned
  /\ reports' = Append(reports, run)
  /\ phase' = "reported"
  /\ UNCHANGED <<setting, talk, run>>

-------------------------------------------------------------------------------

Next ==
  \/ NoKey \/ NoSdk \/ StartRaises \/ Start
  \/ \E names \in NamesOf("claude"), stop \in {"end_turn", "tool_use", "max_tokens"},
       done \in BOOLEAN : ClaudeAnswers(names, stop, done)
  \/ \E names \in NamesOf("gemini"), done \in BOOLEAN : GeminiAnswers(names, done)
  \/ \E names \in OllamaParses : OllamaAnswers(names)
  \/ \E p \in up, names \in NamesOf("demo"), given \in BOOLEAN : DemoAnswers(p, names, given)
  \/ DemoRaises \/ DemoHasNobody
  \/ LoopRaises
  \/ Exhausted
  \/ \E kind \in {"ok", "error", "image"} : DemoExecutes(kind)
  \/ TakeUp \/ Gesture \/ ActionDone \/ OllamaActionDone
  \/ LogRaises \/ NextTask \/ Report

(* One thread, which goes on as long as the SDKs return or raise.          *)
Spec == Init /\ [][Next]_vars /\ WF_vars(Next)

-------------------------------------------------------------------------------
(* Properties *)

By(p) == \A i \in DOMAIN messages : messages[i].by \in {None, p}
NamesAsIds ==
  {i \in DOMAIN messages : \E n \in DOMAIN messages[i].calls : messages[i].calls[n].id.name # None}

(* Every result says which call it answers. *)
AllSayTheirCall ==
  \A i \in DOMAIN messages : \A n \in DOMAIN messages[i].results : messages[i].results[n].id # None

(* What is sent back for a call: a result with its id, or a picture.       *)
SentFor(result, call) ==
  result.id = call.id \/ (result.id = None /\ result.kind = "image")

SentBack(next, turn) ==
  /\ Len(next.results) = Len(turn.calls)
  /\ \A n \in DOMAIN turn.calls : SentFor(next.results[n], turn.calls[n])

(* messages.py:3-5, as far as it goes: the turns of a conversation         *)
(* alternate, and something is sent back for each call in the next turn,   *)
(* once and in its order, whatever became of it.  Outside of gemini_loop.py*)
(* it is a result with the id of the call; there a screenshot is a picture *)
(* without.  A conversation in which every result has its id is one that   *)
(* Ollama can go on with, Claude if it has no ids made of names, and       *)
(* Gemini if it made it itself and the API gave no ids.                    *)
ConversationCanGoOn ==
  phase = "ask" =>
    /\ \A i \in DOMAIN messages :
         /\ messages[i].role = IF i % 2 = 1 THEN "user" ELSE "assistant"
         /\ messages[i].role = "assistant" =>
              i < Len(messages) /\ SentBack(messages[i + 1], messages[i])
    /\ loop # "gemini" => AllSayTheirCall
    /\ AllSayTheirCall =>
         /\ Accepts("ollama", messages)
         /\ NamesAsIds = {} => Accepts("claude", messages)
         /\ By("gemini") /\ NamesAsIds = {i \in DOMAIN messages : messages[i].role = "assistant"}
              => Accepts("gemini", messages)

CallsOf(t) == FlattenSeq([i \in DOMAIN t |-> t[i].calls])

Asks(calls) == FlattenSeq([i \in DOMAIN calls |-> Gestures(loop, calls[i])])

(* What a loop reports of itself is what its transcript shows: as many     *)
(* iterations as answers, one more for a question that raised or (in       *)
(* ollama_loop.py) when it is exhausted, and as many calls as it took up.  *)
(* A success is the model's word: its last answer said that the task is    *)
(* done, all its calls were served, and nothing was raised.                *)
ReportIsTrue ==
  phase = "returned" /\ loop # "demo" /\ run.error # "not_installed" =>
    /\ run.iterations = Len(transcript)
         \/ /\ run.iterations = Len(transcript) + 1
            /\ run.error = "exception" \/ (loop = "ollama" /\ run.error = "max_iterations")
    /\ run.tool_calls = Len(CallsOf(transcript)) - Len(todo)
                          + (IF run.error = "exception" /\ todo # <<>> THEN 1 ELSE 0)
    /\ run.success =>
         /\ run.error = None
         /\ transcript # <<>> /\ Last(transcript).done
         /\ todo = <<>>

(* The desktop saw what the answers ask for, in their order, and all of it *)
(* before the next question: an action that raises is the last one.        *)
DesktopFollowsTheModel ==
  loop # "demo" =>
    /\ IsPrefix(gestures, Asks(CallsOf(transcript)))
    /\ phase = "ask" => gestures = Asks(CallsOf(transcript))

(* Whatever the models answer and whatever raises, the program ends.       *)
EveryRunEnds == <>(phase \in Final)

(* Each of the four loops is a dialogue: see Dialogue.tla.                 *)
D == INSTANCE Dialogue WITH
       Replies    <- UNION {NamesOf(l) : l \in Loops},
       MaxAnswers <- MaxIterations,
       answers    <- [i \in DOMAIN transcript |-> transcript[i].calls],
       served     <- Len(results),
       over       <- phase \in {"returned"} \cup Final

LoopsAreDialogues == D!Spec

(* What a comment says and the code does not do. *)

(* messages.py:3-5: one model of messages that any provider can translate  *)
(* from and to its native format.                                          *)
AnyProviderCanTakeOver ==
  phase = "ask" => \A p \in up : Accepts(p, messages)

(* gemini_loop.py:287: the calls are executed and answered with            *)
(* function_responses.                                                     *)
GeminiAnswersItsCalls ==
  loop = "gemini" /\ phase = "ask" => Accepts("gemini", messages)
=================================================================================
