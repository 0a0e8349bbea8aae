# TLA+ specifications of allAI OS

Specifications of the agent of allAI OS (`src/agent`), the TLC models that
check them and the TLAPS proofs about them. `PROJECT.json` maps every
definition to the lines it translates.

    tlc -config Router.cfg MCRouter       # one model; see the table in section 5
    tlapm RouterProofs.tla                # one module of proofs

## 1. The system

The program is a Python library with a few demonstration loops. A user talks to
an agent; the *router* sends each turn to a cloud or a local model; the model
answers with tool calls, which the *executor* runs after the capabilities were
checked and the user confirmed; commands run in a *sandbox*; an encrypted
*memory* keeps what the agent was told. Nothing in the repository starts all of
these together: the user interface behind the protocols `Confirmer` and
`CapabilityChecker`, and the caller of the sandbox builders, do not exist yet.
The specifications therefore give each component the callers its interface
allows.

| Component | State | Operations | Hard part | What makes it correct |
|---|---|---|---|---|
| Sandbox policy, `sandbox/policy.py` | mode, grants with expiry, blocklist, audit callback | `set_mode grant revoke deny is_granted assert_capability list_grants purge_expired` | long sequences of calls; the wall clock; paths written in many ways | a denial is final; only grants give rights; events explain the rights |
| Sandbox builders, `bwrap.py`, `seccomp.py` | none: each reads the policy | `build_bwrap_argv build_filter` | two snapshots of a policy that changes; a second reading of the paths; mounts over mounts | nothing beyond the grants; namespace and filter agree |
| SELinux, `selinux.py`, `distro/selinux` | none | contexts, denials of the audit log | none | parsing |
| Tool executor, `tools/executor.py`, `registry.py` | registry, confirmed tools | `execute register replace unregister clear` | calls interleave while the user is asked; tools change meanwhile | what runs was approved; what was refused did nothing; every call returns |
| Tools, `tools/*.py` | none | shell, files, desktop, memory | timeouts of subprocesses | thin wrappers |
| Router, `core/router.py`, `policy.py`, `task_classifier.py` | policy, registered providers | `route chat chat_stream set_policy` | providers that fail; streams; a cached listing | privacy; the fallback order; one answer; an end |
| Providers, `providers/*.py`, `core/messages.py` | SDK client, cached listing (Ollama) | `capabilities is_available chat chat_stream` | three streams decoded into one kind of events; three formats of a conversation; errors in mid-stream | a stream tells what `chat` would; a conversation is one the provider accepts; the error classes the router relies on |
| Memory store, `memory/store.py`, `crypto.py`, `permissions.py` | salt file, temporary file, database, their permissions | `open_database store_salt load_salt`, tool `rotate_key` | two openers; a crash between two steps; lax umask | the memory can be opened again, by its owner only |
| Audit log, `memory/audit.py` | a file of chained lines | `append verify read_all` | no lock; short writes; edits | what verifies is the truth |
| Memory entries, `store.py`, `session.py`, `retrieval.py`, `injector.py`, `tools/memory.py` | table of entries, session window | insert, delete, purge, list, search, recall, inject | sessions share the table; a forget waits for the user; two copies, four readers | what is sensitive is shown when asked for only; what is forgotten is what was meant |
| Voice, `voice/*.py` | capture stream, cooldowns, loaded models | start/stop, feed, transcribe, synthesize | PortAudio's threads; no locks; rates and formats carried by labels | the open microphone shows; one event per cooldown; a second of sound stays one |
| Prototype, `prototype/*.py` | the list of messages, the desktop, the counters of a report | three computer-use loops, the loop of `integration_demo.py`, a benchmark over them | several calls in an answer; calls that raise; bounded iterations | every call is answered; the report is true; every run ends |
| `desktop`, `installer`, `system`, `website`, `distro` | | | | placeholders, and the build of the SELinux module |

How they interact: the executor calls the registry, the checker, the confirmer
and the tool; the loop of `prototype/integration_demo.py` calls router and
executor in turn, and the three others call an SDK and the desktop; each
provider encodes the conversation on the way out and decodes the answer on the
way back; the wake word detector runs in the callback of the capture, and sound
goes from capture or synthesis to recognition or playback; the builders read the policy through `list_grants` and
`mode`; `rotate_key` goes to the database and to `store_salt`; `PathKinds` and
`covers` of a capability decide for the policy, and through it for the
builders. There are no messages between processes; what is shared between
processes are the files of the memory.

`PROJECT.json` lists the hazards of this code, each with its line, and with the
properties that watch over it or the reason why none does yet.

## 2. Modules

| Module | Models | Notes |
|---|---|---|
| `Capability` | `_normalize_path`, `_path_covers`, `Capability.covers` | pure; a path is the sequence of its components |
| `PathRewriting` | nothing of the code: a reference for `Capability` | rewrites a path by the identities of a file system |
| `SandboxPolicy` | class `SandboxPolicy` | one action per method; `ledger` is what a listener of the events concludes |
| `SandboxLaunch` | `build_bwrap_argv`, `build_filter` over a living `SandboxPolicy` | EXTENDS it: its steps are steps of the session |
| `ToolExecutor` | `ToolExecutor`, `GatePolicy`, `ToolRegistry` | one action per stage of `execute()` |
| `ProviderStream` | one `chat_stream()` of the router over the three stream decoders | one action per event or chunk of an SDK, per error, per step of the reader |
| `ProviderMessages` | the encoders of a conversation, the decoders of an answer, and what each API accepts | pure |
| `DesktopActions` | the translation of computer-use actions to commands of the desktop | pure |
| `Dialogue` | nothing of the code: what an agent loop promises | abstract: ask, answer every call, ask again, end |
| `AgentLoops` | the loops of `prototype/*.py` and the benchmark over them | implements `Dialogue` |
| `AudioClips` | `AudioBuffer` and what its makers and readers read out of it | pure |
| `Voice` | `AudioCapture`, `WakewordDetector`, `PiperTTSProvider` | one action per statement that reads or assigns an attribute; EXTENDS `AudioClips` |
| `Router` | `Router`, its policy, the listing of `OllamaProvider` | plan first, then one action per outcome of a provider |
| `MemoryStore` | `open_database`, `store_salt`, `load_salt`, permissions, `rotate_key` | one action per system call another process can come before |
| `AuditLog` | `append`, `verify` | read and write of an append are two actions |
| `MemoryEntries` | the table of entries, `SessionMemory`, `retrieve`, `inject_memory_context`, remember, forget, recall, list | readers are operators, writers are actions |
| `MC*` | values for the constants, and bounds | definitions only |
| `*Proofs` | theorems about the module of that name | `SandboxPolicyProofs` also about `SandboxLaunch` and `PathRewriting`, `MemoryProofs` about `MemoryStore` and `MemoryEntries` |

Conventions. A definition called *a fault* in its comment (`GrantUnchecked`,
`RunLatest`, ...) is the operation with a plausible mistake in it. Nothing uses it: it is
there to show, by putting it in the place of the right one, that a property
would notice. History variables are marked *history* where they are declared;
no action reads them in a guard.

### How state and actions correspond to the code

**SandboxPolicy.** `grants` is the dict, as a function from capability to
`expires_at`; the fields of a grant no decision reads (`granted_by`, `note`,
`persistent`, `granted_at`) are left out. `AssertCapability` is
`assert_capability` with its order of checks (demo mode, blocklist and
`sudo:never`, covering grant, expired grant). `Emit` stands for `_emit`: an exception of the
callback is swallowed there, so that a callback changes nothing else. `Clock`
moves `now` in both directions, as `time.time` may be. A text form
(`Capability.parse`) is left out: a capability is its kind and scope.

**SandboxLaunch.** `order` is the order of the dict, which decides the order
of the mounts. `BuildArgv` and `BuildFilter` are separate calls, as in the
code, and `fresh` tells which of their results is not older than the policy;
`built` keeps the grants an argv was built from, for as long as it is kept.
`Resolve` is `_resolve_path` of `bwrap.py`, which is not the `Normalize` of the policy: it
puts what follows a `~` below one home (`HomeDir`, an argument of the builder),
a user's name included (`UserName`), and leaves a relative scope relative, for
bwrap to take from the directory it is started in (`BwrapCwd`) and to show
below its root. `Start` is the caller, who does not exist yet.

**ToolExecutor.** Checker and confirmer are callbacks into a user interface,
and nothing in `executor.py` is locked; so between two stages any other call
may take a step, a tool may be registered, replaced or removed, and a capability
withdrawn. Checker and confirmer may raise at each question, which `execute()`
turns into an error result as it does with an exception of the tool: the call
ends there, "not run". `Run` covers a result, an error, and any exception.

**Router.** `Route` is `route()` at one point, from the policy of that point;
`Before` is the order of the chain, `SelectModel` the scoring of models. A
candidate answers (`Answered`), is unavailable (`Unavailable`) or fails
otherwise (`Failed`); availability is not a state, since it may change between
two calls. A stream yields its events in `Deliver` and may be abandoned by its
reader. `cache` is filled at the first listing and never renewed.

**ProviderStream.** The generators are lazy, so there is one thread: a step
of the reader (`Deliver`) takes an event that is due, and only when none is does
the decoder go on to the next event or chunk of the SDK (`ClaudeBlock`,
`ClaudeDelta`, `GeminiChunk`, `OllamaChunk`), end (`Close`, `Finish`), or raise
(`Fail`). What `chat()` would have made of the same answer is an operator on the
blocks said so far (`ChatCalls`). `Raise` is `chat_stream()` of the router: the next
candidate after an unavailable one, whatever was already yielded. Errors before the
request is sent (`Build`) are another set for each provider.

**AgentLoops, ProviderMessages.** A conversation is the sequence of its
messages, a message the calls or the results it carries; of a call are kept the tool
and its id, which may be the name of a function where Gemini gave none. `Accepts` is what each API
demands of the conversation it is sent (external), as the encoder of that provider makes it. An
answer has any calls of any tools (`ClaudeAnswers`, `GeminiAnswers`, `OllamaAnswers`,
`DemoAnswers`); a call is taken up, which counts it, then its gestures are made one by one, and it is
answered; each question and each gesture may raise. `gemini_loop.py` answers a screenshot with
the picture alone, so what it sends back then has no id (`ResultId`). `NextTask` and `Report` are the benchmark
of `run.py`. `Dialogue` keeps the calls of each answer, how many of the last one are
served, and whether the run is over; the refinement mapping computes them from
`transcript`, `results` and `phase`.

**Voice, AudioClips.** Several threads call the classes, which have no lock; PortAudio
has a thread per stream. So each check and each assignment of an attribute is a step:
`StartStream` is the check, `Open` the assignment, `Begin` the call of `start()`; stop(),
close() and the assignment of None are `Halt`, `Close` and `Drop`, and any of the calls may raise.
`Record` opens the microphone and `RecordEnds` or `RecordFails` closes it, with `_stream` left as
it is. A callback holds the time it read (`hearing`) and the word that passed the cooldown
(`firing`) until it records it. A clip is how many bytes there are and how they are labelled;
`Transcribed`, `Played` and `Duration` (0 for a wav) are what is read out of it.

**MemoryStore.** Files are inodes with names, since `os.replace` renames a
file that another process still writes to. A key is the pair of passphrase
and salt: the derivation has no collisions. A process may open without leave to
create. Its first read may fail for the wrong key or for any other reason (`failed`),
and is told the same. `Crash` is the death of the
process between any two steps; the machine does not fail, and a written file
is not torn. A rotation is one step: `PRAGMA rekey` holds the database's lock.

**AuditLog.** An HMAC is the key with what was signed, so that no two are
equal and nobody makes one without the key. A line that is not JSON is
`Garbage`; a write that was cut just before its newline leaves a
line that is good until the next one is glued to it (`ended`). Reading the
half-written line of another process is left out: a line is one `os.write`.

**MemoryEntries.** A text is known by what the code finds out about it (PII,
patterns of the guard, blank), since nothing else about it decides anything.
`table` is the table and `last` what AUTOINCREMENT remembers; the index of FTS5 is
left out, as every search joins it with the table. Readers (`Visible`,
`Retrieved`, `Injected`, `Snippet`) change nothing and are sets of possible results: which of
the visible entries a query finds is left open. A forget is three steps, `AskForget`, `Find`,
`Delete`, each a statement of its own in autocommit mode; remember is one, its session
being its own. `InsertExpiring` stands for a caller of `insert_entry` the repository
does not have yet and is given the care `remember` takes. An id the model makes up is left out:
nobody saw a text under it.

## 3. Properties

Every property is stated in words where it is defined. The deep ones:

* *DeniedForGood*, and *DeniedNotGranted* as a theorem - no sequence of later grants, modes or
  purges overrules a denial; `bwrap.py` never reads the blocklist and relies
  on this.
* *RightsComeFromGrants, PurgeChangesNoRight, AuditTrailComplete* - only a grant gives a right, and
  whoever hears all events knows why each use was allowed. A change of mode
  gives no right; demo mode refuses every use and keeps the grants.
* *NormalizeIsTheNormalForm, CoverageSurvivesRewriting* - the folding of `..`
  computes the one normal form, and no detour carries a path in or out of a grant.
* *NothingBeyondGrants, LayersAgree* - what the process sees through mounts over
  mounts, of an argv however old, is under a grant it was built from, at the directory
  the policy reads in it wherever `bwrap.py` reads the scope alike (section 7 has the
  scopes it does not). An argv no older than the policy has every active grant and none
  that is denied; namespace and filter built from one state decide alike.
* *DangerousAskedEachUse, TrustIsEarned, RefusedHadNoEffect, EveryCallReturns*.
* *SensitiveStaysLocal, OtherSideIsFallback, OneAnswers, NoProviderMeansAllDown,
  EveryChatEnds* - privacy and fallback over every failure of every provider.
* *StopEndsTheStream, StreamSaysWhatChatWould, ArgumentsFollowTheirCall,
  StopTellsOfCalls* - the events of a stream carry no names of calls and may come from two
  providers one after the other: a reader that only looks at their order gets the calls
  `chat` would have returned, with their arguments. A MessageStop is the last event, and a
  stream has one unless it raised; one that was cut has one too, and it says `end_turn`, so
  that the end alone does not tell that all was said. Ollama's stream may miss calls
  (`ToolIsResolvedAtClose`, section 7), and Gemini's calls have no arguments in a stream.
* *ConversationCanGoOn, ReportIsTrue, DesktopFollowsTheModel, LoopsAreDialogues,
  EveryRunEnds* - of the four loops over every answer and every exception. Something is
  sent back for every call, in its order; it is a result with the id of the call
  but for the screenshots of `gemini_loop.py`, which are pictures without one, and what
  the first property says of the providers is of conversations that have none of these.
* *StreamsAreShown, WakesAreSpaced, SoundKeepsItsLength* - each says which race
  it does not survive. `is_streaming` tells of every stream that runs, also when one thread
  stops what another is still starting; not when a start meets another start or a stop, when two
  stops meet, or after a stop that raised, and it never tells of a recording
  (`MicrophoneIsShown`, section 7). A word wakes once per cooldown as long as one stream feeds the
  detector. A second of sound is read as a second (as two if it was float32) by
  all readers; not if it was made between the load of a voice and that of its rate.
* *CanBeOpened, RightPassphraseIsNotRefused, NobodyWorksOnALaxFile* - over
  openers, rotations and crashes. "Invalid" is said to who gave another passphrase than the
  database has, or whose first read failed for a reason of its own. The first two exclude two processes that
  create the salt at the same time (`raced`): those share the temporary
  file, and the memory of one may be lost.
* *AcceptedIsHistory, CleanLogVerifies, BrokenStaysBroken* - what `verify` accepts
  was appended, in that order, whatever was raced, cut and edited. What
  it can not tell is that lines are missing from the end, as the chain ends
  with the last line there is.
* *NothingSensitiveShown, ForgottenWasAskedFor, ForgottenOnceForAll, NothingIsLost* - over
  sessions that remember, forget, purge and restart while another one waits for
  its user.

## 4. Plan

Done, in this order, the most important first: `Capability`, `SandboxPolicy`,
`SandboxLaunch`, `ToolExecutor`, `Router`, `MemoryStore`, `AuditLog`,
`MemoryEntries`, their proofs; then `ProviderStream`, `ProviderMessages`,
`DesktopActions`, `AgentLoops` with its refinement of `Dialogue`,
`AudioClips` and `Voice`; then the proofs of every safety and action property
the runs check, and of the refinement.

Next:

1. More refinement: `Routing` (a call is sent to the candidates of one list, one
   by one, and ends with the first that is not down) implemented by `Router`;
   `Log` (a reader sees a prefix of what was appended, or an alarm) implemented
   by `AuditLog`; `Gate` (ask, then run) implemented by `ToolExecutor`.
2. Pure algorithms against reference definitions: the balanced JSON object, the
   Luhn sum, the guard's levels, the fields of an AVC line.

## 5. Runs

| Run | Module, configuration | Instance | Shows |
|---|---|---|---|
| path_rewriting | `MCPathRewriting`, `PathRewriting.cfg` | two names, up to four components after the first, five grants | every order of rewriting ends in `Normalize`; stops when rewritten, so deadlock is not checked |
| sandbox | `MCSandbox`, `Sandbox.cfg` | seven capabilities (three nested paths written below the home and relative to the working directory, one below the home of another user, the network, sudo, sudo:never), two homes, one expiry and the session, clock 0..1 | all operations in every order, the builders between any two; `VIEW` drops the last event, which no later step reads and no invariant mentions (the action properties see it in each step) |
| tool_executor | `MCToolExecutor`, `ToolExecutor.cfg` | two calls, one name, a tool of each risk, two capabilities, three gate modes | every interleaving and every exception at every question |
| router | `MCRouter`, `Router.cfg` | two cloud providers and Ollama, five models, six requests, seven policies | every outcome of every candidate |
| provider_stream | `MCProviderStream`, `ProviderStream.cfg` | each provider alone and three chains, answers of three blocks, two deltas a block | every answer, every error and cut at every event, every point at which the reader stops |
| agent_loops | `MCAgentLoops`, `AgentLoops.cfg` | two tools, two calls an answer, two iterations, two tasks of a benchmark | the four loops against every answer and exception; each implements `Dialogue` |
| voice | `MCVoice`, `Voice.cfg` | two threads, one word, three captures, two streams, a cooldown of 2 on a clock 0..2 | every interleaving of threads, recordings, callbacks and calls that raise |
| memory_store | `MemoryStore`, `MemoryStore.cfg` | two processes with and without leave to create, two passphrases, three salts, lax umask | every interleaving with crashes, rotations and reads that fail |
| audit_log | `MCAuditLog`, `AuditLog.cfg` | two writers, one key, two operations, three appends | races, cuts, edits |
| memory_entries | `MCMemoryEntries`, `MemoryEntries.cfg` | two sessions, a text of each verdict, three entries, windows of two, clock 0..1 | every order of remember, forget, purge, restart |
| memory_store_rotation, agent_loops_take_over | as above, `MemoryStoreRotation.cfg`, `AgentLoopsTakeOver.cfg` | as above | end with a counterexample, section 7 |

Why the bounds are enough. Properties of the policy relate at most two grants,
a denial and an instant before and after an expiry; so the constraint of the run
(`Bounds`) lets a session deal with any three capabilities of five (`MaxKnown`), and while it builds
and launches with a path and the network; while it builds the argv alone, with three paths, one of
them another user's, or with a directory and one in it. Interleavings of the
executor concern a pair: a call and the one that answers, replaces or is
remembered meanwhile. A chain of the router has one candidate per provider, and
two on one side and one on the other show each way to fall back. A race
for the salt takes two processes, and a third salt is one more than both create. An
audit log of three lines has a first, a middle and a last one; with one
key the second key of a rotation is left to the proof, which holds for any set.
An answer of three blocks has two calls with text before, between or
after them, and two deltas show the arguments of one call following those of another; a chain of
three has a first, a middle and a last candidate. Two calls in an answer can be mixed
up or left unanswered, and two iterations and two tasks have a next one that starts from what the
last one left. Two streams are one that a thread lost and the one it holds; a cooldown of 2
on a clock of three instants is kept by some pairs of events and not by others, whichever way the
clock is set. The third entry of the memory slides a window of two and is
the one an id could be given to twice.
`MaxAppends`, `MaxSalts`, `MaxId`, `MaxTime`, `MaxLength`, `MaxBlocks`, `MaxDeltas`,
`MaxCalls`, `MaxTasks` and `MaxStreams` are the only bounds on counters, and each is a
constant of its module; `MaxIterations` is a parameter of the code. Deadlock is checked but in
three modules that stop as the code does: a path that is fully rewritten, a stream
that has ended, a benchmark that is over.

The type invariants of most modules are theorems (section 6) and not checked
again by the runs; that of `AgentLoops` is both.

Symmetry is used in audit_log (writers, operations), memory_entries (sessions) and voice
(threads), whose elements are told apart by equality only; no such run has a liveness property.

Fairness. `ToolExecutor`: weak fairness of each call's next step: `execute()`
runs on by itself, the tools of the repository end (subprocesses have
timeouts), and the interface is assumed to answer, which the code leaves to
it. `Router`: weak fairness of a `chat()`'s next attempt, which rests
on the SDKs' own timeouts; a stream has no fairness, since its
reader may never ask for the next event. `AgentLoops`: weak fairness of its next step,
as a loop is one thread and nothing in it waits but for an SDK or the desktop, which
return or raise. Nothing else is assumed to happen.

## 6. Proofs

Each theorem holds for all values of the constants under the assumptions their
module names (`CapsAssumption`, `DefsAssumption`, ...), which say what kind
of thing a constant is and that `None` is none of them.

* `SandboxPolicyProofs`. `TypeOK` is inductive; the disjointness of blocklist and
  grants, and what the ledger knows, are inductive together with it. The action
  properties follow from them action by action.
  The steps of `SandboxLaunch` are steps of the session or leave it alone
  (`LaunchIsASession`), so all of this holds during a launch; `UpToDate` (what was built since the
  policy last changed says what would be said now) gives `LayersAgree`, and `BuiltFromGrants`
  (the dict lists what is granted, each operation adding one grant at most, and the binds of an
  argv are those of the grants it was built from, which are the active ones until the policy changes),
  with the disjointness of blocklist and grants, `NothingBeyondGrants`; that a scope is read alike
  by `Resolve` and `Normalize` where `ReadAlike` says so is a lemma.
  Of `PathRewriting`, that each identity leaves what normpath computes as it is
  (`RewriteInv`), as a stretch of a path that leads back to where it began can be cut out
  (`NormCut`), and that a path with nothing left to drop is what normpath computes
  (`NothingToCut`); `Homes` and `Cwd` are assumed to be sequences of names, and nothing more.
* `ToolExecutorProofs`. The invariant says what each stage has already
  established (`Staged`): the definition looked up, the capabilities
  checked, the question asked when the gate needed one, and that a confirmed
  tool was approved by some call. The properties speak of the end of a call
  only and are not inductive without it.
* `RouterProofs`. `Orderly`: a call went to eligible candidates only, to each after all that
  precede it in the plan were found down, and left none but those that were down. The order
  of the plan is a strict total order on any set of providers, which is a lemma. `Excused`
  (every provider a call could go to is in its plan, was found down, or is a cloud provider without
  a model for it) gives `NoProviderMeansAllDown`; of a catalog is assumed that each model has a
  place of its own in the list of its provider (`CatalogAssumption`), as indices have.
* `MemoryProofs`, of the store. `Private` (a process past the check of the permissions has
  a private file, or will make it one itself) gives the first property. `Rooted`
  (who has read a salt read one that is there) and `Matched` (while nobody raced, one
  process at most writes a salt, and what the others read is what the file holds)
  give the two others: the one who is told "invalid" either failed to read or derived its key
  from the salt of the database. `CanBeOpened` alone says nothing of a process that has
  derived its key and not connected yet.
* `MemoryProofs`, of the entries. `Flagged` (both copies of a text with PII are marked) gives the
  first property; `Seen` (the row under an id a user is asked about is the one that was
  seen) the second. `Seen` is inductive because the type has no id above the
  last one given, which is what AUTOINCREMENT is for.
* `AuditLogProofs`. `Typed` (the log is a sequence; the prover knows little of
  sequences, so it is kept by hand), `Signed` (whatever goes wrong,
  every HMAC in the file, or about to be chained to, is that of an entry that was
  written), `Clean` (until the first fault the file is what was written, and the
  one append in progress has read its end). `BrokenStaysBroken` needs the type
  alone: `append` never shortens a file nor repairs a line, and a file that verifies
  has only prefixes that do.
* `ProviderStreamProofs`. `StopIsLast` (a MessageStop that is due is the last of
  what is due, and was made by the step that stopped the decoder), `StoppedByStop`
  (a stopped decoder has one to deliver or has delivered it) and `EndsByPhase` give
  `StopEndsTheStream` for answers of any length: the property itself says nothing of
  events that are made and not yet delivered. `CInv` gives the three others: what is delivered
  and due tells the calls said so far (`CallsAreTold`), the arguments still to come are of the call
  started last (`ArgumentsAreNear`), and the reason kept for the stop agrees with the calls
  said (`ReasonIsKept`).
* `VoiceProofs`. `Alone`, while no start met a start or a stop, no two stops met and none raised: one
  thread is in `start_stream` and one in `stop_stream` at most; who is about to open finds no stream
  and nobody stopping; who starts a stream has one that does not run yet; who drops one has it
  closed; and what runs is the stream that is held. A stop in the middle of a start is in all
  of these, which is why they speak of both threads. `SoundInv`: once a voice is loaded its rate is
  known, but for threads that are between the two; a clip made in no such moment
  is `Whole`, and a lemma of arithmetic says what is read out of a whole clip, at any
  rate, width of sample and number of channels. `WakeInv`: only the stream that runs has a callback, and a word
  about to be fired has cooled down whatever `reset()` and the clock did since; hence
  `WakesAreSpaced`.
* `AgentLoopsProofs`. Inductive together: the type; `Rounds` (where in an answer, a call and a
  gesture the loop is, and that what it counts is in its transcript), `Seen` (what was done to the
  desktop is what the calls taken up so far ask for, the gestures still due apart), `ReportIsTrue`,
  and `Conversation` (messages alternate, ids are unique where the API gives them, each message of
  results answers the calls before it one by one, with a picture for a screenshot of
  `gemini_loop.py`, and `Spoken`: with the ids in every other loop; with `Halfway` for the message being gathered).
  The properties are read off them. For the refinement, every action is shown to be one step of
  `Dialogue` under the mapping of the module, or to leave the mapped state as it is; a gesture, a
  report and the start of the next question are of the second kind.

Model-checked only: the liveness properties (`EveryCallReturns`, `EveryChatEnds`, `EveryRunEnds`),
as the prover has neither fairness nor ENABLED. Every other property of a run that passes is a
theorem.

Recursion and the prover. What a definition computes by recursion is written as a recursive
function (`NormPath`, `Select`) and not with the folds or `SelectSeq` of the libraries, of which
the prover knows nothing. A statement about every prefix of a sequence is proved without an
induction rule: the set of lengths at which it fails is a set of naturals, so if it is not empty it
has a least one (`WFMin`), and that one is refuted.

## 7. Where code and documents differ

Shown by a run that TLC ends with a counterexample:

* `tools/memory.py:332` means to renew the salt; the arguments of `store_salt` are
  swapped, so a rotation changes the key, reports an error and leaves the salt
  (`RotationRenewsSalt`). The memory stays usable with the new passphrase.
* `core/messages.py:3-5` has one model of messages that any provider can
  translate. Where the API gives a call an id, the result of that call reaches Gemini as the
  response to a function of that name, which was never called, as the id is sent for the name
  (`gemini.py:358-363`): in the run Gemini is up alone and cannot go on with its own
  conversation after one call (`AnyProviderCanTakeOver`).

Stated in a module, which no run checks; as the INVARIANT of the run of that module, with the
constants of its configuration where no other is named, TLC ends with a counterexample:

* `seccomp.py:38` says that execve is allowed; the base of the paranoid mode lacks
  it, so nothing can be started (`CommandsCanStart`, `SandboxLaunch`).
* `executor.py:102` says `confirm_first_use_only` asks the first time; it never asks
  (`FirstUseIsAsked`, `ToolExecutor`).
* `core/policy.py:38-40` says a session over budget prefers local; nothing reads
  `session_exhausted()` (`SessionBudgetPrefersLocal`, `Router`; the run has no such session, which
  routes like any other: it takes `Policies <- OverSession`).
* `ollama.py:489-490` resolves an emulated call when the stream closes; the text that was
  gathered is never parsed, and calls of a chunk that is not the last are dropped
  (`ToolIsResolvedAtClose`, `ProviderStream`).
* `sandbox/policy.py:35-37`: what is denied prevails over any grant. A directory that is denied
  is mounted with the one above it that is granted (`DeniedIsNotMounted`, `SandboxLaunch`), and a
  capability for a directory in it is not denied either: the blocklist is compared by equality.
* `pipewire.py:15-18` has the interface show that the microphone is open; during `record()`
  it is, and `is_streaming` is False (`MicrophoneIsShown`, `Voice`).
* `gemini_loop.py:287` answers calls with function responses; a screenshot is answered
  with a picture and no response (339-348), so Gemini is asked to go on with a call unanswered
  (`GeminiAnswersItsCalls`, `AgentLoops`).

Seen while reading, without a property of their own:

* `claude.py:172-182`: `chat_stream` has no clause for the SDK's status errors, which
  `chat` translates. `gemini.py:474-480`: a call of a stream has no arguments.
  `gemini.py:248` finds "rate" in any word that has it, as "generate".
* `ollama.py:233` reads the listing as a dict, which newer versions of the SDK do not return.
* `ollama_loop.py:244` allows one iteration more than the other loops. `run.py:113`: the report of a
  benchmark is written at its end, and is lost when one of its tasks raises.
* `pipewire.py:181` labels float32 samples as 16-bit PCM, so they are read as twice as long;
  `voice/types.py:35-36` gives a wav a length of 0; `tts_piper.py:124` sets the rate of a
  voice after the voice. An exception in the callback of a capture stops its stream, and
  `is_streaming` stays true; two starts at once leave a stream that nobody holds.
* `session.py:95`: `recent(0)` returns everything. `tools/memory.py:272` exports the
  database without the salt it can be opened with.
* `core/policy.py:27-28`, cloud_only is "only Claude": with PII the call is
  forced local all the same. `policy.py:88-89`: images are sent to models
  without vision when the local side has no other.
* `providers/ollama.py:189-190` turns a missing model into a plain `ProviderError`, which
  ends the call; `core/errors.py:24` counts it as unavailable, which would fall back.
  `core/provider.py:66` wants capabilities that are current; the listing is cached for good.
* `crypto.py:123-124` speaks of O_EXCL; the flags have O_TRUNC.
* `bwrap.py:351-361` reads a scope in its own way: a grant for `~user/x`, which the policy takes
  for that user's home, mounts `user/x` below the home of the session; a relative one is taken from
  where bwrap is started and not from where the policy was asked; and `home_dir` may be
  given by the caller. So a mount may be at another place than the right.
* `memory/store.py:247-252`: any exception of the first read, a busy database too, is
  reported as an invalid passphrase (179).
* `bwrap.py:270-277` mounts in the order of the grants: a read grant after a
  write grant below it takes the write away. It never gives more.
* `audit.py:79-82` says the last line alone is read; all are, and one that is
  not JSON anywhere stops every further append.
* `memory/__init__.py:3-5`: entries marked `sensitive` or `untrusted` are not injected into
  cloud requests. The injector looks at `sensitive` alone, and nothing sets `untrusted`.
* `docs/adr/0009-memoria-local-cifrada.md`, section 7, says every write goes to the audit log;
  nothing calls `append`. `session.py:12` names a `flush_to_store()` that is not there.
* `injection_guard.py:14-15` says one high pattern makes 0.8; it adds 0.5, which
  blocks all the same.
* `tools/memory.py:156-185` reports an error for blank content after it was stored;
  `220-239` leaves the copy in the session's window.

## 8. Not modelled

Wording, logging and layout; text forms and regular expressions (PII, guard,
commands), whose verdicts are inputs; cryptography, taken as perfect; the SDKs and
external programs, taken by what the code expects of them; failures of the machine
(only processes crash); threads inside one call of the router, which has none.
Whisper's recognition and its choice of a device, and the list of the
devices of PipeWire, keep no state; the commands and embeddings of the memory, SELinux's contexts
and denials, and the tools for shell, files and desktop are thin: text in, text out.
The components without a module are listed in `PROJECT.json` with the reason, and
those that are to come in section 4.
