# A formal model of adk-launchers-go

TLA+ modules of the parts of this repository that carry its logic, TLC
configurations that check them on small instances, and proofs, checked by TLAPS,
that every safety property those configurations check holds for every size of
instance. File names below are relative to `src/`.

## 1. Inventory

The repository extends the launcher of Google's Agent Development Kit (ADK) with
*sublaunchers* that share one HTTP server. The state is small and lives in three
places: in the stack of a request's goroutine, in the ADK session service, and in
the cron of the SchedulerService. No mutex guards any of it across requests.

| Component | State | Operations | Hard behaviour |
|---|---|---|---|
| `run_sse` handler (`agui/agui.go`) | locals of `runSSEFunc`: `succeeded`, `handlerErr`, the emitter's sticky error | Before hooks, headers, RunStarted, load and validate interrupts, session, message, agent loop, RunFinished, persist or clear, After hooks | one goroutine per request and nothing that serialises the requests of a thread; every step can fail; the terminal event goes out *before* the session is written |
| interrupt state (`agui/interrupt_state.go`) | session key `_agui_pending_interrupts` | load, decode, validate resume, persist, clear | check-then-act on a copy; Get fails open; the write overwrites |
| event stream (`agui/stream.go`) | `streamState`: open text, reasoning, step, length of reasoning sent, `runFinalized`; `emitter.err` | `processEvent` per ADK event, the closing helpers, `emitInterrupt`, `emit` | any order of parts and authors, failures between any two emits, parallel sub-agents |
| snapshots, session creation (`agui/snapshot.go`) | the ADK session | Get, then Create; state and message snapshots | two first requests race |
| interceptors (`agui/interceptor.go`) | none of their own | Before, OnEmit, After | chain that fails half-way |
| resume rules (`validateResumeAgainstPending`, `agui/resume.go`, `extractLastUserMessage`) | none | check entries against interrupts, schemas and expiry; map them to function responses; find the newest user turn | check and mapping are written twice and must agree |
| history (`agui/convert.go`, `agui/threads.go`) | the session's events, the client's cursor | convert events to messages, page with `after` and `limit` | session grows between pages; events of equal time; events that give no or several messages |
| capabilities, CORS | fixed after start | serve a document, set headers | none |
| cron callback (`scheduler/execute.go`, `cron.go`) | the stored cron; locals of `cronHandler` and `executeCron` | load, refuse or acknowledge, start/finish notices, initial run, main run, UpdateCron | at-least-once delivery, overlapping attempts, crashes, owner edits meanwhile, synchronous or detached execution |
| in-process runtime (`internal/adkrun/runtime.go`) | none | build a runner, run one user message | failure as an error or as an event |
| web launcher (`web/web.go`) and the setup of `agui`, `lro`, `scheduler` | flags, active sublaunchers, the `sync.Once` of each, routes, server, telemetry | Parse, Run, route setup once, serve, shutdown | retries after a failed setup; server starts before telemetry; shutdown with open streams; server failure against cancellation |

Interactions. `web.Run` lets each active sublauncher register routes; net/http then
calls the handlers. `runSSEFunc` calls the session service (Get, Create,
AppendEvent), the ADK runner (an iterator it pulls) and the interceptors (callbacks).
Cloud Tasks calls `cronHandler`, which calls the SchedulerService, the runtime and the
`CronObserver`. `threadMessagesFunc` reads the session that `run_sse` runs append to.
Runs of one thread meet only in its session, attempts of one cron only in the stored
cron and the task queue.

What makes each part correct:

- *handler and interrupts*: a run reaches the agent only with an answer to exactly the
  interrupts that are pending; an answered interrupt is not answered again, a
  delivered one is not lost; at most one terminal event; After mirrors Before;
  every request ends.
- *event stream*: the client can read every event at the point where it gets it, a run
  that returned has ended, no thought is lost or repeated.
- *cron callback*: no tick lost, no prompt run twice, the owner's edits survive, all
  prompts in one conversation which begins with the initial prompt.
- *history*: ids identify messages across pages, and cursors skip nothing.
- *resume rules*: an answer is refused exactly when it breaks a rule; an accepted one
  reaches the agent whole; consent is explicit; no thread gets stuck.
- *launcher*: the command lines of the grammar and no others; every active sublauncher
  reachable, nothing registered twice; Run ends and leaves nothing behind.

The hazards, each at its line, are listed in `PROJECT.json` with the properties that
cover them.

## 2. Modules

```
InterruptContract      what the interrupt rules promise (abstract)
   ^ implements
RunSSE                 run_sse requests of one thread, their session    MCRunSSE
   ^ about
RunSSE_proof           types, and runs that take turns implement the contract
RunSSE_safety          every other invariant, of runs that overlap or take turns

ResumeRules            what one request is accepted and turned into     MCResumeRules
   ^ about
ResumeRules_proof      its rules, for requests and threads of any size

AGUIProtocol           the stream as a client reads it (abstract)
   ^ implements
Stream                 one run: ADK events to AG-UI events              MCStream
   ^ about
Stream_proof           Stream implements AGUIProtocol; thoughts arrive once

Scheduler              one cron: Cloud Tasks, handler, owner            MCScheduler
   ^ about
Scheduler_proof        its safety

ThreadHistory          one session read back in pages                   MCThreadHistory
   ^ about
ThreadHistory_proof    its ids and pages

WebLauncher            parse, setup, serve, shut down, try again        MCWebLauncher
   ^ about
WebLauncher_proof      its safety

Loops                  a loop ThreadHistory and WebLauncher share
   ^ about
LoopTheorems           induction and recursion, sequences, filtering
```

RunSSE and Stream cut `runSSEFunc` at a right angle. RunSSE has many requests and
takes an agent run for its outcome (`AgentError`, `AgentInterrupt`, `AgentDone`,
`AgentUnheard`). Stream has one request and looks into the agent run, at each emit.
What a client sees of a run in RunSSE (`seen`) is the last lifecycle event of Stream's
`client`. ResumeRules looks into two steps of RunSSE, `Validate` and `Prepare`, which
there either succeed or refuse.

### RunSSE

Each action is a stretch of `runSSEFunc` with at most one call to the session service
or one lifecycle event, so that two handlers interleave wherever they can notice each
other. `run[r]` is a request's program counter and its locals (`ok` is `succeeded`,
`herr` is `handlerErr # nil`, `broken` is `emitter.err # nil`, `final` is
`runFinalized`, `raised` is a non-empty `emittedInterrupts`); `pending` is the session
key; `exists` the session; `seen`, `after`, `conn` are what client and hooks saw.

| Actions | Code |
|---|---|
| `Receive`, `ReceiveMalformed` | decoding the body |
| `Before`, `Identify`, `FlushHeaders` | hooks, user, headers: errors are HTTP statuses |
| `EmitRunStarted`, `LeaveUnstarted` | first emit, and the return when it fails |
| `LoadPending`, `LoadUndecodable`, `Validate` | `loadPendingInterrupts`, `validateResumeAgainstPending` |
| `EnsureSession`, `CreateSession`, `CreateRefused` | `ensureSessionForSnapshot`: Get and Create are two steps |
| `Prepare`, `StartAgent` | message (from `resume` or the last user message) and runner; the runner appends the message, with the request's `state` as its state delta |
| `Agent*` | the event loop, by outcome |
| `Finish`, `Settle`, `AppendPending` | RunFinished; then Get and AppendEvent of the persist or clear |
| `CallAfter`, `Return` | the deferred loop |
| `Disconnect`, `Crash` | the context is cancelled; the process dies |

Abstractions: an interrupt is named by the run that raised it, because
`emitInterrupt` ends the run. Checks of single resume entries (status, payload, schema,
expiry) are one possible refusal: ResumeRules has them. The constant `OnEmit` says what
the hooks may make of each lifecycle event: the event, another one, or `"nothing"`;
`kept` remembers that they did not pass it on. A hook that aborts the stream is a failed
write. `ClientState` says what clients may have in `state` under the launcher's own key
`_agui_pending_interrupts`, which the code stores as it comes, with Create and with the
user message; the rest of `state` is data no branch depends on. The best-effort upsert of
thread metadata (agui.go:547-555) changes nothing the handler reads and is left out, as is
a launcher without a session service. `CtxAware` says whether the
session service gives up when the request is cancelled (databases do, the in-memory
service does not).

`Pace` says when clients send: `"serial"` (after the last handler returned),
`"terminal"` (as soon as the client has a terminal event), `"any"`.

### Stream

The handler decides on events and puts them in `outbox`; `Emit`, `Suppress` (OnEmit
returns nil) and `EmitFails` take them out one at a time. `OnEmit` says what the hooks may
make of each event, `Conversions` which lists of events the part converter may return:
the launcher sends both unchecked, so both are unrestricted in the module and restricted
by name (`Unobtrusive`) where a theorem needs it. No state is read between
deciding and emitting except the sticky error, which `Send` looks at. A part has a
fresh number, which stands for the uuid its message would get. Thought text is its
length, which is all `emittedReasoningLen` knows of it. `StopAfterTail` stands for both
places where a broken emitter is found after the last part. `order` is how the authors
speak in this run: in turns, or side by side as under a ParallelAgent. `voice` and
`told` are history: what each author thought in its present model call, and how much
of it was sent.

AGUIProtocol is the client: which event it may get when. It is stricter than a list of
brackets: text and reasoning exclude each other, a tool call is three events in a row,
its parent is a message that was read to its end, and RunFinished finds nothing open.
RunError may cut a tool call off, because the code emits ToolCallStart before it
marshals the arguments.

### Scheduler

`cron` is the stored cron, `h[a]` an attempt: `cronHandler` and the `executeCron` it
calls or detaches. `copy` is the cron `GetCron` returned, used until the end. `owes` is
the HTTP response, which in asynchronous mode is written concurrently with the run.
`edit` counts the owner's edits and stands for all fields the handler does not
write. A written response may not arrive (`Respond`): the server's write timeout or Cloud
Tasks' dispatch deadline may have passed, and the code ignores the error of the write.
`RunUserMessage` ends well, with an error, or "soft": the failure is an event
with an ErrorMessage, which the code drains. An invalid owner is refused exactly like
a blank prompt and is not a field of its own.

### ThreadHistory

A request makes one call, Get, and converts what it got, so it is one action (`Fetch`,
`FetchFails`). `ConvertEvent` folds the parts of an event through the code's buffers
and index; a text is the list of parts it was made of. Ids are event and index, as
in the code. `Folded` says which kinds of parts a part converter takes over and how
many messages their events fold to, none, one or several; what a message shows is
therefore a list of pieces, an event, a part and which of its messages. An event without
parts has no content. The client keeps messages by id.
The loops of the code are recursive functions on the index (`Taken`, and `Kept` of
Loops), which the proofs unfold.

### ResumeRules

One request, in the handler's order: `Validate` accepts or refuses it, `Convert` turns it
into the content for the agent, from its answers or from the newest user message.
`Tick` is the time that passes before. A JSON value is its type and what it holds, a
schema the part of JSON Schema the code reads: required names, and fragments with type,
enum and properties. A fragment below an object has no properties of its own: the code
recurses, the module looks two levels deep (`IsFragment`), one more than the schema that
`emitInterrupt` stores has. The definitions of the code are at the top; the properties
compare them with rules that are written down independently of their order.

### WebLauncher

`Execute` is a call of the launcher by the host: `ParseWeb` and `ParseKeyword` are the
loop of `Parse`, `BeginRun` the start of `Run`, `SetupHostRoutes` and `SetupSubrouter`
the two calls per active sublauncher, in the order of `NewLauncher`'s arguments,
`StartServer` the rest up to the goroutine. From there two goroutines run: `Listen`,
`ServerBreaks`, `ServerClosed`, `SendError`, `CloseChannel` are the server's,
`InitTelemetry`, `SelectDone`, `SelectServer`, `Shutdown` the rest of `Run`. `host` is
what the program around the launcher configures and stays fixed. `flags`, `once`, `mux`,
`grpc` and `lro` outlive an `Execute`, which matters when the host tries again,
with the same Config. It may do
so after any return; once a Run got as far as its server a second one panics at
`HandleHTTP("/")`, and the model returns `"panic"`. The gRPC registrar may be absent,
fresh, already hold the service from `main` (`"taken"`), or do so without a
`GetServiceInfo` to tell (`"blind"`).
`router` has one entry per catch-all. A path is its sequence of segments; a flag and its
value are one token, `--` and `-h` are left out. ADK's own `api` sublauncher stands for
those that use the gorilla router.

## 3. Runs

| Run | Instance | Shows |
|---|---|---|
| `serial_faulty` | 3 requests in turns, 2 hooks, which may keep an interrupt from the client, 1 fault of any kind but "get" | `AnswersMatchPending`, `AnsweredOnce`, `NoInterruptLost`, `PendingWasDelivered`, `NilErrorMeansSettled`, `AfterMirrorsBefore`; the thread implements InterruptContract |
| `concurrent_faulty` | 2 requests, no coordination, 1 hook, which may keep an interrupt from the client, clients that may send the launcher's key, 1 fault of any kind but a crash, fair | what survives overlap and Get failing open: answers belong to settled interrupts or came from a client, one terminal event; every request ends; a delivered interrupt becomes pending while the session can be written |
| `lost_interrupt` | 2 requests, the second on the terminal event of the first | **violated**: see Divergences |
| `stream_protocol` | root and 2 sub-agents, 4 parts, thoughts up to length 2, turns and parallel, failures; a converter that returns up to 2 events; hooks that drop and exchange | Stream implements AGUIProtocol; returned means ended; thoughts of authors in turns arrive once |
| `parallel_thoughts` | the same, 3 parts, parallel | **violated** |
| `cron_ticks` | 2 ticks; 4 attempts in sequence with 2 faults, the same with answers that get lost, or 2 that may overlap, both modes, up to 2 faults with crashes; 1 owner edit; fair | no prompt twice if answers arrive, none lost (synchronous), one conversation, initial prompt before prompt, the observer hears what is stored, owner's edits survive, every tick settles |
| `soft_failure` | 2 soft failures | **violated** |
| `history_pages` | 1 event of up to 3 parts of every kind, those included that a converter folds to 0, 1 and 2 messages, or 3 events of up to 2 parts; 2 times, limits 0 to 2 | pieces and ids correspond; pages that were not cut lose nothing |
| `history_cursor` | the second of these | **violated** |
| `resume_rules` | every answer to one interrupt under 4 schemas; every expiry; up to 2 interrupts and 2 entries, doubled and unknown ids included; every input part | refused exactly when a rule is broken; every accepted answer arrives once; consent is explicit; no thread is stuck; the newest user turn or an error |
| `web_lifecycle` | every command line of up to 3 tokens; 3 launches over 5 command lines, after any return; 3 kinds of gRPC registrar; hosts that always fail; every prefix and 2 orders of sublaunchers; 2 open requests, fair | the grammar; no setup registers a route twice, the gRPC service once unless the registrar cannot tell; one session service and one LRO client; every active sublauncher reachable; Run returns and leaves nothing; the goroutine ends |
| `documented_line` | the command line of README.md:65 and doc.go:47 | **violated** |

Why the bounds are enough. An interrupt needs three requests for all its life: one
raises it, one answers it and fails or is refused, one answers it again. Races on the
session are between two writers. One fault reaches each error path. The concurrent run has
no crash, which would end both handlers at once: what a crash leaves in the session is in
the serial run, and the theorems on overlapping runs have crashes too. The stream has
four kinds of things that can be open, and four parts open and close each pair of them
in each order; three authors give a change between sub-agents and one to and from the
root. A converter's list of two events meets every bracket that can be open. Two ticks and
two faults need four attempts to settle. In `history_pages` three
events are the least with a page before, at and after an event of the same time.
A converter that folds to two messages is the least that makes the numbering skip.
A repeated keyword, a flag before, after and of a later keyword need three tokens; the
documented line has more and is one of the lines to retry with. Three launches are a
failure, its stored error and a change of the command line, or a server that failed and
two that find the root taken. For ResumeRules doubled ids and missing answers need two
entries.
The nesting of schemas in ResumeRules, `MaxFaults`, `MaxParts`, `MaxThought`,
`MaxAttempts`, `MaxEdits`, `MaxTime`, `MaxOpen`, the `parts` and `events` of a scope, the
`attempts` and `maxFaults` of a setting and the `executions` of a host are the only
bounds. A refused Create or an undecodable record is not counted against `MaxFaults`: a
Create that lost a race is no fault, and a record stays as it is.
Deadlock is checked except in ResumeRules, whose request is over after its answer, and
WebLauncher, whose process may be idle for ever; where another system may stop
(`Quiescent`, `Returned`, `Rest`, `Over`) the module says so with a stuttering action
whose guard is the proper end.

Symmetry is used for requests, and for the two sub-agents, in runs without liveness.

Fairness. `RunSSE!FairSpec` is weak fairness of each handler's steps: a goroutine that
can run is run. At the agent loop it assumes that the ADK iterator ends; no client has
to send anything, and faults are never forced. `Scheduler!FairSpec` adds that Cloud
Tasks dispatches what is queued, which is its contract; `EveryTickSettles` holds
because fewer faults happen than there are attempts, and only for crons with a prompt
(one without is refused for ever). `WebLauncher!FairSpec` is weak fairness of `Run`'s
goroutine and of the server's; nobody has to send or end requests, to cancel the context
or to launch again, so `RunReturns` rests on the shutdown timeout.

Mutants. Above some definitions stands an operator commented "Mutant": the same with a
mistake a programmer could make. `PROJECT.json` names for each property of a passing
run a mutant that must break it, which shows that the property is not vacuous.

### Divergences found

- `lost_interrupt`: RunFinished with the interrupt is on the wire before
  `persistPendingInterrupts` writes it. A client that starts its next run at once is
  validated against the old state; that run's clear may come after the persist, and
  the interrupt is gone without an answer.
- `parallel_thoughts`: `emittedReasoningLen` is shared by all authors, so of two
  sub-agents that think at once the second one's text is cut.
- `soft_failure`: `RunUserMessage` ignores an event's ErrorMessage (the `run_sse` loop
  does not), so a one-shot cron is archived after a failed run.
- `history_cursor`: a page cut by `limit` gets the session's LastUpdateTime as its
  cursor, so what lies between is never delivered. With equal times and limit 1 the
  same page also repeats for ever.
- `documented_line`: `adk web --port 8080 agui lro scheduler -service_id=my-service
  -app_name=my-agent`, which README.md:65 and doc.go:47 show, is refused. `Parse` hands what
  follows the keyword `scheduler` to its FlagSet, which does not know `-service_id`; the
  flag belongs after `lro`.

Seen while modelling and kept out of the runs: After hooks hear nil for a request a Before
hook rejected, one without a user, and one whose RunFinished could not be written; a call
whose arguments do not marshal leaves its ToolCallStart unended; only the first of several
confirmations in one event becomes an interrupt; the initial prompt is sent again, in a
new session, after a main run that failed, where scheduler/doc.go:33 says once; a blank
`initial_prompt` is skipped rather than rejected; a 200 that does not reach Cloud Tasks
makes a prompt run again (`NoDuplicateRun` says so). An OnEmit hook that swallows
RunFinished with an interrupt leaves the thread waiting for an id nobody knows, because
the interrupt is recorded all the same (stream.go:396-401). An interrupt takes the id of
its function call unchecked (stream.go:381), and one with an empty id could not be
answered. A request's `state` may contain `_agui_pending_interrupts` and then decides what
later requests are validated against. A part converter that returns RUN_ERROR, as
stream_test.go:603 has one do, gives the client two terminal events.

Of the launcher: gorilla's `PathPrefix(...).Subrouter()` matches under the prefix but does
not strip it, as lro.go:188-189 says it does, so the inner ServeMux, whose patterns begin
at the root, answers 404 to every path of `lro` under a prefix; a host that calls
`Execute` again after a server or telemetry failed panics at the root route (web.go:148),
the only one without a Once; a gRPC registrar without `GetServiceInfo` gets the service
registered a second time when `main` did so already; the server keeps listening when
telemetry cannot start; a setup that failed fails again after the flags were corrected,
because the error beside the Once is kept; a retry with another command line leaves the
routes of a sublauncher that is no longer active, and those of agui under the prefix it
had when they were mounted; the catch-all of `lro` at the root hides gorilla routes set up
after it (`Shadowed`, which also has `lro` under a prefix). The messages endpoint reads
with the IAM identity where `run_sse` lets hooks override the user.

## 4. Proofs

Every invariant and every safety property that a passing run checks is proved, for all
values of the constants that meet the assumptions named with the theorem. Each module
below ends in the theorems; before them come the inductive invariant, a lemma for each part
of it, and in these a case for each action.

### RunSSE_proof

- `TypeCorrect`: `Spec => []TypeOK`, for every `Pace` and all faults. `StepType` is the
  lemma for a handler's step, one case per action.
- `NoStaleAnswers`: `Serialised => (Spec => []AnswersMatchPending)`. Between
  validation and settling a run answers exactly what is pending, through crashes,
  disconnects, and failed writes.
- `KeepsContract`: `Serialised => (Spec => ContractSpec)`: RunSSE implements
  InterruptContract, with `open <- pending`, `active <-` the requests between `Prepare`
  and `AppendPending`, `given <-` what they answer.

`Serialised` says that clients take turns, that Get does not fail on a live request, and
that no client sends the launcher's key (`KeyIsPrivate`). All are needed: without the first
`lost_interrupt` is a counterexample; with a Get that fails open a run without answers
starts over open interrupts; and a key that a client sends replaces what is pending while
a run is under way.

`AnswersMatchPending` speaks of handlers past the checks and is not inductive: it does
not say why the copy loaded earlier is current. `SerialInv` adds `OneAtATime` (at most one
handler is busy, so nobody else writes) and `CopyIsCurrent` (from the load on, the copy
equals `pending`, or the request was cancelled, its Get failed, and then Create will
fail too). `StepIsSummarised` reduces the handler's actions to the few things the
invariant can notice, and `SerialInvStep` and `RefinesStep` work from that summary.

### RunSSE_safety

For every `Pace`, all faults, hooks and clients: `HooksAreMirrored`,
`AnswersAreToRealInterrupts`, `PendingIsDelivered`, and, with hooks that turn no event into
a terminal one (`HooksKeepMeaning`), `TerminalEventIsLast`. They follow from
one invariant in three parts. `Sane` is about one handler: what its locals and its
client's view say at each program counter. `Mirrors` is about the After hooks called so
far. `Shared` is about what handlers know of each other: interrupts that are pending,
loaded, or answered were raised by a request that has settled, or a client sent them
(`Known`, `Trusts`, `Sent`). None is
inductive alone: an answer is real because the copy it was checked against is, which is
because the session was. One lemma per part has a case per action.

Under `Serialised`, in addition: `NoErrorMeansSettled`, `AnsweredAtMostOnce`, and
`InterruptsAreKept`, which also needs hooks that make no other event an interrupt.
`LeftBehind` is what a run that is about to call its After hooks left in the session,
`Kept` where a delivered interrupt is, `Consumed` that what a clean run answered is no
longer pending, `Apart` that clean runs answered different interrupts. Only `Settling`
looks at actions; everything else about a step comes from the summary of RunSSE_proof.

### Scheduler_proof

- `TypeCorrect`, `OwnerAlwaysWins`, for every setting.
- `ObserverIsRight` from `AttemptOK`, what the locals of an attempt, its observer and the
  stored cron say of each other at each program counter, and `ResultInv`, that an attempt
  whose result was stored ran its own tick's prompt and left its mark in the cron.
- `InitialPromptFirst`, through overlaps and crashes: every session in which a prompt
  ran or is about to run had the initial prompt (`OpeningInv`), because the session of an
  attempt whose initial run failed is not used again.
- `NoTickIsLost`: every answer that takes a tick off the queue has a reason
  (`AnsweredInv`).
- `OneConversationOnly`, for attempts that take turns without crashes: `TurnsInv` says that
  at most one attempt works and that all results stored so far are in the session the cron
  names.
- `NoTickRunsTwice`, if answers also arrive: `OnceInv` says that the tick of a prompt that
  ran is off the queue or about to be. A lost 200 breaks it, not `TurnsInv`.

### Stream_proof

- `KeepsProtocol`: `Unobtrusive => (Spec => ProtocolSpec)`: Stream implements
  AGUIProtocol, with any authors, any number of parts, a converter that returns any number
  of events, and an emitter that may fail at any of them.
- `ReturnedHasEnded`, `TypeCorrect`, under the same hypothesis.
- `TurnsDeliverThoughts`: `Spec => []TurnsArriveOnce`, without it.

`Unobtrusive` says that the events of the converter stand alone and that hooks drop or
exchange only events that do. Applications must keep to it, nothing in the code enforces
it: a hook that swallows TextMessageStart, or a converter that returns a terminal event,
breaks the stream of any handler.

The outbox is a script: what the client will read unless an emit fails. `Plays(c, s, d)`
says that a client in state c can read script s and is in state d then; scripts compose
(`BothPlay`) and can be read event by event (`HeadPlays`). The invariant `StreamInv` says
that the outbox plays to a client that `Follows` the handler: while the run goes on it
`Agrees` with `streamState` on what is open, after it has its terminal event. With that,
each closing helper, each tool call and each ending is a lemma about the script it emits
(`FinalizePlays`, `ToolCallPlays`, `ErrorPlays`, `CutPlays`), `HandleScripts` has a case per
action of the handler, and an emit only needs `HeadPlays`. ProtocolSpec alone is not
inductive: that RunFinished finds nothing open depends on all that was decided before.

`OneThinks`, for the thoughts: at most one author is in a thought, and
`emittedReasoningLen` is the length of that one's. It fails when authors speak in
parallel, which is what the run `parallel_thoughts` shows.

### ResumeRules_proof

For requests with any number of answers and threads with any number of interrupts:

- `RefusalIsExact`: a request is refused exactly when it breaks a rule. `AcceptsMeans` brings
  `Accepts`, which follows the code's loop, early returns and last record of an id, to
  the rules of the property, `FitsMeans` and `ExpiredMeans` do that for one payload and one
  expiry.
- `AnswersArrive`, `ConsentAlwaysExplicit`: check and mapping agree. An entry that
  passed against the schema of `emitInterrupt` is one that `Mapped` takes, and there are as
  many as there are interrupts (`IdsCount`: a list without repetition is as long as its
  set).
- `NewestTurnIsSent`: the newest user turn, whole, or an error.
- `ThreadNeverStuck`: to cancel all and to approve all is accepted, whatever the thread is
  waiting for, as long as the interrupts come from `emitInterrupt`.

The invariant says what each phase knows: `Decided`, that a request past `Validate` was
accepted, and `Converted`, that the content is what the mapping made of it. The
properties need nothing of the past beyond that, the work is in the lemmas about the
operators. The assumption `ResumeCases` is about the data only: sequences are sequences, an
expiry is one of three kinds, a schema nests as deep as the module looks.

### ThreadHistory_proof

For sessions of any size, any limits and times, and events appended at any moment:

- `ConvertEventShowsOnce`, about the operator: for events of any length and a converter
  that folds a part to any number of messages, each piece of each part is shown in exactly
  one message, nothing else is, and the messages are numbered without a gap. `TakeFiles` is
  one turn of the loop: what is in messages and buffers stays apart and together is what
  was displayed so far.
- `IdsAlwaysIdentify`: `GotIsHistory`, every message the client has is one of an event as it
  is stored, so that two of the same id are the same, whichever pages they came with.
- `UncutPagesNeverMiss`: `UncutPagesAreComplete`, pages that were not cut hold all there was
  up to `upTo`, and `CursorBeforeNew`, what came later is not before the cursor. The second
  needs `InOrder`: events are stored in the order of their times.
- `TypeCorrect`.

`PagesAreComplete`, which the documentation promises, is false (`history_cursor`).

### WebLauncher_proof

For all hosts, command lines and orders of sublaunchers, and retries without number after
any return:

- `RunLeavesNothing`, of a Run that started its server: `RunInv` ties each step of Run to
  the server and telemetry, `GoInv` the goroutine to the server. Together they say that a
  channel closed without an error is never seen by the select: only Shutdown ends the
  server so, and Run has left the select then. The `nil` branch of `SelectServer`, which
  may leave requests open, is dead.
- `ServicesAreShared`, from `ShareInv`: agui captures a service only when there is one, and a
  config that has one keeps it.
- `NeverRegisteredTwice`, from `MuxInv`: the patterns on the host mux end in names that
  belong to the sublaunchers whose Once is done (`Registered`), and a Once that is new has
  none there. `RootInv` says that "/" is there exactly if some Run started a server, so a
  Run that panics comes after one. Patterns of different names cannot meet, whatever the
  prefix is, and those of one sublauncher differ among themselves (`AguiRegisters`).
- `GrammarIsAccepted`, from `GrammarInv`: `Consumed` says where the loop of Parse is in the
  command line, that all it took was fine and gave the active sublaunchers. `KeywordTaken`
  is one turn of that loop, `RestDecides` its end.
- `ActiveAreServed`: `Spec /\ PrefixStays => []ServesEverything`. `PatternsInv` says where
  the patterns of the host mux lead, `SetupInv` how far Run is: what it is done with is
  mounted, in the order of the arguments, what is ahead is not. That order decides which
  catch-all wins. `PrefixStays` says that no later command line moves the prefix of agui
  once its routes are mounted. Without it the theorem is false: the routes stay where the
  Once put them. The hosts of `web_lifecycle` that try again keep to it. Of the paths of
  agui, `run_sse` stands for those mounted with it.
- `TypeCorrect`, from `TypeInv`.

### LoopTheorems

Recursive functions need induction, and the induction theorems of the library take the
property as an operator, which no backend can instantiate. Here the property is a
set of numbers: `SetInduction` comes from the well-foundedness of "less than", a fact about
sets, `InductionUpTo` is the form for a loop of n turns, and `Recursion` says that such a loop
has a value after each turn, which is what allows to unfold a definition by recursion. On
these rest `KeptRange` and `KeptOrder` (the filter keeps the right members, in their order)
and the facts about ranges, concatenation and last positions that the other modules cite.

### Only model-checked

The liveness properties, `EveryRequestEnds` and `InterruptBecomesPending` of RunSSE,
`EveryTickSettles` of Scheduler, `GoroutineEnds` and `RunReturns` of WebLauncher: they rest
on fairness, which is out of the prover's reach. TLC checks them on the bounds above.

## 5. Not modelled

- The thread metadata endpoints and the upsert of `run_sse`: they keep no state, each
  passes one call through to ThreadService, and the upsert's outcome is only logged.
- Capabilities and the headers of CORS: pure functions of a configuration fixed at start.
- `FormatFlagUsage`, help and console messages: layout.
- Contents of snapshots, state deltas and JSON pointers: data that no branch depends on, but
  for the key `_agui_pending_interrupts`, which RunSSE has.
- What converters and hooks do beyond the events they return: they are the application's.
- The ADK runner, the session, cron and LRO services: libraries. The modules have what
  the code relies on and the ways in which they fail.
