------------------------------ MODULE RunSSE ------------------------------
(***************************************************************************)
(* The run_sse requests of one AG-UI thread (agui/agui.go runSSEFunc) and   *)
(* the ADK session they share (agui/interrupt_state.go, agui/snapshot.go).  *)
(*                                                                          *)
(* net/http runs every request in a goroutine of its own and nothing in the *)
(* launcher serialises the requests of a thread, so each action below is    *)
(* one step of one handler that makes at most one call to the session       *)
(* service or writes one terminal event.  An interrupt is named by the run  *)
(* that raised it: emitInterrupt ends the run, so there is at most one.     *)
(* What happens between RunStarted and the terminal event on the wire is    *)
(* the subject of module Stream; here an agent run is its outcome.          *)
(*                                                                          *)
(* An operator marked "Mutant" is wrong on purpose and used nowhere: put in *)
(* the place of the definition below it, it must break a property.          *)
(***************************************************************************)
EXTENDS Naturals, Sequences, FiniteSets

CONSTANTS
  Requests,   \* the requests the clients of the thread send, ever
  Hooks,      \* how many CallInterceptors are configured
  Pace,       \* when a client sends a request: see MayReceive
  Faults,     \* the faults that may happen: see FaultKinds
  MaxFaults,  \* bound: how many of them happen in one behaviour
  CtxAware,   \* does the session service give up when the request is cancelled
  OnEmit,     \* what the OnEmit chain may make of each lifecycle event
  ClientState \* what clients may have in `state` under the launcher's own key

Paces == {"serial", "terminal", "any"}
FaultKinds == {"get", "undecodable", "create", "append", "write", "disconnect", "crash"}

ASSUME HooksAssumption == Hooks \in Nat
ASSUME PaceAssumption == Pace \in Paces
ASSUME FaultsAssumption == Faults \subseteq FaultKinds /\ MaxFaults \in Nat
ASSUME CtxAssumption == CtxAware \in BOOLEAN

Terminal == {"success", "error", "interrupt"}
Events == {"started"} \cup Terminal
Lifecycle == {"nothing"} \cup Events

\* A hook returns the event, another one, or nil ("nothing"): OnEmit[e] has what
\* may come out of the chain.  Without hooks that is e.
ASSUME OnEmitAssumption ==
  /\ OnEmit \in [Events -> (SUBSET Lifecycle) \ {{}}]
  /\ Hooks = 0 => \A e \in Events : OnEmit[e] = {e}
ASSUME ClientStateAssumption == ClientState \subseteq SUBSET Requests

\* Hypotheses of some properties, which nothing in the code enforces.  Hooks make
\* no event a terminal one that was none, and no event an interrupt: the events
\* of the agent, which this module leaves out, included.
HooksKeepMeaning ==
  /\ OnEmit["started"] \cap Terminal = {}
  /\ \A e \in Events \ {"interrupt"} : "interrupt" \notin OnEmit[e]
\* Only the launcher writes _agui_pending_interrupts.
KeyIsPrivate == ClientState = {}

VARIABLES
  run,      \* per request: the handler's program counter and local variables
  seen,     \* per request: the last lifecycle event its client received
  after,    \* per request: the After calls made, in order, with their error
  conn,     \* per request: the client is still connected
  exists,   \* the ADK session exists
  pending,  \* _agui_pending_interrupts in the session's state
  faults    \* how many faults have happened

vars == <<run, seen, after, conn, exists, pending, faults>>

Locations == {"idle", "before", "flush", "start", "load", "validate", "ensure", "create",
              "prepare", "message", "agent", "finish", "settle", "append", "after", "done",
              "lost"}

Handler == [pc     : Locations,
            resume : SUBSET Requests,  \* RunAgentInput.resume: the ids it answers
            state  : SUBSET ClientState, \* .state: what it has under the key, if it has the key
            loaded : SUBSET Requests,  \* pending, as loadPendingInterrupts returned it
            ok     : 0..Hooks,         \* succeeded
            herr   : BOOLEAN,          \* handlerErr # nil
            broken : BOOLEAN,          \* emitter.err # nil
            final  : BOOLEAN,          \* streamState.runFinalized
            raised : BOOLEAN,          \* len(streamState.emittedInterrupts) > 0
            ran    : BOOLEAN,          \* history: the agent was started
            kept   : BOOLEAN]          \* history: OnEmit did not pass on the last event

Fresh == [pc |-> "idle", resume |-> {}, state |-> {}, loaded |-> {}, ok |-> 0, herr |-> FALSE,
          broken |-> FALSE, final |-> FALSE, raised |-> FALSE, ran |-> FALSE, kept |-> FALSE]

Init ==
  /\ run = [r \in Requests |-> Fresh]
  /\ seen = [r \in Requests |-> "nothing"]
  /\ after = [r \in Requests |-> <<>>]
  /\ conn = [r \in Requests |-> TRUE]
  /\ exists = FALSE
  /\ pending = {}
  /\ faults = 0

-----------------------------------------------------------------------------
(* Helpers.                                                                 *)

At(r, p) == run[r].pc = p
Become(r, h) == run' = [run EXCEPT ![r] = h]
Goto(r, p) == Become(r, [run[r] EXCEPT !.pc = p])

NoFault == UNCHANGED faults
Fault(f) == f \in Faults /\ faults < MaxFaults /\ faults' = faults + 1

\* A call to the session service with the request's context.  In-memory
\* services ignore cancellation, database-backed ones fail.
CallWorks(r) == (conn[r] \/ ~CtxAware) /\ NoFault
CallFails(r, f) == (~conn[r] /\ CtxAware /\ NoFault) \/ Fault(f)

\* One emit: what the hooks make of the event reaches the client, it vanishes in
\* the buffers of a broken connection, or it fails and every later emit is a
\* no-op.  OnEmit aborting the stream looks the same as a failed write.  `h` is
\* the handler's state after the call.
Emit(r, event, h) ==
  \E out \in OnEmit[event] :
    LET g == [h EXCEPT !.kept = out # event]
    IN  \/ /\ ~run[r].broken /\ conn[r] /\ NoFault
           /\ seen' = IF out = "nothing" THEN seen ELSE [seen EXCEPT ![r] = out]
           /\ Become(r, g)
        \/ /\ run[r].broken \/ ~conn[r]
           /\ NoFault
           /\ Become(r, g)
           /\ UNCHANGED seen
        \/ /\ ~run[r].broken
           /\ (~conn[r] /\ NoFault) \/ Fault("write")
           /\ Become(r, [g EXCEPT !.broken = TRUE])
           /\ UNCHANGED seen

\* Has a terminal event been decided on?  Mutant: nobody asks.
NeverFinalized(r) == FALSE
Finalized(r) == run[r].final

\* emitError: remember the error, send RunError unless a terminal event went out.
\* Mutant: the interrupt is recorded before its events are known to be good.
FailedRecorded(r, next) ==
  [run[r] EXCEPT !.pc = next, !.herr = TRUE, !.final = TRUE, !.raised = next = "finish"]
Failed(r, next) == [run[r] EXCEPT !.pc = next, !.herr = TRUE, !.final = TRUE]

EmitError(r, next) ==
  LET h == Failed(r, next)
  IN  IF Finalized(r)
      THEN Become(r, h) /\ NoFault /\ UNCHANGED seen
      ELSE Emit(r, "error", h)

Quiet(r) == run[r].pc \in {"idle", "done", "lost"}

\* "serial":   the next request waits for the handler of the last one;
\* "terminal": the client reacts to what it observes, a terminal event or a
\*             broken connection, while the handler may still be running;
\* "any":      several clients, uncoordinated.
ClientSeesEnd(r) == seen[r] \in Terminal \/ ~conn[r]
MayReceive ==
  \A q \in Requests :
    \/ Quiet(q)
    \/ Pace = "any"
    \/ Pace = "terminal" /\ ClientSeesEnd(q)

store == <<exists, pending>>

\* The session's key once the request's `state` is merged into the session: req.State
\* is passed on as it came, with the key if the client sent it.
WithState(r) == IF run[r].state = {} THEN pending ELSE UNION run[r].state

-----------------------------------------------------------------------------
(* Before the stream: failures answer with an HTTP status.                  *)

\* A request reaches the handler.  The client may answer any set of ids, and it
\* may send the launcher's key back, or one of its own making.
Receive(r) ==
  /\ At(r, "idle")
  /\ MayReceive
  /\ \E ids \in SUBSET Requests, sent \in {{}} \cup {{s} : s \in ClientState} :
       Become(r, [run[r] EXCEPT !.pc = "before", !.resume = ids, !.state = sent])
  /\ UNCHANGED <<seen, after, conn, store, faults>>

\* The body does not decode: 400, no interceptor hears of the request.
ReceiveMalformed(r) ==
  /\ At(r, "idle")
  /\ MayReceive
  /\ Goto(r, "done")
  /\ UNCHANGED <<seen, after, conn, store, faults>>

\* Mutant: one hook too many.
HooksLeftAtMost(r) == run[r].ok <= Hooks
HooksLeft(r) == run[r].ok < Hooks

\* The next Before hook accepts the request, or rejects it: 500, and
\* handlerErr stays nil.
Before(r) ==
  /\ At(r, "before")
  /\ HooksLeft(r)
  /\ \/ Become(r, [run[r] EXCEPT !.ok = @ + 1])
     \/ Goto(r, "after")
  /\ UNCHANGED <<seen, after, conn, store, faults>>

\* All hooks accepted.  Without a user: 400, and handlerErr stays nil.
Identify(r) ==
  /\ At(r, "before")
  /\ run[r].ok = Hooks
  /\ Goto(r, "flush") \/ Goto(r, "after")
  /\ UNCHANGED <<seen, after, conn, store, faults>>

FlushHeaders(r) ==
  /\ At(r, "flush")
  /\ \/ Goto(r, "start") /\ NoFault
     \/ /\ (~conn[r] /\ NoFault) \/ Fault("write")
        /\ Become(r, [run[r] EXCEPT !.pc = "after", !.herr = TRUE])
  /\ UNCHANGED <<seen, after, conn, store>>

-----------------------------------------------------------------------------
(* On the stream: failures are RunError events.                             *)

EmitRunStarted(r) ==
  /\ At(r, "start")
  /\ Emit(r, "started", [run[r] EXCEPT !.pc = "load"])
  /\ UNCHANGED <<after, conn, store>>

\* The emit above failed: leave before anything is loaded.
LeaveUnstarted(r) ==
  /\ At(r, "load")
  /\ run[r].broken
  /\ Become(r, [run[r] EXCEPT !.pc = "after", !.herr = TRUE])
  /\ UNCHANGED <<seen, after, conn, store, faults>>

\* loadPendingInterrupts fails open: an error of Get reads as "none pending".
\* Only records that do not decode end the run.
LoadPending(r) ==
  /\ At(r, "load")
  /\ ~run[r].broken
  /\ \/ CallWorks(r) /\ Become(r, [run[r] EXCEPT !.pc = "validate", !.loaded = pending])
     \/ CallFails(r, "get") /\ Become(r, [run[r] EXCEPT !.pc = "validate", !.loaded = {}])
  /\ UNCHANGED <<seen, after, conn, store>>

LoadUndecodable(r) ==
  /\ At(r, "load")
  /\ ~run[r].broken
  /\ exists
  /\ "undecodable" \in Faults
  /\ EmitError(r, "after")
  /\ UNCHANGED <<after, conn, store>>

\* validateResumeAgainstPending, for entries named by their id: with nothing
\* pending there is nothing to resume, otherwise the entries name every
\* pending id and no other.  Mutants: rule 3 is forgotten, every id is known.
CoversSome(ids, open) == ids \subseteq open
CoversAtLeast(ids, open) == open \subseteq ids
Covers(ids, open) == ids = open

\* A covering resume can still be refused: status, payload, schema, expiry.
Validate(r) ==
  /\ At(r, "validate")
  /\ \/ /\ Covers(run[r].resume, run[r].loaded)
        /\ Goto(r, "ensure")
        /\ NoFault
        /\ UNCHANGED seen
     \/ /\ ~Covers(run[r].resume, run[r].loaded) \/ run[r].resume # {}
        /\ EmitError(r, "after")
  /\ UNCHANGED <<after, conn, store>>

\* ensureSessionForSnapshot, first half: the session is there, or Get failed,
\* which is taken for "not found".
EnsureSession(r) ==
  /\ At(r, "ensure")
  /\ \/ CallWorks(r) /\ Goto(r, IF exists THEN "prepare" ELSE "create")
     \/ CallFails(r, "get") /\ Goto(r, "create")
  /\ UNCHANGED <<seen, after, conn, store>>

\* Second half: Create, with req.State, fails when another request got there first.
CreateSession(r) ==
  /\ At(r, "create")
  /\ ~exists
  /\ CallWorks(r)
  /\ exists' = TRUE
  /\ pending' = WithState(r)
  /\ Goto(r, "prepare")
  /\ UNCHANGED <<seen, after, conn>>

\* Mutant: a refused Create is tried again, for ever.
CreateRetried(r) ==
  /\ At(r, "create")
  /\ exists \/ "create" \in Faults \/ (~conn[r] /\ CtxAware)
  /\ Goto(r, "ensure")
  /\ UNCHANGED <<seen, after, conn, store, faults>>

CreateRefused(r) ==
  /\ At(r, "create")
  /\ exists \/ "create" \in Faults \/ (~conn[r] /\ CtxAware)
  /\ EmitError(r, "after")
  /\ UNCHANGED <<after, conn, store>>

\* Build the message from resume or from the last user message and build the
\* runner; any of it can fail.
Prepare(r) ==
  /\ At(r, "prepare")
  /\ \/ Goto(r, "message") /\ NoFault /\ UNCHANGED seen
     \/ EmitError(r, "after")
  /\ UNCHANGED <<after, conn, store>>

\* The runner appends the user message, with req.State as its state delta, and
\* starts the agent.  An error of it comes out of the iterator.
StartAgent(r) ==
  /\ At(r, "message")
  /\ \/ /\ CallWorks(r)
        /\ pending' = WithState(r)
        /\ Become(r, [run[r] EXCEPT !.pc = "agent", !.ran = TRUE])
        /\ UNCHANGED seen
     \/ EmitError(r, "finish") /\ UNCHANGED pending
  /\ UNCHANGED <<after, conn, exists>>

\* An event of the agent could not be written: processEvent returns e.err and
\* the loop breaks.
AgentUnheard(r) ==
  /\ At(r, "agent")
  /\ (~conn[r] /\ NoFault) \/ Fault("write")
  /\ Become(r, [run[r] EXCEPT !.pc = "finish", !.broken = TRUE, !.herr = TRUE, !.final = TRUE])
  /\ UNCHANGED <<seen, after, conn, store>>

\* The agent, or the translation of one of its events, fails.
AgentError(r) ==
  /\ At(r, "agent")
  /\ EmitError(r, "finish")
  /\ UNCHANGED <<after, conn, store>>

\* adk_request_confirmation: the run ends with an interrupt outcome, which is
\* remembered even when nobody receives it.
AgentInterrupt(r) ==
  /\ At(r, "agent")
  /\ Emit(r, "interrupt", [run[r] EXCEPT !.pc = "finish", !.raised = TRUE, !.final = TRUE])
  /\ UNCHANGED <<after, conn, store>>

AgentDone(r) ==
  /\ At(r, "agent")
  /\ Goto(r, "finish")
  /\ UNCHANGED <<seen, after, conn, store, faults>>

\* RunFinished with a success outcome, unless a terminal event was sent.
Finish(r) ==
  /\ At(r, "finish")
  /\ IF Finalized(r)
     THEN Goto(r, "settle") /\ NoFault /\ UNCHANGED seen
     ELSE Emit(r, "success", [run[r] EXCEPT !.pc = "settle", !.final = TRUE])
  /\ UNCHANGED <<after, conn, store>>

-----------------------------------------------------------------------------
(* After the terminal event: persist or clear, then the After hooks.        *)

\* An interrupt was raised: persist it.  No error: clear.  Otherwise leave it.
Writes(r) == run[r].raised \/ ~run[r].herr

\* writePendingInterruptsState, first half: load the session.
Settle(r) ==
  /\ At(r, "settle")
  /\ \/ ~Writes(r) /\ Goto(r, "after") /\ NoFault
     \/ Writes(r) /\ CallWorks(r) /\ Goto(r, "append")
     \/ /\ Writes(r)
        /\ CallFails(r, "get")
        /\ Become(r, [run[r] EXCEPT !.pc = "after", !.herr = TRUE])
  /\ UNCHANGED <<seen, after, conn, store>>

\* What it writes: this run's interrupt, or nothing.
\* Mutants: the records are added to what is there; the two cases are swapped.
LeavesMore(r) == pending \cup (IF run[r].raised THEN {r} ELSE {})
LeavesUnlessClean(r) == IF ~run[r].herr THEN {} ELSE {r}
Leaves(r) == IF run[r].raised THEN {r} ELSE {}

\* Second half: AppendEvent overwrites the key, whatever it holds by now.
AppendPending(r) ==
  /\ At(r, "append")
  /\ \/ /\ CallWorks(r)
        /\ pending' = Leaves(r)
        /\ Goto(r, "after")
     \/ /\ CallFails(r, "append")
        /\ Become(r, [run[r] EXCEPT !.pc = "after", !.herr = TRUE])
        /\ UNCHANGED pending
  /\ UNCHANGED <<seen, after, conn, exists>>

\* Mutant: in the order of the Before hooks.
FirstHookFirst(r) == Len(after[r]) + 1
NextHook(r) == run[r].ok - Len(after[r])

\* The deferred loop: After, last hook first, for the hooks whose Before succeeded.
CallAfter(r) ==
  /\ At(r, "after")
  /\ Len(after[r]) < run[r].ok
  /\ after' = [after EXCEPT ![r] =
                 Append(@, [hook |-> NextHook(r), err |-> run[r].herr])]
  /\ UNCHANGED <<run, seen, conn, store, faults>>

\* The handler returns; its client sees the end of the stream.
Return(r) ==
  /\ At(r, "after")
  /\ Len(after[r]) >= run[r].ok
  /\ Goto(r, "done")
  /\ UNCHANGED <<seen, after, conn, store, faults>>

-----------------------------------------------------------------------------
(* The environment.                                                         *)

\* The client goes away: the request's context is cancelled.
Disconnect(r) ==
  /\ ~Quiet(r)
  /\ conn[r]
  /\ Fault("disconnect")
  /\ conn' = [conn EXCEPT ![r] = FALSE]
  /\ UNCHANGED <<run, seen, after, store>>

\* The process dies; the session service keeps what was written.
Crash ==
  /\ \E r \in Requests : ~Quiet(r)
  /\ Fault("crash")
  /\ run' = [r \in Requests |-> IF Quiet(r) THEN run[r] ELSE [run[r] EXCEPT !.pc = "lost"]]
  /\ UNCHANGED <<seen, after, conn, store>>

Step(r) ==
  \/ Before(r) \/ Identify(r) \/ FlushHeaders(r)
  \/ EmitRunStarted(r) \/ LeaveUnstarted(r)
  \/ LoadPending(r) \/ LoadUndecodable(r) \/ Validate(r)
  \/ EnsureSession(r) \/ CreateSession(r) \/ CreateRefused(r) \/ Prepare(r) \/ StartAgent(r)
  \/ AgentUnheard(r) \/ AgentError(r) \/ AgentInterrupt(r) \/ AgentDone(r) \/ Finish(r)
  \/ Settle(r) \/ AppendPending(r) \/ CallAfter(r) \/ Return(r)

\* The clients have sent all they had to send.
Quiescent ==
  /\ \A r \in Requests : run[r].pc \in {"done", "lost"}
  /\ UNCHANGED vars

Next ==
  \/ \E r \in Requests : Receive(r) \/ ReceiveMalformed(r) \/ Step(r) \/ Disconnect(r)
  \/ Crash
  \/ Quiescent

Spec == Init /\ [][Next]_vars

\* A goroutine that can move is scheduled.  At "agent" this assumes that the
\* iterator of the ADK runner ends.  Nobody has to send a request.
FairSpec == Spec /\ \A r \in Requests : WF_vars(Step(r))

-----------------------------------------------------------------------------
(* Properties.                                                              *)

TypeOK ==
  /\ run \in [Requests -> Handler]
  /\ seen \in [Requests -> Lifecycle]
  /\ after \in [Requests -> Seq([hook : Nat, err : BOOLEAN])]
  /\ conn \in [Requests -> BOOLEAN]
  /\ exists \in BOOLEAN
  /\ pending \in SUBSET Requests
  /\ faults \in Nat

\* The handler is past the checks and has not yet settled the thread.
Holds(r) == run[r].pc \in {"prepare", "message", "agent", "finish", "settle", "append"}

\* Between validation and settling, the interrupts a run answers are the ones
\* that are pending: the copy it validated against has not gone stale.  Needs
\* runs that take turns (Pace = "serial"), a Get that does not fail, and a key that
\* clients do not send.
AnswersMatchPending ==
  \A r \in Requests : Holds(r) => run[r].resume = pending

\* Why that is so, as an inductive invariant: at most one handler is busy, and
\* from the moment it loads the pending interrupts its copy is current, unless
\* its request was cancelled, in which case it will not get past "create".
Serialised == Pace = "serial" /\ "get" \notin Faults /\ KeyIsPrivate
Cancelled(r) == ~conn[r] /\ CtxAware
OneAtATime == \A r, q \in Requests : ~Quiet(r) /\ ~Quiet(q) => r = q
CopyIsCurrent ==
  \A r \in Requests :
    /\ At(r, "validate") => run[r].loaded = pending \/ Cancelled(r)
    /\ At(r, "ensure") \/ At(r, "create") => run[r].resume = pending \/ Cancelled(r)
SerialInv == OneAtATime /\ CopyIsCurrent /\ AnswersMatchPending

\* With runs that take turns the thread keeps the promise of
\* InterruptContract, whatever fails in between, Get apart.
Contract == INSTANCE InterruptContract WITH
  Runs   <- Requests,
  open   <- pending,
  active <- {r \in Requests : Holds(r)},
  given  <- UNION {run[r].resume : r \in {q \in Requests : Holds(q)}}
ContractSpec == Contract!Spec

\* When the After hooks are about to hear "no error" of a run whose agent ran,
\* the session already says what the next request is validated against.
NilErrorMeansSettled ==
  \A r \in Requests :
    At(r, "after") /\ run[r].ran /\ ~run[r].herr
      => pending = IF run[r].raised THEN {r} ELSE {}

\* An interrupt is answered at most once by runs that reported no error.
AnsweredOnce ==
  \A r, q \in Requests :
    (/\ r # q
     /\ \A s \in {r, q} : At(s, "done") /\ run[s].ran /\ ~run[s].herr)
      => run[r].resume \cap run[q].resume = {}

\* interrupt_state.go:155-156: interrupts are persisted "so the next request on
\* this thread can be validated against AG-UI resume rules".  So an interrupt
\* that was received of a run without an error is pending once that run is
\* over, until an agent gets the answer.  Needs HooksKeepMeaning.
NoInterruptLost ==
  \A q \in Requests :
    seen[q] = "interrupt" /\ At(q, "done") /\ ~run[q].herr
      => q \in pending \/ \E r \in Requests : run[r].ran /\ q \in run[r].resume

\* The interrupts that clients put into the session themselves.
Sent == UNION {UNION run[r].state : r \in Requests}

\* The thread waits for the answer to an interrupt its client has not received only
\* if that client's stream broke, a hook kept the event back or replaced it, which
\* is recorded all the same, or a client put it there: no other failure leaves
\* such an id.
PendingWasDelivered ==
  \A q \in pending \ Sent :
    seen[q] = "interrupt" \/ run[q].broken \/ ~conn[q] \/ run[q].kept

\* However requests overlap and whatever fails, an agent only gets answers to
\* interrupts that another run raised and has settled, or that came in with the
\* `state` of a client: the launcher makes none up.
AnswersWereRaised ==
  \A r \in Requests : run[r].ran =>
    \A q \in run[r].resume \ Sent :
      run[q].raised /\ run[q].pc \in {"after", "done", "lost"}

\* A client sees at most one terminal event of the launcher, and no other lifecycle
\* event replaces it.  Needs HooksKeepMeaning.
TerminalIsLast ==
  [][\A r \in Requests :
       seen[r] \in Terminal => seen'[r] = seen[r]]_vars

\* After runs once per hook whose Before succeeded, in reverse order, and all
\* hooks hear the same error.
AfterMirrorsBefore ==
  \A r \in Requests :
    At(r, "done") =>
      after[r] = [i \in 1..run[r].ok |-> [hook |-> run[r].ok + 1 - i, err |-> run[r].herr]]

\* Every request ends: no handler waits for another one or for its client.
EveryRequestEnds ==
  \A r \in Requests : ~Quiet(r) ~> Quiet(r)

\* A delivered interrupt is eventually enforced by the server, or the After hooks
\* hear that it is not, or the process died: it is never dropped in silence,
\* whatever other requests do.
InterruptBecomesPending ==
  \A r \in Requests :
    seen[r] = "interrupt" /\ Holds(r) ~> r \in pending \/ run[r].herr \/ At(r, "lost")
=============================================================================
