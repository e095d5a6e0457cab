--------------------------- MODULE RunSSE_proof ---------------------------
(***************************************************************************)
(* Theorems about RunSSE, for every set of requests, every number of        *)
(* interceptors and every bound on faults.                                  *)
(***************************************************************************)
EXTENDS RunSSE, TLAPS

\* Updating one handler's record keeps the handlers well typed.
LEMMA BecomeType ==
  ASSUME NEW r \in Requests, NEW h \in Handler, run \in [Requests -> Handler], Become(r, h)
  PROVE  run' \in [Requests -> Handler]
BY DEF Become

\* So does moving its program counter.
LEMMA GotoType ==
  ASSUME NEW r \in Requests, NEW p \in Locations, run \in [Requests -> Handler], Goto(r, p)
  PROVE  run' \in [Requests -> Handler]
<1>1. [run[r] EXCEPT !.pc = p] \in Handler
  BY DEF Handler
<1>2. QED
  BY <1>1, BecomeType DEF Goto

\* What handler h, which emits event e, becomes when the hooks make `out` of it.
Emitted(h, e, out, b) == [h EXCEPT !.kept = out # e, !.broken = b]

\* One emit, as one formula: the handler is left in state h but for what the hooks
\* did and whether the stream is broken by now.
LEMMA EmitShape ==
  ASSUME NEW r \in Requests, NEW e \in Events, NEW h \in Handler, TypeOK, Emit(r, e, h)
  PROVE  \E out \in OnEmit[e], b \in {h.broken, TRUE} :
           /\ out \in Lifecycle
           /\ run' = [run EXCEPT ![r] = Emitted(h, e, out, b)]
           /\ \/ seen' = IF out = "nothing" THEN seen ELSE [seen EXCEPT ![r] = out]
              \/ seen' = seen /\ (b \/ run[r].broken \/ ~conn[r])
           /\ faults' \in Nat
<1>1. PICK out \in OnEmit[e] :
        \/ /\ Become(r, [h EXCEPT !.kept = out # e])
           /\ seen' = IF out = "nothing" THEN seen ELSE [seen EXCEPT ![r] = out]
        \/ /\ Become(r, [h EXCEPT !.kept = out # e])
           /\ seen' = seen
           /\ run[r].broken \/ ~conn[r]
        \/ /\ Become(r, [[h EXCEPT !.kept = out # e] EXCEPT !.broken = TRUE])
           /\ seen' = seen
  BY DEF Emit
<1>2. out \in Lifecycle
  BY <1>1, OnEmitAssumption
<1>3. faults' \in Nat
  BY DEF Emit, TypeOK, NoFault, Fault
<1> DEFINE A == [h EXCEPT !.kept = out # e]
           B == [A EXCEPT !.broken = TRUE]
<1>4. A = Emitted(h, e, out, h.broken) /\ B = Emitted(h, e, out, TRUE)
  BY DEF Handler, Emitted
<1>5. \/ /\ run' = [run EXCEPT ![r] = A]
         /\ seen' = IF out = "nothing" THEN seen ELSE [seen EXCEPT ![r] = out]
      \/ run' = [run EXCEPT ![r] = A] /\ seen' = seen /\ (run[r].broken \/ ~conn[r])
      \/ run' = [run EXCEPT ![r] = B] /\ seen' = seen
  BY <1>1 DEF Become
<1>6. \E b \in {h.broken, TRUE} :
        /\ run' = [run EXCEPT ![r] = Emitted(h, e, out, b)]
        /\ \/ seen' = IF out = "nothing" THEN seen ELSE [seen EXCEPT ![r] = out]
           \/ seen' = seen /\ (b \/ run[r].broken \/ ~conn[r])
  <2> HIDE DEF A, B
  <2>1. QED
    BY <1>4, <1>5
<1>7. QED
  BY <1>2, <1>3, <1>6

\* It keeps the variables well typed.
LEMMA EmitType ==
  ASSUME NEW r \in Requests, NEW e \in Events, NEW h \in Handler, TypeOK, Emit(r, e, h)
  PROVE  /\ run' \in [Requests -> Handler]
         /\ seen' \in [Requests -> Lifecycle]
         /\ faults' \in Nat
<1>1. PICK out \in OnEmit[e], b \in {h.broken, TRUE} :
        /\ out \in Lifecycle
        /\ run' = [run EXCEPT ![r] = Emitted(h, e, out, b)]
        /\ \/ seen' = IF out = "nothing" THEN seen ELSE [seen EXCEPT ![r] = out]
           \/ seen' = seen /\ (b \/ run[r].broken \/ ~conn[r])
        /\ faults' \in Nat
  BY EmitShape
<1>2. Emitted(h, e, out, b) \in Handler
  BY <1>1 DEF Handler, Emitted
<1>3. QED
  BY <1>1, <1>2 DEF TypeOK

\* So does emitError.
LEMMA EmitErrorType ==
  ASSUME NEW r \in Requests, NEW p \in Locations, TypeOK, EmitError(r, p)
  PROVE  /\ run' \in [Requests -> Handler]
         /\ seen' \in [Requests -> Lifecycle]
         /\ faults' \in Nat
<1> DEFINE h == [run[r] EXCEPT !.pc = p, !.herr = TRUE, !.final = TRUE]
<1>1. h \in Handler
  <2>1. run[r] \in Handler
    BY DEF TypeOK
  <2>2. QED
    BY <2>1 DEF Handler
<1>2. CASE run[r].final
  BY <1>1, <1>2, BecomeType DEF EmitError, Failed, Finalized, TypeOK, NoFault
<1>3. CASE ~run[r].final
  <2>1. Emit(r, "error", h)
    BY <1>3 DEF EmitError, Failed, Finalized
  <2>2. QED
    BY <1>1, <2>1, EmitType DEF Events, Terminal
<1>4. QED
  BY <1>2, <1>3

-----------------------------------------------------------------------------
(* Types.                                                                   *)

\* Under the launcher's key there are ids, whoever wrote it.
LEMMA WithStateType ==
  ASSUME NEW r \in Requests, TypeOK
  PROVE  WithState(r) \in SUBSET Requests
<1>1. run[r].state \subseteq SUBSET Requests
  BY ClientStateAssumption DEF TypeOK, Handler
<1>2. QED
  BY <1>1 DEF WithState, TypeOK

\* Every step of a handler keeps the variables well typed.
LEMMA StepType ==
  ASSUME NEW r \in Requests, TypeOK, Step(r)
  PROVE  TypeOK'
<1> USE DEF TypeOK
<1>0. run[r] \in Handler
  OBVIOUS
<1>1. CASE Before(r)
  <2>1. [run[r] EXCEPT !.ok = @ + 1] \in Handler
    <3>1. run[r].ok + 1 \in 0..Hooks
      BY <1>0, <1>1, HooksAssumption DEF Before, HooksLeft, Handler
    <3>2. QED
      BY <1>0, <3>1 DEF Handler
  <2>2. run' \in [Requests -> Handler]
    BY <1>1, <2>1, BecomeType, GotoType DEF Before, Locations
  <2>3. QED
    BY <1>1, <2>2 DEF Before, store
<1>2. CASE Identify(r)
  BY <1>2, GotoType DEF Identify, Locations, store
<1>3. CASE FlushHeaders(r)
  <2>1. [run[r] EXCEPT !.pc = "after", !.herr = TRUE] \in Handler
    BY <1>0 DEF Handler, Locations
  <2>2. run' \in [Requests -> Handler]
    BY <1>3, <2>1, BecomeType, GotoType DEF FlushHeaders, Locations
  <2>3. faults' \in Nat
    BY <1>3 DEF FlushHeaders, NoFault, Fault
  <2>4. QED
    BY <1>3, <2>2, <2>3 DEF FlushHeaders, store
<1>4. CASE EmitRunStarted(r)
  <2>1. [run[r] EXCEPT !.pc = "load"] \in Handler
    BY <1>0 DEF Handler, Locations
  <2>2. QED
    BY <1>4, <2>1, EmitType DEF EmitRunStarted, Events, store
<1>5. CASE LeaveUnstarted(r)
  <2>1. [run[r] EXCEPT !.pc = "after", !.herr = TRUE] \in Handler
    BY <1>0 DEF Handler, Locations
  <2>2. QED
    BY <1>5, <2>1, BecomeType DEF LeaveUnstarted, store
<1>6. CASE LoadPending(r)
  <2>1. /\ [run[r] EXCEPT !.pc = "validate", !.loaded = pending] \in Handler
        /\ [run[r] EXCEPT !.pc = "validate", !.loaded = {}] \in Handler
    BY <1>0 DEF Handler, Locations
  <2>2. run' \in [Requests -> Handler]
    BY <1>6, <2>1, BecomeType DEF LoadPending
  <2>3. faults' \in Nat
    BY <1>6 DEF LoadPending, CallWorks, CallFails, NoFault, Fault
  <2>4. QED
    BY <1>6, <2>2, <2>3 DEF LoadPending, store
<1>7. CASE LoadUndecodable(r)
  BY <1>7, EmitErrorType DEF LoadUndecodable, Locations, store
<1>8. CASE Validate(r)
  BY <1>8, GotoType, EmitErrorType DEF Validate, NoFault, Locations, store
<1>9. CASE EnsureSession(r)
  <2>1. run' \in [Requests -> Handler]
    BY <1>9, GotoType DEF EnsureSession, Locations
  <2>2. faults' \in Nat
    BY <1>9 DEF EnsureSession, CallWorks, CallFails, NoFault, Fault
  <2>3. QED
    BY <1>9, <2>1, <2>2 DEF EnsureSession, store
<1>10. CASE CreateSession(r)
  BY <1>10, GotoType, WithStateType DEF CreateSession, CallWorks, NoFault, Locations
<1>11. CASE CreateRefused(r)
  BY <1>11, EmitErrorType DEF CreateRefused, Locations, store
<1>12. CASE Prepare(r)
  BY <1>12, GotoType, EmitErrorType DEF Prepare, NoFault, Locations, store
<1>23. CASE StartAgent(r)
  <2>1. [run[r] EXCEPT !.pc = "agent", !.ran = TRUE] \in Handler
    BY <1>0 DEF Handler, Locations
  <2>2. pending' \in SUBSET Requests
    BY <1>23, WithStateType DEF StartAgent
  <2>3. QED
    BY <1>23, <2>1, <2>2, BecomeType, EmitErrorType
       DEF StartAgent, CallWorks, NoFault, Locations
<1>13. CASE AgentUnheard(r)
  <2>1. [run[r] EXCEPT !.pc = "finish", !.broken = TRUE, !.herr = TRUE, !.final = TRUE]
          \in Handler
    BY <1>0 DEF Handler, Locations
  <2>2. run' \in [Requests -> Handler]
    BY <1>13, <2>1, BecomeType DEF AgentUnheard
  <2>3. faults' \in Nat
    BY <1>13 DEF AgentUnheard, NoFault, Fault
  <2>4. QED
    BY <1>13, <2>2, <2>3 DEF AgentUnheard, store
<1>14. CASE AgentError(r)
  BY <1>14, EmitErrorType DEF AgentError, Locations, store
<1>15. CASE AgentInterrupt(r)
  <2>1. [run[r] EXCEPT !.pc = "finish", !.raised = TRUE, !.final = TRUE] \in Handler
    BY <1>0 DEF Handler, Locations
  <2>2. QED
    BY <1>15, <2>1, EmitType DEF AgentInterrupt, Events, Terminal, store
<1>16. CASE AgentDone(r)
  BY <1>16, GotoType DEF AgentDone, Locations, store
<1>17. CASE Finish(r)
  <2>1. [run[r] EXCEPT !.pc = "settle", !.final = TRUE] \in Handler
    BY <1>0 DEF Handler, Locations
  <2>2. CASE run[r].final
    BY <1>17, <2>2, GotoType DEF Finish, Finalized, NoFault, Locations, store
  <2>3. CASE ~run[r].final
    BY <1>17, <2>1, <2>3, EmitType DEF Finish, Finalized, Events, Terminal, store
  <2>4. QED
    BY <2>2, <2>3
<1>18. CASE Settle(r)
  <2>1. [run[r] EXCEPT !.pc = "after", !.herr = TRUE] \in Handler
    BY <1>0 DEF Handler, Locations
  <2>2. run' \in [Requests -> Handler]
    BY <1>18, <2>1, BecomeType, GotoType DEF Settle, Locations
  <2>3. faults' \in Nat
    BY <1>18 DEF Settle, CallWorks, CallFails, NoFault, Fault
  <2>4. QED
    BY <1>18, <2>2, <2>3 DEF Settle, store
<1>19. CASE AppendPending(r)
  <2>1. [run[r] EXCEPT !.pc = "after", !.herr = TRUE] \in Handler
    BY <1>0 DEF Handler, Locations
  <2>2. run' \in [Requests -> Handler]
    BY <1>19, <2>1, BecomeType, GotoType DEF AppendPending, Locations
  <2>3. faults' \in Nat
    BY <1>19 DEF AppendPending, CallWorks, CallFails, NoFault, Fault
  <2>4. pending' \in SUBSET Requests
    BY <1>19 DEF AppendPending, Leaves
  <2>5. QED
    BY <1>19, <2>2, <2>3, <2>4 DEF AppendPending
<1>20. CASE CallAfter(r)
  <2>1. after[r] \in Seq([hook : Nat, err : BOOLEAN]) /\ Len(after[r]) \in Nat
    OBVIOUS
  <2>2. run[r].ok - Len(after[r]) \in Nat /\ run[r].herr \in BOOLEAN
    BY <1>0, <1>20, <2>1, HooksAssumption DEF CallAfter, Handler
  <2>3. Append(after[r], [hook |-> run[r].ok - Len(after[r]), err |-> run[r].herr])
          \in Seq([hook : Nat, err : BOOLEAN])
    BY <2>1, <2>2
  <2>4. QED
    BY <1>20, <2>3 DEF CallAfter, NextHook, store
<1>21. CASE Return(r)
  BY <1>21, GotoType DEF Return, Locations, store
<1>22. QED
  BY <1>1, <1>2, <1>3, <1>4, <1>5, <1>6, <1>7, <1>8, <1>9, <1>10, <1>11, <1>12, <1>13,
     <1>14, <1>15, <1>16, <1>17, <1>18, <1>19, <1>20, <1>21, <1>23 DEF Step

\* The type invariant, checked by the run serial_faulty.
THEOREM TypeCorrect == Spec => []TypeOK
<1>1. Init => TypeOK
  <2> SUFFICES ASSUME Init
               PROVE  TypeOK
    OBVIOUS
  <2>1. Fresh \in Handler
    BY HooksAssumption DEF Fresh, Handler, Locations
  <2>2. run \in [Requests -> Handler]
    BY <2>1 DEF Init
  <2>3. <<>> \in Seq([hook : Nat, err : BOOLEAN])
    OBVIOUS
  <2>4. after \in [Requests -> Seq([hook : Nat, err : BOOLEAN])]
    BY <2>3 DEF Init
  <2>5. QED
    BY <2>2, <2>4 DEF Init, TypeOK, Lifecycle
<1>2. TypeOK /\ [Next]_vars => TypeOK'
  <2> SUFFICES ASSUME TypeOK, [Next]_vars
               PROVE  TypeOK'
    OBVIOUS
  <2>1. ASSUME NEW r \in Requests, Receive(r)
        PROVE  TypeOK'
    <3>1. PICK ids \in SUBSET Requests, sent \in {{}} \cup {{c} : c \in ClientState} :
            Become(r, [run[r] EXCEPT !.pc = "before", !.resume = ids, !.state = sent])
      BY <2>1 DEF Receive
    <3>4. [run[r] EXCEPT !.pc = "before", !.resume = ids, !.state = sent] \in Handler
      <4>1. run[r] \in Handler /\ sent \in SUBSET ClientState
        BY <3>1 DEF TypeOK
      <4>2. QED
        BY <4>1 DEF Handler, Locations
    <3>2. run' \in [Requests -> Handler]
      BY <3>1, <3>4, BecomeType DEF TypeOK
    <3>3. QED
      BY <2>1, <3>2 DEF Receive, TypeOK, store
  <2>2. ASSUME NEW r \in Requests, ReceiveMalformed(r)
        PROVE  TypeOK'
    BY <2>2, GotoType DEF ReceiveMalformed, TypeOK, Locations, store
  <2>3. ASSUME NEW r \in Requests, Step(r)
        PROVE  TypeOK'
    BY <2>3, StepType
  <2>4. ASSUME NEW r \in Requests, Disconnect(r)
        PROVE  TypeOK'
    BY <2>4 DEF Disconnect, Fault, TypeOK, store
  <2>5. CASE Crash
    <3>1. \A r \in Requests : [run[r] EXCEPT !.pc = "lost"] \in Handler
      <4> SUFFICES ASSUME NEW r \in Requests
                   PROVE  [run[r] EXCEPT !.pc = "lost"] \in Handler
        OBVIOUS
      <4>1. run[r] \in Handler
        BY DEF TypeOK
      <4>2. QED
        BY <4>1 DEF Handler, Locations
    <3>2. run' \in [Requests -> Handler]
      BY <2>5, <3>1 DEF Crash, TypeOK
    <3>3. QED
      BY <2>5, <3>2 DEF Crash, Fault, TypeOK, store
  <2>6. CASE UNCHANGED vars
    BY <2>6 DEF vars, TypeOK
  <2>7. QED
    BY <2>1, <2>2, <2>3, <2>4, <2>5, <2>6 DEF Next, Quiescent
<1>3. QED
  BY <1>1, <1>2, PTL DEF Spec

-----------------------------------------------------------------------------
(* What a step of one handler can do to the rest, and how far it can get.   *)

\* One emit changes no handler but the one that emits.
LEMMA EmitEffect ==
  ASSUME NEW r \in Requests, NEW e \in Events, NEW h \in Handler, TypeOK, Emit(r, e, h)
  PROVE  /\ \A q \in Requests : q # r => run'[q] = run[q]
         /\ run'[r].pc = h.pc
         /\ run'[r].resume = h.resume
         /\ run'[r].state = h.state
<1>1. PICK out \in OnEmit[e], b \in {h.broken, TRUE} :
        /\ out \in Lifecycle
        /\ run' = [run EXCEPT ![r] = Emitted(h, e, out, b)]
        /\ \/ seen' = IF out = "nothing" THEN seen ELSE [seen EXCEPT ![r] = out]
           \/ seen' = seen /\ (b \/ run[r].broken \/ ~conn[r])
        /\ faults' \in Nat
  BY EmitShape
<1>2. run'[r] = Emitted(h, e, out, b)
  BY <1>1 DEF TypeOK
<1>3. QED
  BY <1>1, <1>2 DEF Emitted, TypeOK, Handler

\* Nor does emitError.
LEMMA EmitErrorEffect ==
  ASSUME NEW r \in Requests, NEW p \in Locations, TypeOK, EmitError(r, p)
  PROVE  /\ \A q \in Requests : q # r => run'[q] = run[q]
         /\ run'[r].pc = p
         /\ run'[r].resume = run[r].resume
         /\ run'[r].state = run[r].state
<1> DEFINE h == [run[r] EXCEPT !.pc = p, !.herr = TRUE, !.final = TRUE]
<1>1. h \in Handler /\ h.pc = p /\ h.resume = run[r].resume /\ h.state = run[r].state
  <2>1. run[r] \in Handler
    BY DEF TypeOK
  <2>2. QED
    BY <2>1 DEF Handler
<1>2. CASE run[r].final
  <2>1. run' = [run EXCEPT ![r] = h]
    BY <1>2 DEF EmitError, Failed, Finalized, Become
  <2> HIDE DEF h
  <2>2. QED
    BY <1>1, <2>1 DEF TypeOK
<1>3. CASE ~run[r].final
  <2>1. Emit(r, "error", h)
    BY <1>3 DEF EmitError, Failed, Finalized
  <2> HIDE DEF h
  <2>2. QED
    BY <1>1, <2>1, EmitEffect DEF Events, Terminal
<1>4. QED
  BY <1>2, <1>3

\* The one summary of Step that the theorems below use.
StepSummary(r) ==
  /\ ~Quiet(r)
  /\ \A q \in Requests : q # r => run'[q] = run[q]
  /\ conn' = conn
  /\ run'[r].resume = run[r].resume
  /\ run'[r].pc = "validate" => run'[r].loaded = pending \/ Cancelled(r)
  /\ run'[r].pc = "ensure" => At(r, "validate") /\ run[r].resume = run[r].loaded
  /\ run'[r].pc = "create" => At(r, "ensure")
  /\ run'[r].pc = "prepare" => (At(r, "ensure") \/ At(r, "create")) /\ ~Cancelled(r)
  /\ run'[r].pc \in {"message", "agent", "finish", "settle", "append"} => Holds(r)
  /\ \/ pending' = pending
     \/ At(r, "append") /\ run'[r].pc = "after" /\ pending' \in {{}, {r}}

\* Every step of a handler is as the summary says, if Get does not fail and no client
\* writes the launcher's key.
LEMMA StepIsSummarised ==
  ASSUME NEW r \in Requests, TypeOK, "get" \notin Faults, KeyIsPrivate, Step(r)
  PROVE  StepSummary(r)
<1> USE DEF StepSummary, Quiet, At, Holds, Cancelled
<1>0. run[r] \in Handler /\ run \in [Requests -> Handler]
  BY DEF TypeOK
<1>24. WithState(r) = pending
  <2>1. run[r].state = {}
    BY <1>0 DEF KeyIsPrivate, Handler
  <2>2. QED
    BY <2>1 DEF WithState
<1>1. CASE Before(r)
  BY <1>0, <1>1 DEF Before, Become, Goto, store, Handler
<1>2. CASE Identify(r)
  BY <1>0, <1>2 DEF Identify, Become, Goto, store, Handler
<1>3. CASE FlushHeaders(r)
  <2>1. CASE Goto(r, "start")
    BY <1>0, <1>3, <2>1 DEF FlushHeaders, Become, Goto, store, Handler
  <2>2. CASE Become(r, [run[r] EXCEPT !.pc = "after", !.herr = TRUE])
    BY <1>0, <1>3, <2>2 DEF FlushHeaders, Become, store, Handler
  <2>3. QED
    BY <1>3, <2>1, <2>2 DEF FlushHeaders
<1>4. CASE EmitRunStarted(r)
  <2> DEFINE h == [run[r] EXCEPT !.pc = "load"]
  <2>1. h \in Handler /\ h.pc = "load" /\ h.resume = run[r].resume
    BY <1>0 DEF Handler, Locations
  <2>2. Emit(r, "started", h)
    BY <1>4 DEF EmitRunStarted
  <2> HIDE DEF h
  <2>3. QED
    BY <1>4, <2>1, <2>2, EmitEffect DEF EmitRunStarted, Events, store
<1>5. CASE LeaveUnstarted(r)
  BY <1>0, <1>5 DEF LeaveUnstarted, Become, Goto, store, Handler
<1>6. CASE LoadPending(r)
  <2>1. CASE Become(r, [run[r] EXCEPT !.pc = "validate", !.loaded = pending])
    BY <1>0, <1>6, <2>1 DEF LoadPending, Become, store, Handler
  <2>2. CASE CallFails(r, "get") /\ Become(r, [run[r] EXCEPT !.pc = "validate", !.loaded = {}])
    BY <1>0, <1>6, <2>2 DEF LoadPending, CallFails, Fault, Become, store, Handler
  <2>3. QED
    BY <1>6, <2>1, <2>2 DEF LoadPending
<1>7. CASE LoadUndecodable(r)
  BY <1>7, EmitErrorEffect DEF LoadUndecodable, Locations, store
<1>8. CASE Validate(r)
  <2>1. CASE Covers(run[r].resume, run[r].loaded) /\ Goto(r, "ensure")
    BY <1>0, <1>8, <2>1 DEF Validate, Covers, Become, Goto, store, Handler
  <2>2. CASE EmitError(r, "after")
    BY <1>8, <2>2, EmitErrorEffect DEF Validate, Locations, store
  <2>3. QED
    BY <1>8, <2>1, <2>2 DEF Validate
<1>9. CASE EnsureSession(r)
  BY <1>0, <1>9 DEF EnsureSession, CallWorks, CallFails, Fault, Become, Goto, store, Handler
<1>10. CASE CreateSession(r)
  BY <1>0, <1>10, <1>24 DEF CreateSession, CallWorks, Become, Goto, Handler
<1>11. CASE CreateRefused(r)
  BY <1>11, EmitErrorEffect DEF CreateRefused, Locations, store
<1>12. CASE Prepare(r)
  <2>1. CASE Goto(r, "message")
    BY <1>0, <1>12, <2>1 DEF Prepare, Become, Goto, store, Handler
  <2>2. CASE EmitError(r, "after")
    BY <1>12, <2>2, EmitErrorEffect DEF Prepare, Locations, store
  <2>3. QED
    BY <1>12, <2>1, <2>2 DEF Prepare
<1>23. CASE StartAgent(r)
  <2>1. CASE /\ pending' = WithState(r)
             /\ Become(r, [run[r] EXCEPT !.pc = "agent", !.ran = TRUE])
    BY <1>0, <1>23, <1>24, <2>1 DEF StartAgent, Become, Handler
  <2>2. CASE EmitError(r, "finish") /\ pending' = pending
    BY <1>23, <2>2, EmitErrorEffect DEF StartAgent, Locations
  <2>3. QED
    BY <1>23, <2>1, <2>2 DEF StartAgent
<1>13. CASE AgentUnheard(r)
  BY <1>0, <1>13 DEF AgentUnheard, Become, store, Handler
<1>14. CASE AgentError(r)
  BY <1>14, EmitErrorEffect DEF AgentError, Locations, store
<1>15. CASE AgentInterrupt(r)
  <2> DEFINE h == [run[r] EXCEPT !.pc = "finish", !.raised = TRUE, !.final = TRUE]
  <2>1. h \in Handler /\ h.pc = "finish" /\ h.resume = run[r].resume
    BY <1>0 DEF Handler, Locations
  <2>2. Emit(r, "interrupt", h)
    BY <1>15 DEF AgentInterrupt
  <2> HIDE DEF h
  <2>3. QED
    BY <1>15, <2>1, <2>2, EmitEffect DEF AgentInterrupt, Events, Terminal, store
<1>16. CASE AgentDone(r)
  BY <1>0, <1>16 DEF AgentDone, Become, Goto, store, Handler
<1>17. CASE Finish(r)
  <2> DEFINE h == [run[r] EXCEPT !.pc = "settle", !.final = TRUE]
  <2>1. h \in Handler /\ h.pc = "settle" /\ h.resume = run[r].resume
    BY <1>0 DEF Handler, Locations
  <2>2. CASE run[r].final
    BY <1>0, <1>17, <2>2 DEF Finish, Finalized, Become, Goto, store, Handler
  <2>3. CASE ~run[r].final
    <3>1. Emit(r, "success", h)
      BY <1>17, <2>3 DEF Finish, Finalized
    <3> HIDE DEF h
    <3>2. QED
      BY <1>17, <2>1, <3>1, EmitEffect DEF Finish, Events, Terminal, store
  <2>4. QED
    BY <2>2, <2>3
<1>18. CASE Settle(r)
  <2>1. CASE Goto(r, "after") \/ Goto(r, "append")
    BY <1>0, <1>18, <2>1 DEF Settle, Become, Goto, store, Handler
  <2>2. CASE Become(r, [run[r] EXCEPT !.pc = "after", !.herr = TRUE])
    BY <1>0, <1>18, <2>2 DEF Settle, Become, store, Handler
  <2>3. QED
    BY <1>18, <2>1, <2>2 DEF Settle
<1>19. CASE AppendPending(r)
  <2>1. CASE Goto(r, "after")
    BY <1>0, <1>19, <2>1 DEF AppendPending, Leaves, Become, Goto, store, Handler
  <2>2. CASE Become(r, [run[r] EXCEPT !.pc = "after", !.herr = TRUE])
    BY <1>0, <1>19, <2>2 DEF AppendPending, Leaves, Become, store, Handler
  <2>3. QED
    BY <1>19, <2>1, <2>2 DEF AppendPending
<1>20. CASE CallAfter(r)
  BY <1>0, <1>20 DEF CallAfter, store
<1>21. CASE Return(r)
  BY <1>0, <1>21 DEF Return, Become, Goto, store, Handler
<1>22. QED
  BY <1>1, <1>2, <1>3, <1>4, <1>5, <1>6, <1>7, <1>8, <1>9, <1>10, <1>11, <1>12, <1>13,
     <1>14, <1>15, <1>16, <1>17, <1>18, <1>19, <1>20, <1>21, <1>23 DEF Step

-----------------------------------------------------------------------------
(* Runs that take turns.                                                    *)

\* The strengthened invariant is inductive: no step of a handler, no arrival,
\* disconnect or crash breaks it.
LEMMA SerialInvStep ==
  ASSUME TypeOK, Serialised, SerialInv, [Next]_vars
  PROVE  SerialInv'
<1> USE DEF SerialInv, OneAtATime, CopyIsCurrent, AnswersMatchPending, Quiet, At, Holds,
            Cancelled, TypeOK, Handler
<1>1. ASSUME NEW r \in Requests, Receive(r)
      PROVE  SerialInv'
  <2>1. \A q \in Requests : Quiet(q)
    BY <1>1 DEF Receive, MayReceive, Serialised
  <2>2. \A q \in Requests : q # r => run'[q] = run[q]
    BY <1>1 DEF Receive, Become
  <2>3. run'[r].pc = "before"
    BY <1>1 DEF Receive, Become
  <2>4. QED
    BY <1>1, <2>1, <2>2, <2>3 DEF Receive, store
<1>2. ASSUME NEW r \in Requests, ReceiveMalformed(r)
      PROVE  SerialInv'
  <2>1. \A q \in Requests : q # r => run'[q] = run[q]
    BY <1>2 DEF ReceiveMalformed, Goto, Become
  <2>2. run'[r].pc = "done"
    BY <1>2 DEF ReceiveMalformed, Goto, Become
  <2>3. QED
    BY <1>2, <2>1, <2>2 DEF ReceiveMalformed, store
<1>3. ASSUME NEW r \in Requests, Step(r)
      PROVE  SerialInv'
  <2>1. StepSummary(r)
    BY <1>3, StepIsSummarised DEF Serialised
  <2>2. \A q \in Requests : q # r => Quiet(q) /\ run'[q] = run[q]
    BY <2>1 DEF StepSummary
  <2>3. OneAtATime'
    BY <2>2
  <2>4. CopyIsCurrent'
    BY <2>1, <2>2 DEF StepSummary
  <2>5. AnswersMatchPending'
    BY <2>1, <2>2 DEF StepSummary
  <2>6. QED
    BY <2>3, <2>4, <2>5
<1>4. ASSUME NEW r \in Requests, Disconnect(r)
      PROVE  SerialInv'
  BY <1>4 DEF Disconnect, store
<1>5. CASE Crash
  <2>1. \A q \in Requests : run'[q].pc \in {"idle", "done", "lost"}
    BY <1>5 DEF Crash
  <2>2. QED
    BY <2>1
<1>6. CASE UNCHANGED vars
  BY <1>6 DEF vars
<1>7. QED
  BY <1>1, <1>2, <1>3, <1>4, <1>5, <1>6 DEF Next, Quiescent

\* At most one handler is busy, its copy of the pending interrupts is current,
\* and it answers what is pending.
THEOREM SerialInvariance == Serialised => (Spec => []SerialInv)
<1> SUFFICES ASSUME Serialised
             PROVE  Spec => []SerialInv
  OBVIOUS
<1>1. Init => SerialInv
  BY DEF Init, Fresh, SerialInv, OneAtATime, CopyIsCurrent, AnswersMatchPending, Quiet, At, Holds
<1>2. TypeOK /\ SerialInv /\ [Next]_vars => SerialInv'
  BY SerialInvStep
<1>3. QED
  BY <1>1, <1>2, TypeCorrect, PTL DEF Spec

\* When the runs of a thread take turns, Get does not fail and no client writes the
\* launcher's key, the copy of the pending interrupts a run was validated against
\* never goes stale.
THEOREM NoStaleAnswers == Serialised => (Spec => []AnswersMatchPending)
<1>1. SerialInv => AnswersMatchPending
  BY DEF SerialInv
<1>2. QED
  BY <1>1, SerialInvariance, PTL

-----------------------------------------------------------------------------
(* The refinement: which handlers hold the thread, before and after a step. *)

Holders == {r \in Requests : Holds(r)}
Given == UNION {run[r].resume : r \in {q \in Requests : Holds(q)}}

\* The one handler that holds the thread answers all that is pending.
LEMMA GivenIsPending ==
  ASSUME OneAtATime, AnswersMatchPending, NEW r \in Requests, Holds(r)
  PROVE  Holders = {r} /\ Given = pending
<1>1. Holders = {r}
  BY DEF Holders, OneAtATime, Holds, Quiet
<1>2. Given = run[r].resume
  BY <1>1 DEF Given, Holders
<1>3. QED
  BY <1>1, <1>2 DEF AnswersMatchPending

\* Where nobody holds the thread nobody answers anything.
LEMMA NobodyHolds ==
  ASSUME Holders = {}
  PROVE  Given = {}
BY DEF Holders, Given

\* Under the refinement mapping a step of RunSSE is a step of the contract.
LEMMA RefinesStep ==
  ASSUME TypeOK, Serialised, SerialInv, SerialInv', [Next]_vars
  PROVE  [Contract!Next]_(Contract!cvars)
<1> USE DEF SerialInv
<1> DEFINE same == Holders' = Holders /\ Given' = Given /\ pending' = pending
<1>1. same => UNCHANGED Contract!cvars
  BY DEF Contract!cvars, Holders, Given
<1>2. ASSUME NEW r \in Requests, Receive(r) \/ ReceiveMalformed(r)
      PROVE  same
  <2>1. /\ \A q \in Requests : q # r => run'[q] = run[q]
        /\ ~Holds(r) /\ ~Holds(r)'
        /\ pending' = pending
    <3>1. CASE Receive(r)
      <4>1. PICK ids \in SUBSET Requests, sent \in {{}} \cup {{c} : c \in ClientState} :
              run' = [run EXCEPT ![r] =
                        [run[r] EXCEPT !.pc = "before", !.resume = ids, !.state = sent]]
        BY <3>1 DEF Receive, Become
      <4>2. run'[r].pc = "before" /\ \A q \in Requests : q # r => run'[q] = run[q]
        BY <4>1 DEF TypeOK, Handler
      <4>3. QED
        BY <3>1, <4>2 DEF Receive, Holds, At, store
    <3>2. CASE ReceiveMalformed(r)
      BY <3>2 DEF ReceiveMalformed, Become, Goto, Holds, At, store, TypeOK, Handler
    <3>3. QED
      BY <1>2, <3>1, <3>2
  <2>2. QED
    BY <2>1 DEF Holders, Given, Holds
<1>3. ASSUME NEW r \in Requests, Step(r)
      PROVE  [Contract!Next]_(Contract!cvars)
  <2>1. StepSummary(r)
    BY <1>3, StepIsSummarised DEF Serialised
  <2>2. \A q \in Requests : q # r => ~Holds(q) /\ ~Holds(q)'
    BY <2>1 DEF StepSummary, OneAtATime, Quiet, Holds
  <2>3. CASE ~Holds(r) /\ ~Holds(r)'
    <3>1. Holders = {} /\ Holders' = {}
      BY <2>2, <2>3 DEF Holders
    <3>2. Given = {} /\ Given' = {}
      BY <3>1 DEF Holders, Given
    <3>3. pending' = pending
      BY <2>1, <2>3 DEF StepSummary, Holds, At
    <3>4. QED
      BY <1>1, <3>1, <3>2, <3>3
  <2>4. CASE ~Holds(r) /\ Holds(r)'
    <3>1. Holders = {} /\ Holders' = {r}
      BY <2>2, <2>4 DEF Holders
    <3>2. Given' = run'[r].resume
      BY <3>1 DEF Holders, Given
    <3>3. run'[r].resume = pending' /\ pending' = pending
      BY <2>1, <2>4 DEF StepSummary, AnswersMatchPending, Holds, At
    <3>4. Contract!Begin(r)
      BY <3>1, <3>2, <3>3 DEF Contract!Begin, Holders, Given
    <3>5. QED
      BY <3>4 DEF Contract!Next
  <2>5. CASE Holds(r) /\ Holds(r)'
    <3>1. Holders = {r} /\ Holders' = {r}
      BY <2>2, <2>5 DEF Holders
    <3>2. Given = run[r].resume /\ Given' = run'[r].resume
      BY <3>1 DEF Holders, Given
    <3>3. pending' = pending /\ run'[r].resume = run[r].resume
      BY <2>1, <2>5 DEF StepSummary, Holds, At
    <3>4. QED
      BY <1>1, <3>1, <3>2, <3>3
  <2>6. CASE Holds(r) /\ ~Holds(r)'
    <3>1. Holders = {r} /\ Holders' = {}
      BY <2>2, <2>6 DEF Holders
    <3>2. Given' = {}
      BY <3>1 DEF Holders, Given
    <3>3. pending' \in {pending, {}, {r}}
      BY <2>1 DEF StepSummary
    <3>4. Contract!Succeed \/ Contract!Pause \/ Contract!Fail
      BY <3>1, <3>2, <3>3
         DEF Contract!Succeed, Contract!Pause, Contract!Fail, Contract!End, Holders, Given
    <3>5. QED
      BY <3>4 DEF Contract!Next
  <2>7. QED
    BY <2>3, <2>4, <2>5, <2>6
<1>4. ASSUME NEW r \in Requests, Disconnect(r)
      PROVE  same
  BY <1>4 DEF Disconnect, Holders, Given, Holds, store
<1>5. CASE Crash
  <2>1. Holders' = {}
    <3>1. \A q \in Requests : run'[q].pc \in {"idle", "done", "lost"}
      BY <1>5 DEF Crash, Quiet, TypeOK, Handler
    <3>2. QED
      BY <3>1 DEF Holders, Holds
  <2>2. Given' = {} /\ pending' = pending
    BY <1>5, <2>1 DEF Holders, Given, Crash, store
  <2>3. CASE Holders = {}
    BY <1>1, <2>1, <2>2, <2>3, NobodyHolds
  <2>4. CASE Holders # {}
    <3>1. Contract!Fail
      BY <2>1, <2>2, <2>4 DEF Contract!Fail, Contract!End, Holders, Given
    <3>2. QED
      BY <3>1 DEF Contract!Next
  <2>5. QED
    BY <2>3, <2>4
<1>6. CASE UNCHANGED vars
  BY <1>1, <1>6 DEF vars, Holders, Given, Holds
<1>7. QED
  BY <1>1, <1>2, <1>3, <1>4, <1>5, <1>6 DEF Next, Quiescent

\* When the runs of a thread take turns, Get does not fail and no client writes
\* the launcher's key, the thread keeps the promise of InterruptContract through every crash, disconnect and
\* failure of Create, AppendEvent and the wire.
THEOREM KeepsContract == Serialised => (Spec => ContractSpec)
<1> SUFFICES ASSUME Serialised
             PROVE  Spec => ContractSpec
  OBVIOUS
<1>1. Init => Contract!Init
  <2> SUFFICES ASSUME Init
               PROVE  Contract!Init
    OBVIOUS
  <2>1. Holders = {}
    BY DEF Init, Fresh, Holders, Holds
  <2>2. QED
    BY <2>1, NobodyHolds DEF Init, Contract!Init, Holders, Given
<1>2. TypeOK /\ SerialInv /\ SerialInv' /\ [Next]_vars => [Contract!Next]_(Contract!cvars)
  BY RefinesStep
<1>3. QED
  BY <1>1, <1>2, TypeCorrect, SerialInvariance, PTL DEF Spec, ContractSpec, Contract!Spec
=============================================================================
