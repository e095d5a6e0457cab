--------------------------- MODULE RunSSE_safety ---------------------------
(***************************************************************************)
(* The safety properties of RunSSE, proved for every set of requests, every *)
(* number of interceptors and every bound on faults.  RunSSE_proof has the  *)
(* types, the turns and the contract; this module has what one handler      *)
(* keeps to itself (Sane, Mirrors) and what the handlers of a thread share  *)
(* (Shared), and what becomes of an interrupt when the runs take turns.     *)
(***************************************************************************)
EXTENDS RunSSE_proof

BeforeAgent == {"idle", "before", "flush", "start", "load", "validate", "ensure", "create",
                "prepare", "message"}
WithAgent == {"agent", "finish", "settle", "append"}
Settled == {"after", "done", "lost"}

-----------------------------------------------------------------------------
(* The invariants.                                                          *)

\* What the locals of one handler h say of each other, of the last event s its
\* client received, of its connection c and of the session's existence x.
Sane(h, s, c, x) ==
  /\ h.pc \in BeforeAgent => ~h.final /\ ~h.herr /\ ~h.raised /\ ~h.ran
  /\ h.pc = "idle" => h.state = {}
  /\ h.pc = "agent" => ~h.final /\ ~h.herr /\ ~h.raised /\ h.ran
  /\ h.pc \in WithAgent => h.ran \/ h.herr
  /\ h.raised => h.ran /\ h.final
  /\ h.raised => s = "interrupt" \/ h.broken \/ ~c \/ h.kept
  /\ HooksKeepMeaning /\ s \in Terminal => h.final
  /\ HooksKeepMeaning /\ s = "interrupt" => h.raised
  /\ h.pc = "append" => h.raised \/ ~h.herr
  /\ h.pc \in {"prepare", "message", "agent"} => x

AllSane == \A r \in Requests : Sane(run[r], seen[r], conn[r], exists)

\* The After calls a made so far mirror the Before hooks of handler h.
Mirrors(h, a) ==
  /\ h.pc \notin Settled => a = <<>>
  /\ h.pc = "idle" => h.ok = 0
  /\ Len(a) <= h.ok
  /\ h.pc = "done" => Len(a) = h.ok
  /\ \A i \in 1..Len(a) : a[i] = [hook |-> h.ok + 1 - i, err |-> h.herr]

AllMirror == \A r \in Requests : Mirrors(run[r], after[r])

\* The interrupts that were raised by a run that is over.
Known == {q \in Requests : run[q].raised /\ run[q].pc \in Settled}

\* The handler trusts the ids its client answered.
Trusts(h) == h.ran \/ h.pc \in {"ensure", "create", "prepare", "message"}

\* No id that is pending, was loaded or is answered by a run was made up by the
\* launcher: a run raised it or a client sent it.
Vouched == Known \cup Sent
Shared ==
  /\ pending \subseteq Vouched
  /\ \A r \in Requests : run[r].loaded \subseteq Vouched
  /\ \A r \in Requests : Trusts(run[r]) => run[r].resume \subseteq Vouched

-----------------------------------------------------------------------------
(* One emit and one emitError, in full.                                     *)

\* One emit of a handler that has no news of the stream: the client receives what
\* the hooks made of the event, or nothing, because they dropped it or the stream is
\* broken or its client gone.
LEMMA EmitOutcome ==
  ASSUME NEW r \in Requests, NEW e \in Events, NEW h \in Handler, TypeOK,
         h.broken = run[r].broken, Emit(r, e, h)
  PROVE  \E out \in OnEmit[e], b \in BOOLEAN :
           /\ out \in Lifecycle
           /\ run' = [run EXCEPT ![r] = Emitted(h, e, out, b)]
           /\ run[r].broken => b
           /\ \/ seen' = [seen EXCEPT ![r] = out]
              \/ seen' = seen /\ (b \/ ~conn[r] \/ out # e)
<1>1. PICK out \in OnEmit[e], b \in {h.broken, TRUE} :
        /\ out \in Lifecycle
        /\ run' = [run EXCEPT ![r] = Emitted(h, e, out, b)]
        /\ \/ seen' = IF out = "nothing" THEN seen ELSE [seen EXCEPT ![r] = out]
           \/ seen' = seen /\ (b \/ run[r].broken \/ ~conn[r])
        /\ faults' \in Nat
  BY EmitShape
<1>2. b \in BOOLEAN /\ (run[r].broken => b)
  BY DEF Handler
<1>3. \/ seen' = [seen EXCEPT ![r] = out]
      \/ seen' = seen /\ (b \/ ~conn[r] \/ out # e)
  BY <1>1, <1>2 DEF Events, Terminal
<1>4. QED
  BY <1>1, <1>2, <1>3

\* What a handler becomes that fails and goes to p: `k` and `b` are what OnEmit and
\* the stream made of its RunError.
Gone(r, p, k, b) ==
  [run[r] EXCEPT !.pc = p, !.herr = TRUE, !.final = TRUE, !.kept = k, !.broken = b]

\* emitError leaves a handler that has failed and is final; its client may have
\* received an event if nothing terminal had been decided on before.
LEMMA EmitErrorOutcome ==
  ASSUME NEW r \in Requests, NEW p \in Locations, TypeOK, EmitError(r, p)
  PROVE  \E s \in OnEmit["error"], k \in BOOLEAN, b \in BOOLEAN :
           /\ s \in Lifecycle
           /\ run' = [run EXCEPT ![r] = Gone(r, p, k, b)]
           /\ run[r].broken => b
           /\ run[r].final => k = run[r].kept
           /\ seen' = seen \/ (~run[r].final /\ seen' = [seen EXCEPT ![r] = s])
<1> DEFINE h == [run[r] EXCEPT !.pc = p, !.herr = TRUE, !.final = TRUE]
<1>0. run[r] \in Handler
  BY DEF TypeOK
<1>1. h \in Handler /\ h.broken = run[r].broken
  BY <1>0 DEF Handler
<1>2. CASE run[r].final
  <2>1. run' = [run EXCEPT ![r] = h] /\ seen' = seen
    BY <1>2 DEF EmitError, Failed, Finalized, Become
  <2>2. h = Gone(r, p, run[r].kept, run[r].broken)
    BY <1>0 DEF Gone, Handler
  <2>3. run[r].kept \in BOOLEAN /\ run[r].broken \in BOOLEAN
    BY <1>0 DEF Handler
  <2>4. PICK s \in OnEmit["error"] : s \in Lifecycle
    BY OnEmitAssumption DEF Events, Terminal
  <2> HIDE DEF h
  <2>5. QED
    BY <2>1, <2>2, <2>3, <2>4
<1>3. CASE ~run[r].final
  <2>1. Emit(r, "error", h) /\ "error" \in Events
    BY <1>3 DEF EmitError, Failed, Finalized, Events, Terminal
  <2>2. PICK s \in OnEmit["error"], b \in BOOLEAN :
          /\ s \in Lifecycle
          /\ run' = [run EXCEPT ![r] = Emitted(h, "error", s, b)]
          /\ run[r].broken => b
          /\ \/ seen' = [seen EXCEPT ![r] = s]
             \/ seen' = seen /\ (b \/ ~conn[r] \/ s # "error")
    <3> HIDE DEF h
    <3>1. QED
      BY <1>1, <2>1, EmitOutcome
  <2>3. Emitted(h, "error", s, b) = Gone(r, p, s # "error", b)
    BY <1>0 DEF Emitted, Gone, Handler
  <2> DEFINE k == s # "error"
  <2>4. k \in BOOLEAN /\ run' = [run EXCEPT ![r] = Gone(r, p, k, b)]
    BY <2>2, <2>3
  <2> HIDE DEF h, k
  <2>5. QED
    BY <1>3, <2>2, <2>4
<1>4. QED
  BY <1>2, <1>3

-----------------------------------------------------------------------------
(* One handler.                                                             *)

\* The handler is past settling, and its agent ran without an error.
Clean(h) == h.pc \in {"after", "done"} /\ h.ran /\ ~h.herr

\* What a step of handler r can do, apart from keeping its locals sane.
Shape(r) ==
  /\ \A q \in Requests : q # r => run'[q] = run[q] /\ seen'[q] = seen[q]
  /\ conn' = conn
  /\ exists => exists'
  /\ HooksKeepMeaning /\ seen[r] \in Terminal => seen'[r] = seen[r]
  /\ \/ /\ run[r].pc \notin Settled
        /\ run'[r].pc \notin {"idle", "done", "lost"}
        /\ after' = after
     \/ CallAfter(r)
     \/ Return(r)
  /\ run'[r].resume = run[r].resume
  /\ run'[r].state = run[r].state
  /\ run'[r].loaded \in {run[r].loaded, pending, {}}
  /\ Trusts(run'[r]) => Trusts(run[r]) \/ run[r].resume = run[r].loaded
  /\ run[r].ran => run'[r].ran
  /\ run[r].raised => run'[r].raised
  /\ run'[r].raised => run[r].raised \/ At(r, "agent")
  /\ \/ pending' = pending
     \/ At(r, "append") /\ run'[r].pc = "after" /\ pending' = Leaves(r)
     \/ run'[r].pc \in {"prepare", "agent"} /\ pending' = WithState(r)
  /\ Clean(run'[r]) =>
       \/ Clean(run[r]) /\ pending' = pending
       \/ At(r, "append") /\ pending' = Leaves(r)

\* The relations among the locals of a handler survive its own steps, and the
\* steps have no other shape.
LEMMA StepSane ==
  ASSUME NEW r \in Requests, TypeOK, Sane(run[r], seen[r], conn[r], exists), Step(r)
  PROVE  Sane(run'[r], seen'[r], conn'[r], exists') /\ Shape(r)
<1> USE DEF Sane, Shape, At, BeforeAgent, WithAgent, Terminal, Settled, Trusts, Clean
<1>0. /\ run[r] \in Handler /\ run \in [Requests -> Handler]
      /\ seen \in [Requests -> Lifecycle]
  BY DEF TypeOK
<1>25. ASSUME NEW p \in Locations, EmitError(r, p)
       PROVE  /\ \A q \in Requests : q # r => run'[q] = run[q] /\ seen'[q] = seen[q]
              /\ run'[r].pc = p /\ run'[r].herr /\ run'[r].final
              /\ run'[r].resume = run[r].resume /\ run'[r].state = run[r].state
              /\ run'[r].loaded = run[r].loaded
              /\ run'[r].ran = run[r].ran /\ run'[r].raised = run[r].raised
              /\ run[r].broken => run'[r].broken
              /\ run[r].final => run'[r].kept = run[r].kept /\ seen' = seen
              /\ HooksKeepMeaning =>
                   seen'[r] = seen[r] \/ (~run[r].final /\ seen'[r] # "interrupt")
  <2>1. PICK s \in OnEmit["error"], k \in BOOLEAN, b \in BOOLEAN :
          /\ s \in Lifecycle
          /\ run' = [run EXCEPT ![r] = Gone(r, p, k, b)]
          /\ run[r].broken => b
          /\ run[r].final => k = run[r].kept
          /\ seen' = seen \/ (~run[r].final /\ seen' = [seen EXCEPT ![r] = s])
    BY <1>25, EmitErrorOutcome
  <2>2. HooksKeepMeaning => s # "interrupt"
    BY <2>1 DEF HooksKeepMeaning, Events
  <2>3. run'[r] = Gone(r, p, k, b) /\ \A q \in Requests : q # r => run'[q] = run[q]
    BY <1>0, <2>1
  <2>4. /\ run'[r].pc = p /\ run'[r].herr /\ run'[r].final
        /\ run'[r].resume = run[r].resume /\ run'[r].state = run[r].state
        /\ run'[r].loaded = run[r].loaded
        /\ run'[r].ran = run[r].ran /\ run'[r].raised = run[r].raised
        /\ run'[r].kept = k /\ run'[r].broken = b
    BY <1>0, <2>3 DEF Gone, Handler
  <2>5. QED
    BY <1>0, <2>1, <2>2, <2>3, <2>4
<1>1. CASE Before(r)
  BY <1>0, <1>1 DEF Before, Become, Goto, store, Handler
<1>2. CASE Identify(r)
  BY <1>0, <1>2 DEF Identify, Become, Goto, store, Handler
<1>3. CASE FlushHeaders(r)
  <2>1. CASE Goto(r, "start")
    BY <1>0, <1>3, <2>1 DEF FlushHeaders, Become, Goto, store, Handler
  <2>2. CASE Become(r, [run[r] EXCEPT !.pc = "after", !.herr = TRUE])
    BY <1>0, <1>3, <2>2 DEF FlushHeaders, Become, store, Handler
  <2>3. QED
    BY <1>3, <2>1, <2>2 DEF FlushHeaders
<1>4. CASE EmitRunStarted(r)
  <2> DEFINE h == [run[r] EXCEPT !.pc = "load"]
  <2>1. h \in Handler /\ h.broken = run[r].broken
    BY <1>0 DEF Handler, Locations
  <2>2. Emit(r, "started", h)
    BY <1>4 DEF EmitRunStarted
  <2>3. PICK s \in OnEmit["started"], b \in BOOLEAN :
          /\ s \in Lifecycle
          /\ run' = [run EXCEPT ![r] = Emitted(h, "started", s, b)]
          /\ run[r].broken => b
          /\ \/ seen' = [seen EXCEPT ![r] = s]
             \/ seen' = seen /\ (b \/ ~conn[r] \/ s # "started")
    <3>1. "started" \in Events
      BY DEF Events
    <3> HIDE DEF h
    <3>2. QED
      BY <2>1, <2>2, <3>1, EmitOutcome
  <2>5. HooksKeepMeaning => s \notin Terminal
    BY DEF HooksKeepMeaning
  <2>6. run'[r] = [run[r] EXCEPT !.pc = "load", !.kept = s # "started", !.broken = b]
    BY <1>0, <2>3 DEF Emitted, Handler
  <2>4. QED
    BY <1>0, <1>4, <2>3, <2>5, <2>6 DEF EmitRunStarted, store, Handler
<1>5. CASE LeaveUnstarted(r)
  BY <1>0, <1>5 DEF LeaveUnstarted, Become, Goto, store, Handler
<1>6. CASE LoadPending(r)
  <2>1. PICK got \in SUBSET Requests :
          /\ got \in {pending, {}}
          /\ run' = [run EXCEPT ![r] = [run[r] EXCEPT !.pc = "validate", !.loaded = got]]
    BY <1>6 DEF LoadPending, Become, TypeOK
  <2>2. QED
    BY <1>0, <1>6, <2>1 DEF LoadPending, store, Handler
<1>7. CASE LoadUndecodable(r)
  BY <1>0, <1>7, <1>25 DEF LoadUndecodable, store, Locations
<1>8. CASE Validate(r)
  <2>1. CASE Covers(run[r].resume, run[r].loaded) /\ Goto(r, "ensure") /\ seen' = seen
    BY <1>0, <1>8, <2>1 DEF Validate, Covers, Become, Goto, store, Handler
  <2>2. CASE EmitError(r, "after")
    BY <1>0, <1>8, <2>2, <1>25 DEF Validate, store, Locations
  <2>3. QED
    BY <1>8, <2>1, <2>2 DEF Validate
<1>9. CASE EnsureSession(r)
  BY <1>0, <1>9 DEF EnsureSession, Become, Goto, store, Handler
<1>10. CASE CreateSession(r)
  BY <1>0, <1>10 DEF CreateSession, Become, Goto, Handler
<1>11. CASE CreateRefused(r)
  BY <1>0, <1>11, <1>25 DEF CreateRefused, store, Locations
<1>12. CASE Prepare(r)
  <2>1. CASE Goto(r, "message") /\ seen' = seen
    BY <1>0, <1>12, <2>1 DEF Prepare, Become, Goto, store, Handler
  <2>2. CASE EmitError(r, "after")
    BY <1>0, <1>12, <2>2, <1>25 DEF Prepare, store, Locations
  <2>3. QED
    BY <1>12, <2>1, <2>2 DEF Prepare
<1>23. CASE StartAgent(r)
  <2>1. CASE /\ Become(r, [run[r] EXCEPT !.pc = "agent", !.ran = TRUE])
             /\ seen' = seen
             /\ pending' = WithState(r)
    BY <1>0, <1>23, <2>1 DEF StartAgent, Become, Handler
  <2>2. CASE EmitError(r, "finish") /\ UNCHANGED pending
    BY <1>0, <1>23, <2>2, <1>25 DEF StartAgent, Locations
  <2>3. QED
    BY <1>23, <2>1, <2>2 DEF StartAgent
<1>13. CASE AgentUnheard(r)
  BY <1>0, <1>13 DEF AgentUnheard, Become, store, Handler
<1>14. CASE AgentError(r)
  BY <1>0, <1>14, <1>25 DEF AgentError, store, Locations
<1>15. CASE AgentInterrupt(r)
  <2> DEFINE h == [run[r] EXCEPT !.pc = "finish", !.raised = TRUE, !.final = TRUE]
  <2>1. h \in Handler /\ h.broken = run[r].broken
    BY <1>0 DEF Handler, Locations
  <2>2. Emit(r, "interrupt", h)
    BY <1>15 DEF AgentInterrupt
  <2>3. PICK s \in OnEmit["interrupt"], b \in BOOLEAN :
          /\ s \in Lifecycle
          /\ run' = [run EXCEPT ![r] = Emitted(h, "interrupt", s, b)]
          /\ run[r].broken => b
          /\ \/ seen' = [seen EXCEPT ![r] = s]
             \/ seen' = seen /\ (b \/ ~conn[r] \/ s # "interrupt")
    <3>1. "interrupt" \in Events
      BY DEF Events, Terminal
    <3> HIDE DEF h
    <3>2. QED
      BY <2>1, <2>2, <3>1, EmitOutcome
  <2>5. run'[r] = [run[r] EXCEPT !.pc = "finish", !.raised = TRUE, !.final = TRUE,
                                 !.kept = s # "interrupt", !.broken = b]
    BY <1>0, <2>3 DEF Emitted, Handler
  <2>6. /\ \A q \in Requests : q # r => run'[q] = run[q] /\ seen'[q] = seen[q]
        /\ run'[r].pc = "finish" /\ run'[r].raised /\ run'[r].final
        /\ run'[r].resume = run[r].resume /\ run'[r].state = run[r].state
        /\ run'[r].loaded = run[r].loaded
        /\ run'[r].ran = run[r].ran /\ run'[r].herr = run[r].herr
        /\ seen'[r] = "interrupt" \/ run'[r].broken \/ ~conn[r] \/ run'[r].kept
    BY <1>0, <2>3, <2>5 DEF Handler
  <2>4. QED
    BY <1>0, <1>15, <2>6 DEF AgentInterrupt, store
<1>16. CASE AgentDone(r)
  BY <1>0, <1>16 DEF AgentDone, Become, Goto, store, Handler
<1>17. CASE Finish(r)
  <2> DEFINE h == [run[r] EXCEPT !.pc = "settle", !.final = TRUE]
  <2>1. h \in Handler /\ h.broken = run[r].broken
    BY <1>0 DEF Handler, Locations
  <2>2. CASE run[r].final
    BY <1>0, <1>17, <2>2 DEF Finish, Finalized, Become, Goto, store, Handler
  <2>3. CASE ~run[r].final
    <3>1. Emit(r, "success", h)
      BY <1>17, <2>3 DEF Finish, Finalized
    <3>2. PICK s \in OnEmit["success"], b \in BOOLEAN :
            /\ s \in Lifecycle
            /\ run' = [run EXCEPT ![r] = Emitted(h, "success", s, b)]
            /\ run[r].broken => b
            /\ \/ seen' = [seen EXCEPT ![r] = s]
               \/ seen' = seen /\ (b \/ ~conn[r] \/ s # "success")
      <4>1. "success" \in Events
        BY DEF Events, Terminal
      <4> HIDE DEF h
      <4>2. QED
        BY <2>1, <3>1, <4>1, EmitOutcome
    <3>4. HooksKeepMeaning => s # "interrupt"
      BY DEF HooksKeepMeaning, Events
    <3>5. run'[r] = [run[r] EXCEPT !.pc = "settle", !.final = TRUE,
                                   !.kept = s # "success", !.broken = b]
      BY <1>0, <3>2 DEF Emitted, Handler
    <3>6. /\ \A q \in Requests : q # r => run'[q] = run[q] /\ seen'[q] = seen[q]
          /\ run'[r].pc = "settle" /\ run'[r].final
          /\ run'[r].resume = run[r].resume /\ run'[r].state = run[r].state
          /\ run'[r].loaded = run[r].loaded /\ run'[r].raised = run[r].raised
          /\ run'[r].ran = run[r].ran /\ run'[r].herr = run[r].herr
          /\ HooksKeepMeaning => seen'[r] = seen[r] \/ seen'[r] # "interrupt"
      BY <1>0, <3>2, <3>4, <3>5 DEF Handler
    <3>3. QED
      BY <1>0, <1>17, <2>3, <3>6 DEF Finish, store
  <2>4. QED
    BY <2>2, <2>3
<1>18. CASE Settle(r)
  <2>1. CASE (~Writes(r) /\ Goto(r, "after")) \/ (Writes(r) /\ Goto(r, "append"))
    BY <1>0, <1>18, <2>1 DEF Settle, Writes, Become, Goto, store, Handler
  <2>2. CASE Become(r, [run[r] EXCEPT !.pc = "after", !.herr = TRUE])
    BY <1>0, <1>18, <2>2 DEF Settle, Become, store, Handler
  <2>3. QED
    BY <1>18, <2>1, <2>2 DEF Settle
<1>19. CASE AppendPending(r)
  <2>1. CASE pending' = Leaves(r) /\ Goto(r, "after")
    BY <1>0, <1>19, <2>1 DEF AppendPending, Become, Goto, store, Handler
  <2>2. CASE Become(r, [run[r] EXCEPT !.pc = "after", !.herr = TRUE])
    BY <1>0, <1>19, <2>2 DEF AppendPending, Become, store, Handler
  <2>3. QED
    BY <1>19, <2>1, <2>2 DEF AppendPending
<1>20. CASE CallAfter(r)
  BY <1>0, <1>20 DEF CallAfter, store
<1>21. CASE Return(r)
  BY <1>0, <1>21 DEF Return, Become, Goto, store, Handler
<1>22. QED
  BY <1>1, <1>2, <1>3, <1>4, <1>5, <1>6, <1>7, <1>8, <1>9, <1>10, <1>11, <1>12, <1>13,
     <1>14, <1>15, <1>16, <1>17, <1>18, <1>19, <1>20, <1>21, <1>23 DEF Step

\* So does the record of the After calls.
LEMMA StepMirrors ==
  ASSUME NEW r \in Requests, TypeOK, TypeOK', Mirrors(run[r], after[r]), Shape(r)
  PROVE  /\ Mirrors(run'[r], after'[r])
         /\ \A q \in Requests : q # r => after'[q] = after[q]
<1> USE DEF Mirrors, Settled, At
<1>0. /\ run[r] \in Handler /\ run \in [Requests -> Handler]
      /\ after \in [Requests -> Seq([hook : Nat, err : BOOLEAN])]
      /\ after[r] \in Seq([hook : Nat, err : BOOLEAN])
  BY DEF TypeOK
<1>1. CASE /\ run[r].pc \notin Settled
           /\ run'[r].pc \notin {"idle", "done", "lost"}
           /\ after' = after
  <2>1. Len(<<>>) = 0 /\ after[r] = <<>>
    BY <1>1
  <2>2. run'[r].ok \in Nat
    <3>1. run' \in [Requests -> Handler]
      BY DEF TypeOK
    <3>2. QED
      BY <3>1, HooksAssumption DEF Handler
  <2>3. QED
    BY <1>1, <2>1, <2>2
<1>2. CASE CallAfter(r)
  <2> DEFINE a == after[r]
             c == [hook |-> run[r].ok - Len(a), err |-> run[r].herr]
  <2>1. run' = run /\ after' = [after EXCEPT ![r] = Append(a, c)]
    BY <1>2 DEF CallAfter, NextHook
  <2>2. Len(a) \in Nat /\ run[r].ok \in Nat
    BY <1>0, HooksAssumption DEF Handler
  <2>3. c \in [hook : Nat, err : BOOLEAN]
    BY <1>0, <1>2, <2>2 DEF CallAfter, Handler
  <2>4. /\ Len(Append(a, c)) = Len(a) + 1
        /\ \A i \in 1..Len(a) : Append(a, c)[i] = a[i]
        /\ Append(a, c)[Len(a) + 1] = c
    <3> HIDE DEF c
    <3>1. QED
      BY <1>0, <2>3
  <2>5. c = [hook |-> run[r].ok + 1 - (Len(a) + 1), err |-> run[r].herr]
    BY <2>2
  <2>6. \A i \in 1..(Len(a) + 1) : i \in 1..Len(a) \/ i = Len(a) + 1
    BY <2>2
  <2>7. \A i \in 1..(Len(a) + 1) :
          Append(a, c)[i] = [hook |-> run[r].ok + 1 - i, err |-> run[r].herr]
    <3> HIDE DEF c
    <3>1. QED
      BY <2>4, <2>5, <2>6
  <2>8. after'[r] = Append(a, c) /\ \A q \in Requests : q # r => after'[q] = after[q]
    <3> HIDE DEF c
    <3>1. QED
      BY <1>0, <2>1
  <2>9. run[r].pc = "after" /\ Len(a) + 1 <= run[r].ok
    BY <1>2, <2>2 DEF CallAfter
  <2> HIDE DEF c, a
  <2>10. QED
    BY <2>1, <2>2, <2>4, <2>7, <2>8, <2>9
<1>3. CASE Return(r)
  <2>1. Len(after[r]) \in Nat /\ run[r].ok \in Nat /\ Len(after[r]) >= run[r].ok
    BY <1>0, <1>3, HooksAssumption DEF Return, Handler
  <2>2. QED
    BY <1>0, <1>3, <2>1 DEF Return, Goto, Become, Handler
<1>4. QED
  BY <1>1, <1>2, <1>3 DEF Shape

-----------------------------------------------------------------------------
(* The whole thread.                                                        *)

SafeInv == AllSane /\ AllMirror /\ Shared

\* Once a run is over and its interrupt is known, it stays known; and what is
\* pending, loaded or trusted was known before.
LEMMA StepShared ==
  ASSUME NEW r \in Requests, TypeOK, TypeOK', AllSane, Shared, Shape(r)
  PROVE  Shared'
<1> USE DEF Shape, At
<1>1. \A q \in Requests : q # r => run'[q] = run[q]
  OBVIOUS
<1>2. run'[r].pc \in Settled \/ run[r].pc \notin Settled
  <2>1. CASE CallAfter(r)
    BY <2>1 DEF CallAfter
  <2>2. CASE Return(r)
    BY <2>2 DEF Return, Goto, Become, Settled, TypeOK, Handler
  <2>3. QED
    BY <2>1, <2>2 DEF Shape
<1>3. Known \subseteq Known'
  BY <1>1, <1>2 DEF Known
<1>8. Sent' = Sent
  BY <1>1 DEF Sent
<1>9. WithState(r) \subseteq pending \cup Sent
  BY DEF WithState, Sent
<1>4. pending' \subseteq Vouched'
  <2>1. CASE pending' = pending
    BY <1>3, <1>8, <2>1 DEF Shared, Vouched
  <2>2. CASE At(r, "append") /\ run'[r].pc = "after" /\ pending' = Leaves(r)
    BY <1>3, <2>2 DEF Leaves, Known, Settled, Vouched
  <2>3. CASE pending' = WithState(r)
    BY <1>3, <1>8, <1>9, <2>3 DEF Shared, Vouched
  <2>4. QED
    BY <2>1, <2>2, <2>3
<1>10. Vouched \subseteq Vouched'
  BY <1>3, <1>8 DEF Vouched
<1>5. \A q \in Requests : run'[q].loaded \subseteq Vouched'
  BY <1>1, <1>10 DEF Shared
<1>6. \A q \in Requests : Trusts(run'[q]) => run'[q].resume \subseteq Vouched'
  BY <1>1, <1>10 DEF Shared
<1>7. QED
  BY <1>4, <1>5, <1>6 DEF Shared

\* The invariant is inductive: no step of a handler, no arrival, disconnect or
\* crash breaks it.
LEMMA SafeInvStep ==
  ASSUME TypeOK, TypeOK', SafeInv, [Next]_vars
  PROVE  SafeInv'
<1> USE DEF SafeInv, AllSane, AllMirror
<1>0. \A q \in Requests : run[q] \in Handler
  BY DEF TypeOK
<1>1. ASSUME NEW r \in Requests, Receive(r) \/ ReceiveMalformed(r)
      PROVE  SafeInv'
  <2>1. PICK ids \in SUBSET Requests, p \in {"before", "done"}, sent \in SUBSET ClientState :
          run' = [run EXCEPT ![r] = [run[r] EXCEPT !.pc = p, !.resume = ids, !.state = sent]]
    <3>1. CASE Receive(r)
      <4>1. PICK ids \in SUBSET Requests, sent \in {{}} \cup {{c} : c \in ClientState} :
              run' = [run EXCEPT ![r] =
                        [run[r] EXCEPT !.pc = "before", !.resume = ids, !.state = sent]]
        BY <3>1 DEF Receive, Become
      <4>2. sent \in SUBSET ClientState
        OBVIOUS
      <4>3. QED
        BY <4>1, <4>2
    <3>2. CASE ReceiveMalformed(r)
      <4>1. run[r].resume \in SUBSET Requests /\ run[r].state \in SUBSET ClientState
        BY <1>0 DEF Handler
      <4>2. [run[r] EXCEPT !.pc = "done"] =
              [run[r] EXCEPT !.pc = "done", !.resume = run[r].resume, !.state = run[r].state]
        BY <1>0 DEF Handler
      <4>3. QED
        BY <3>2, <4>1, <4>2 DEF ReceiveMalformed, Goto, Become
    <3>3. QED
      BY <1>1, <3>1, <3>2
  <2>2. /\ \A q \in Requests : q # r => run'[q] = run[q]
        /\ run'[r] = [run[r] EXCEPT !.pc = p, !.resume = ids, !.state = sent]
    BY <2>1 DEF TypeOK
  <2>3. At(r, "idle") /\ UNCHANGED <<seen, after, conn, exists, pending>>
    BY <1>1 DEF Receive, ReceiveMalformed, store
  <2>4. Sane(run[r], seen[r], conn[r], exists)
    OBVIOUS
  <2>5. Sane(run'[r], seen'[r], conn'[r], exists')
    BY <1>0, <2>2, <2>3, <2>4 DEF Sane, At, BeforeAgent, WithAgent, Terminal, Handler
  <2>6. Mirrors(run'[r], after'[r])
    <3>1. Mirrors(run[r], after[r]) /\ Len(<<>>) = 0
      OBVIOUS
    <3>2. run'[r].pc = p /\ run'[r].ok = run[r].ok /\ run'[r].herr = run[r].herr
      BY <1>0, <2>2 DEF Handler
    <3>3. QED
      BY <2>3, <3>1, <3>2 DEF Mirrors, At, Settled
  <2>7. ~run[r].raised /\ ~run[r].ran
    BY <2>3, <2>4 DEF Sane, At, BeforeAgent
  <2>8. Shared'
    <3>1. Known' = Known
      BY <1>0, <2>2, <2>7 DEF Known, Handler
    <3>2. ~Trusts(run'[r]) /\ run'[r].loaded = run[r].loaded
      BY <1>0, <2>2, <2>7 DEF Trusts, Handler
    <3>4. run[r].state = {}
      BY <2>3, <2>4 DEF Sane, At
    <3>5. Vouched \subseteq Vouched'
      <4>1. \A q \in Requests : run[q].state \subseteq run'[q].state
        BY <2>2, <3>4
      <4>2. \A q \in Requests : UNION run[q].state \subseteq UNION run'[q].state
        BY <4>1
      <4>3. Sent \subseteq Sent'
        BY <4>2 DEF Sent
      <4>4. QED
        BY <3>1, <4>3 DEF Vouched
    <3>3. QED
      BY <2>2, <2>3, <3>2, <3>5 DEF Shared
  <2>9. QED
    BY <2>2, <2>3, <2>5, <2>6, <2>8
<1>2. ASSUME NEW r \in Requests, Step(r)
      PROVE  SafeInv'
  <2>1. Sane(run'[r], seen'[r], conn'[r], exists') /\ Shape(r)
    BY <1>2, StepSane
  <2>2. AllSane'
    BY <2>1 DEF Shape, Sane
  <2>3. AllMirror'
    BY <2>1, StepMirrors DEF Shape
  <2>4. Shared'
    BY <2>1, StepShared
  <2>5. QED
    BY <2>2, <2>3, <2>4
<1>3. ASSUME NEW r \in Requests, Disconnect(r)
      PROVE  SafeInv'
  <2>1. UNCHANGED <<run, seen, after, exists, pending>>
    BY <1>3 DEF Disconnect, store
  <2>2. \A q \in Requests : conn'[q] => conn[q]
    BY <1>3 DEF Disconnect, TypeOK
  <2>3. AllSane'
    BY <2>1, <2>2 DEF Sane
  <2>4. Shared'
    BY <2>1 DEF Shared, Vouched, Known, Sent
  <2>5. QED
    BY <2>1, <2>3, <2>4
<1>4. CASE Crash
  <2>1. /\ \A q \in Requests : run'[q] \in {run[q], [run[q] EXCEPT !.pc = "lost"]}
        /\ \A q \in Requests : run'[q].pc \in {"idle", "done", "lost"}
        /\ UNCHANGED <<seen, after, conn, exists, pending>>
    BY <1>0, <1>4 DEF Crash, store, Quiet, Handler
  <2>2. ASSUME NEW q \in Requests
        PROVE  /\ Sane(run'[q], seen'[q], conn'[q], exists')
               /\ Mirrors(run'[q], after'[q])
    <3>1. CASE run'[q] = run[q]
      BY <2>1, <3>1
    <3>2. CASE run'[q] = [run[q] EXCEPT !.pc = "lost"]
      BY <1>0, <2>1, <3>2 DEF Sane, Mirrors, BeforeAgent, WithAgent, Terminal, Settled, Handler
    <3>3. QED
      BY <2>1, <3>1, <3>2
  <2>3. Known \subseteq Known'
    BY <1>0, <2>1 DEF Known, Settled, Handler
  <2>4. \A q \in Requests :
          /\ run'[q].loaded = run[q].loaded
          /\ run'[q].resume = run[q].resume
          /\ run'[q].state = run[q].state
          /\ Trusts(run'[q]) => Trusts(run[q])
    BY <1>0, <2>1 DEF Trusts, Handler
  <2>7. Sent' = Sent
    BY <2>4 DEF Sent
  <2>5. Shared'
    BY <2>1, <2>3, <2>4, <2>7 DEF Shared, Vouched
  <2>6. QED
    BY <2>2, <2>5
<1>5. CASE UNCHANGED vars
  BY <1>5 DEF vars, Shared, Vouched, Known, Sent
<1>6. QED
  BY <1>1, <1>2, <1>3, <1>4, <1>5 DEF Next, Quiescent

\* Whatever overlaps and fails, each handler's locals are sane, its After calls
\* mirror its Before calls, and no interrupt was made up.
THEOREM SafeInvariance == Spec => []SafeInv
<1>1. Init => SafeInv
  <2> SUFFICES ASSUME Init
               PROVE  SafeInv
    OBVIOUS
  <2>1. \A r \in Requests : run[r] = Fresh /\ after[r] = <<>> /\ seen[r] = "nothing"
    BY DEF Init
  <2>2. Len(<<>>) = 0
    OBVIOUS
  <2>3. AllSane
    BY <2>1 DEF AllSane, Sane, Fresh, Terminal, WithAgent
  <2>4. AllMirror
    BY <2>1, <2>2 DEF AllMirror, Mirrors, Fresh, Settled
  <2>5. Shared
    BY <2>1 DEF Init, Shared, Trusts, Fresh
  <2>6. QED
    BY <2>3, <2>4, <2>5 DEF SafeInv
<1>2. TypeOK /\ TypeOK' /\ SafeInv /\ [Next]_vars => SafeInv'
  BY SafeInvStep
<1>3. QED
  BY <1>1, <1>2, TypeCorrect, PTL DEF Spec

\* With hooks that make no other event a terminal one, a client sees at most one
\* terminal event of the launcher, and no other lifecycle event replaces it.
THEOREM TerminalEventIsLast == HooksKeepMeaning => (Spec => TerminalIsLast)
<1> SUFFICES ASSUME HooksKeepMeaning
             PROVE  Spec => TerminalIsLast
  OBVIOUS
<1> DEFINE Last == \A r \in Requests : seen[r] \in Terminal => seen'[r] = seen[r]
<1>1. TypeOK /\ SafeInv /\ [Next]_vars => Last
  <2> SUFFICES ASSUME TypeOK, SafeInv, [Next]_vars
               PROVE  Last
    OBVIOUS
  <2>1. ASSUME NEW r \in Requests, Step(r)
        PROVE  Last
    BY <2>1, StepSane DEF SafeInv, AllSane, Shape
  <2>2. CASE seen' = seen
    BY <2>2
  <2>3. QED
    BY <2>1, <2>2 DEF Next, Receive, ReceiveMalformed, Disconnect, Crash, Quiescent, vars
<1>2. TypeOK /\ SafeInv /\ [Next]_vars => [Last]_vars
  BY <1>1
<1>3. QED
  BY <1>2, TypeCorrect, SafeInvariance, PTL DEF Spec, TerminalIsLast

\* After runs once per hook whose Before succeeded, last hook first, and all
\* hooks hear the same error.
THEOREM HooksAreMirrored == Spec => []AfterMirrorsBefore
<1>1. TypeOK /\ SafeInv => AfterMirrorsBefore
  <2> SUFFICES ASSUME TypeOK, SafeInv, NEW r \in Requests, At(r, "done")
               PROVE  after[r] = [i \in 1..run[r].ok |->
                                    [hook |-> run[r].ok + 1 - i, err |-> run[r].herr]]
    BY DEF AfterMirrorsBefore
  <2>1. after[r] \in Seq([hook : Nat, err : BOOLEAN])
    BY DEF TypeOK
  <2>2. /\ Len(after[r]) = run[r].ok
        /\ \A i \in 1..run[r].ok :
             after[r][i] = [hook |-> run[r].ok + 1 - i, err |-> run[r].herr]
    BY DEF SafeInv, AllMirror, Mirrors, At
  <2>3. after[r] = [i \in 1..Len(after[r]) |-> after[r][i]]
    BY <2>1
  <2>4. QED
    BY <2>2, <2>3
<1>2. QED
  BY <1>1, TypeCorrect, SafeInvariance, PTL

\* However requests overlap, whatever fails and whatever clients send as `state`, an
\* agent only gets answers to interrupts that another run raised and has settled, or
\* that a client put into the session itself.
THEOREM AnswersAreToRealInterrupts == Spec => []AnswersWereRaised
<1>1. SafeInv => AnswersWereRaised
  BY DEF SafeInv, Shared, Vouched, Trusts, Known, Settled, AnswersWereRaised
<1>2. QED
  BY <1>1, SafeInvariance, PTL

\* The thread waits for the answer to an interrupt its client has not received only
\* if that client's stream broke, a hook kept the event back, or a client put the id
\* into the session itself.
THEOREM PendingIsDelivered == Spec => []PendingWasDelivered
<1>1. SafeInv => PendingWasDelivered
  BY DEF SafeInv, Shared, Vouched, Known, AllSane, Sane, PendingWasDelivered
<1>2. QED
  BY <1>1, SafeInvariance, PTL

-----------------------------------------------------------------------------
(* What becomes of the interrupts of a thread whose runs take turns, when   *)
(* Get does not fail (Serialised), on top of the invariants SerialInv and   *)
(* SafeInv.  Clean is the handler that settled without an error.            *)

\* A run that has just settled left what it was to leave.
LeftBehind == \A r \in Requests : Clean(run[r]) /\ At(r, "after") => pending = Leaves(r)

\* The interrupt of a settled run is pending until an agent gets the answer.
Kept ==
  \A q \in Requests :
    Clean(run[q]) /\ run[q].raised
      => q \in pending \/ \E r \in Requests : run[r].ran /\ q \in run[r].resume

\* What a settled run answered is not pending any more, nor was it answered by
\* another one.
Consumed == \A r \in Requests : Clean(run[r]) => run[r].resume \cap pending = {}
Apart ==
  \A r, q \in Requests :
    r # q /\ Clean(run[r]) /\ Clean(run[q]) => run[r].resume \cap run[q].resume = {}

TurnsInv == LeftBehind /\ Kept /\ Consumed /\ Apart

\* Where no client writes the launcher's key nothing comes from the clients.
LEMMA NothingSent ==
  ASSUME TypeOK, KeyIsPrivate
  PROVE  /\ Sent = {} /\ Vouched = Known
         /\ \A r \in Requests : WithState(r) = pending
<1>1. \A r \in Requests : run[r].state = {}
  BY DEF TypeOK, Handler, KeyIsPrivate
<1>2. Sent = {}
  BY <1>1 DEF Sent
<1>3. QED
  BY <1>1, <1>2 DEF Vouched, WithState

\* A run that settles without an error answered what was pending, and what it
\* leaves is its own interrupt, which nobody knew before.
LEMMA Settling ==
  ASSUME NEW r \in Requests, TypeOK, KeyIsPrivate, SafeInv, SerialInv,
         At(r, "append"), pending' = Leaves(r)
  PROVE  /\ run[r].resume = pending
         /\ run[r].ran
         /\ run[r].resume \cap pending' = {}
         /\ \A q \in Requests : Clean(run[q]) => run[q].resume \cap pending' = {}
<1>1. run[r].resume = pending
  BY DEF SerialInv, AnswersMatchPending, Holds, At
<1>2. run[r].ran
  <2>1. Sane(run[r], seen[r], conn[r], exists)
    BY DEF SafeInv, AllSane
  <2>2. QED
    BY <2>1 DEF Sane, WithAgent, At
<1>3. r \notin Known /\ pending' \subseteq {r}
  BY DEF Known, Settled, Leaves, At
<1>4. pending \subseteq Known
  BY NothingSent DEF SafeInv, Shared
<1>5. \A q \in Requests : Clean(run[q]) => run[q].resume \subseteq Known
  BY NothingSent DEF SafeInv, Shared, Trusts, Clean
<1>6. QED
  BY <1>1, <1>2, <1>3, <1>4, <1>5

\* Every step of a handler keeps the invariant.
LEMMA StepTurns ==
  ASSUME NEW r \in Requests, TypeOK, KeyIsPrivate, SafeInv, SerialInv, TurnsInv,
         ~Quiet(r), Shape(r)
  PROVE  TurnsInv'
<1>1. /\ \A q \in Requests : q # r => run'[q] = run[q] /\ Quiet(q)
      /\ run'[r].resume = run[r].resume
      /\ run[r].ran => run'[r].ran
  BY DEF Shape, SerialInv, OneAtATime
<1>2. \A q \in Requests : run[q].ran => run'[q].ran /\ run'[q].resume = run[q].resume
  BY <1>1
<1>3. CASE /\ pending' = pending
           /\ Clean(run'[r]) => Clean(run[r])
  <2>1. Clean(run'[r]) => (run'[r].raised <=> run[r].raised) /\ At(r, "after")
    BY <1>3 DEF Shape, Clean, Quiet, At
  <2>2. LeftBehind'
    BY <1>1, <1>3, <2>1 DEF TurnsInv, LeftBehind, Leaves, Clean, Quiet, At
  <2>3. Kept'
    BY <1>1, <1>2, <1>3, <2>1 DEF TurnsInv, Kept
  <2>4. Consumed'
    BY <1>1, <1>3 DEF TurnsInv, Consumed
  <2>5. Apart'
    BY <1>1, <1>3 DEF TurnsInv, Apart
  <2>6. QED
    BY <2>2, <2>3, <2>4, <2>5 DEF TurnsInv
<1>4. CASE At(r, "append") /\ pending' = Leaves(r)
  <2>1. /\ run[r].resume = pending
        /\ run[r].ran
        /\ run[r].resume \cap pending' = {}
        /\ \A q \in Requests : Clean(run[q]) => run[q].resume \cap pending' = {}
    BY <1>4, Settling
  <2>2. (run'[r].raised <=> run[r].raised) /\ pending' = Leaves(r)'
    BY <1>4 DEF Shape, At, Leaves
  <2>3. LeftBehind'
    BY <1>1, <2>2 DEF LeftBehind, Clean, Quiet, At
  <2>4. Kept'
    <3>1. r \in pending' \/ ~run'[r].raised
      BY <1>4, <2>2 DEF Leaves
    <3>2. \A q \in Requests : q \in pending => q \in run'[r].resume /\ run'[r].ran
      BY <1>1, <2>1
    <3>3. QED
      BY <1>1, <1>2, <3>1, <3>2 DEF TurnsInv, Kept
  <2>5. Consumed'
    BY <1>1, <2>1 DEF Consumed
  <2>6. Apart'
    BY <1>1, <2>1 DEF TurnsInv, Apart, Consumed
  <2>7. QED
    BY <2>3, <2>4, <2>5, <2>6 DEF TurnsInv
<1>5. CASE run'[r].pc \in {"prepare", "agent"} /\ pending' = WithState(r)
  <2>1. pending' = pending /\ ~Clean(run'[r])
    BY <1>5, NothingSent DEF Clean
  <2>2. QED
    BY <1>3, <2>1
<1>6. QED
  BY <1>3, <1>4, <1>5 DEF Shape

\* So does whatever lets no run settle, forgets no answer and writes nothing.
LEMMA SteadyTurns ==
  ASSUME TurnsInv, pending' = pending,
         \A q \in Requests : Clean(run'[q]) => run'[q] = run[q],
         \A q \in Requests : run[q].ran => run'[q].ran /\ run'[q].resume = run[q].resume
  PROVE  TurnsInv'
<1>1. LeftBehind'
  BY DEF TurnsInv, LeftBehind, Leaves, At
<1>2. Kept'
  BY DEF TurnsInv, Kept
<1>3. Consumed' /\ Apart'
  BY DEF TurnsInv, Consumed, Apart
<1>4. QED
  BY <1>1, <1>2, <1>3 DEF TurnsInv

\* The invariant is inductive.
LEMMA TurnsInvStep ==
  ASSUME TypeOK, Serialised, SafeInv, SerialInv, TurnsInv, [Next]_vars
  PROVE  TurnsInv'
<1>0. \A q \in Requests : run[q] \in Handler
  BY DEF TypeOK
<1>1. ASSUME NEW r \in Requests, Receive(r) \/ ReceiveMalformed(r)
      PROVE  TurnsInv'
  <2>1. ~run[r].ran /\ At(r, "idle")
    BY <1>1 DEF SafeInv, AllSane, Sane, BeforeAgent, Receive, ReceiveMalformed, At
  <2>2. ~run'[r].ran /\ \A q \in Requests : q # r => run'[q] = run[q]
    <3>1. CASE Receive(r)
      BY <1>0, <2>1, <3>1 DEF Receive, Become, TypeOK, Handler
    <3>2. CASE ReceiveMalformed(r)
      BY <1>0, <2>1, <3>2 DEF ReceiveMalformed, Goto, Become, TypeOK, Handler
    <3>3. QED
      BY <1>1, <3>1, <3>2
  <2>3. pending' = pending
    BY <1>1 DEF Receive, ReceiveMalformed, store
  <2>4. /\ \A q \in Requests : Clean(run'[q]) => run'[q] = run[q]
        /\ \A q \in Requests : run[q].ran => run'[q].ran /\ run'[q].resume = run[q].resume
    BY <2>1, <2>2 DEF Clean
  <2>5. QED
    BY <2>3, <2>4, SteadyTurns
<1>2. ASSUME NEW r \in Requests, Step(r)
      PROVE  TurnsInv'
  <2>1. Shape(r)
    BY <1>2, StepSane DEF SafeInv, AllSane
  <2>2. ~Quiet(r)
    BY <1>2, StepIsSummarised DEF Serialised, StepSummary
  <2>3. QED
    BY <2>1, <2>2, StepTurns DEF Serialised
<1>3. ASSUME NEW r \in Requests, Disconnect(r)
      PROVE  TurnsInv'
  BY <1>3, SteadyTurns DEF Disconnect, store
<1>4. CASE Crash
  <2>1. \A q \in Requests : run'[q] \in {run[q], [run[q] EXCEPT !.pc = "lost"]}
    BY <1>4 DEF Crash
  <2>2. \A q \in Requests : Clean(run'[q]) => run'[q] = run[q]
    BY <1>0, <2>1 DEF Clean, Handler
  <2>3. \A q \in Requests : run[q].ran => run'[q].ran /\ run'[q].resume = run[q].resume
    BY <1>0, <2>1 DEF Handler
  <2>4. pending' = pending
    BY <1>4 DEF Crash, store
  <2>5. QED
    BY <2>2, <2>3, <2>4, SteadyTurns
<1>5. CASE UNCHANGED vars
  BY <1>5, SteadyTurns DEF vars
<1>6. QED
  BY <1>1, <1>2, <1>3, <1>4, <1>5 DEF Next, Quiescent

-----------------------------------------------------------------------------
(* The theorems.                                                            *)

\* With runs that take turns, settled runs leave the thread as TurnsInv says.
THEOREM TurnsInvariance == Serialised => (Spec => []TurnsInv)
<1> SUFFICES ASSUME Serialised
             PROVE  Spec => []TurnsInv
  OBVIOUS
<1>1. Init => TurnsInv
  BY DEF Init, Fresh, TurnsInv, LeftBehind, Kept, Consumed, Apart, Clean
<1>2. TypeOK /\ SafeInv /\ SerialInv /\ TurnsInv /\ [Next]_vars => TurnsInv'
  BY TurnsInvStep
<1>3. QED
  BY <1>1, <1>2, TypeCorrect, SafeInvariance, SerialInvariance, PTL DEF Spec

\* When the After hooks are about to hear "no error" of a run whose agent ran,
\* the session already says what the next request is validated against.
THEOREM NoErrorMeansSettled == Serialised => (Spec => []NilErrorMeansSettled)
<1>1. TurnsInv => NilErrorMeansSettled
  BY DEF TurnsInv, LeftBehind, Leaves, Clean, NilErrorMeansSettled, At
<1>2. QED
  BY <1>1, TurnsInvariance, PTL

\* An interrupt is answered at most once by runs that reported no error.
THEOREM AnsweredAtMostOnce == Serialised => (Spec => []AnsweredOnce)
<1>1. TurnsInv => AnsweredOnce
  BY DEF TurnsInv, Apart, Clean, AnsweredOnce, At
<1>2. QED
  BY <1>1, TurnsInvariance, PTL

\* With hooks that make no other event an interrupt, an interrupt its client received
\* of a run without an error stays pending until an agent gets the answer.  Runs that
\* overlap lose it: see the run lost_interrupt.
THEOREM InterruptsAreKept ==
  Serialised /\ HooksKeepMeaning => (Spec => []NoInterruptLost)
<1> SUFFICES ASSUME Serialised, HooksKeepMeaning
             PROVE  Spec => []NoInterruptLost
  OBVIOUS
<1>1. SafeInv /\ TurnsInv => NoInterruptLost
  BY DEF SafeInv, AllSane, Sane, TurnsInv, Kept, Clean, NoInterruptLost, At
<1>2. QED
  BY <1>1, SafeInvariance, TurnsInvariance, PTL
=============================================================================
