-------------------------- MODULE Scheduler_proof --------------------------
(***************************************************************************)
(* Theorems about Scheduler, for every set of ticks, every choice of        *)
(* settings and every bound on attempts, faults and edits.                  *)
(***************************************************************************)
EXTENDS Scheduler, FiniteSetTheorems, TLAPS

-----------------------------------------------------------------------------
(* Lemmas about the operators.                                              *)

\* What appending to the log does to its elements.
LEMMA AppendFacts ==
  ASSUME NEW S, NEW s \in Seq(S), NEW e \in S
  PROVE  /\ Append(s, e) \in Seq(S)
         /\ Len(s) \in Nat
         /\ DOMAIN s = 1..Len(s)
         /\ DOMAIN Append(s, e) = 1..(Len(s) + 1)
         /\ Len(Append(s, e)) = Len(s) + 1
         /\ \A i \in 1..Len(s) : Append(s, e)[i] = s[i]
         /\ Append(s, e)[Len(s) + 1] = e
OBVIOUS

\* A second element after a first.
LEMMA AppendSecond ==
  ASSUME NEW S, NEW e \in S, NEW f \in S, NEW s \in Seq(S)
  PROVE  Len(s) = 1 /\ s[1] = e => Append(s, f) = <<e, f>>
<1> DEFINE t == Append(s, f)
<1>1. /\ Len(t) = Len(s) + 1
      /\ \A i \in 1..Len(s) : t[i] = s[i]
      /\ t[Len(s) + 1] = f
      /\ t \in Seq(S)
  BY AppendFacts
<1> HIDE DEF t
<1>2. ASSUME Len(s) = 1, s[1] = e
      PROVE  t = <<e, f>>
  <2>1. Len(t) = 2 /\ t[1] = e /\ t[2] = f
    BY <1>1, <1>2
  <2>2. t = [i \in 1..2 |-> t[i]]
    <3>1. t = [i \in 1..Len(t) |-> t[i]]
      BY <1>1
    <3>2. QED
      BY <2>1, <3>1
  <2>3. <<e, f>> = [i \in 1..2 |-> <<e, f>>[i]]
    OBVIOUS
  <2>4. QED
    BY <2>1, <2>2, <2>3
<1>3. QED
  BY <1>2 DEF t

\* The session of a run: never the empty one, and counted.
LEMMA SessionOfRun ==
  ASSUME NEW hd \in Handler, hd.session <= sessions, sessions \in Nat
  PROVE  /\ SessionOf(hd) \in Nat \ {0}
         /\ SessionOf(hd) <= IF hd.session = 0 THEN sessions + 1 ELSE sessions
         /\ hd.session # 0 => SessionOf(hd) = hd.session
BY DEF SessionOf, Handler

\* RunUserMessage ends a run or fails; either way sessions are only added.
LEMMA RunOutcome ==
  ASSUME TypeOK, NEW a \in Attempts, NEW what \in {"initial", "main"}, NEW next,
         RunUserMessage(a, what, next)
  PROVE  /\ SessionOf(h[a]) \in Nat \ {0}
         /\ h[a].session # 0 => SessionOf(h[a]) = h[a].session
         /\ sessions' \in Nat /\ sessions <= sessions' /\ faults' \in Nat
         /\ \/ /\ SessionOf(h[a]) <= sessions'
               /\ \E r \in Run :
                    /\ r.what = what /\ r.tick = h[a].tick /\ r.session = SessionOf(h[a])
                    /\ log' = Append(log, r)
               /\ h' = [h EXCEPT ![a] = [h[a] EXCEPT !.pc = next, !.session = SessionOf(h[a])]]
            \/ /\ log' = log
               /\ h' = [h EXCEPT ![a] = AgentFailed(h[a])]
<1>1. h[a] \in Handler /\ h[a].session <= sessions /\ sessions \in Nat /\ h[a].tick \in Ticks
  BY DEF TypeOK, Handler
<1>2. /\ SessionOf(h[a]) \in Nat \ {0}
      /\ SessionOf(h[a]) <= IF h[a].session = 0 THEN sessions + 1 ELSE sessions
      /\ h[a].session # 0 => SessionOf(h[a]) = h[a].session
  BY <1>1, SessionOfRun
<1>3. sessions' = IF h[a].session = 0 THEN sessions + 1 ELSE sessions
  BY DEF RunUserMessage
<1>4. sessions' \in Nat /\ sessions <= sessions' /\ faults' \in Nat
  BY <1>1, <1>3 DEF RunUserMessage, NoFault, Fault, TypeOK
<1>5. \A good \in BOOLEAN :
        [what |-> what, tick |-> h[a].tick, session |-> SessionOf(h[a]), good |-> good] \in Run
  BY <1>1, <1>2 DEF Run
<1>6. QED
  BY <1>2, <1>3, <1>4, <1>5 DEF RunUserMessage, Become

-----------------------------------------------------------------------------
(* Types.                                                                   *)

\* Merging an attempt's result keeps the cron well typed.
LEMMA MergedType ==
  ASSUME NEW c \in Cron, NEW copy \in Cron, NEW s \in Nat
  PROVE  /\ Merged(c, copy, s) \in Cron
         /\ Merged(c, copy, s).context \in {c.context, s}
BY DEF Merged, Cron

\* So does one run of the agent.
LEMMA RunType ==
  ASSUME NEW a \in Attempts, NEW what \in {"initial", "main"}, NEW next \in {"main", "update"},
         TypeOK, RunUserMessage(a, what, next), UNCHANGED <<setting, cron, task, observed>>
  PROVE  TypeOK'
<1>1. /\ sessions' \in Nat /\ sessions <= sessions' /\ faults' \in Nat
      /\ SessionOf(h[a]) \in Nat
      /\ \/ /\ SessionOf(h[a]) <= sessions'
            /\ \E r \in Run : log' = Append(log, r)
            /\ h' = [h EXCEPT ![a] = [h[a] EXCEPT !.pc = next, !.session = SessionOf(h[a])]]
         \/ /\ log' = log
            /\ h' = [h EXCEPT ![a] = AgentFailed(h[a])]
  BY RunOutcome
<1>2. /\ h[a] \in Handler /\ log \in Seq(Run) /\ h \in [Attempts -> Handler]
      /\ sessions \in Nat /\ cron \in Cron /\ cron.context \in Nat /\ cron.context <= sessions
      /\ \A b \in Attempts : h[b].session \in Nat /\ h[b].session <= sessions
  BY DEF TypeOK, Handler, Cron
<1>3. log' \in Seq(Run)
  <2>1. ASSUME NEW r \in Run
        PROVE  Append(log, r) \in Seq(Run)
    BY <1>2, AppendFacts
  <2>2. QED
    BY <1>1, <1>2, <2>1
<1>4. h' \in [Attempts -> Handler] /\ \A b \in Attempts : h'[b].session <= sessions'
  <2>1. AgentFailed(h[a]) \in Handler /\ AgentFailed(h[a]).session = h[a].session
    BY <1>2 DEF AgentFailed, Handler
  <2>2. [h[a] EXCEPT !.pc = next, !.session = SessionOf(h[a])] \in Handler
    BY <1>1, <1>2 DEF Handler
  <2>3. \A b \in Attempts : h[b].session <= sessions'
    BY <1>1, <1>2
  <2>4. CASE h' = [h EXCEPT ![a] = AgentFailed(h[a])]
    BY <1>2, <2>1, <2>3, <2>4
  <2>5. CASE /\ SessionOf(h[a]) <= sessions'
             /\ h' = [h EXCEPT ![a] = [h[a] EXCEPT !.pc = next, !.session = SessionOf(h[a])]]
    BY <1>2, <2>2, <2>3, <2>5 DEF Handler
  <2>6. QED
    BY <1>1, <2>4, <2>5
<1>5. cron.context <= sessions'
  BY <1>1, <1>2
<1>6. QED
  BY <1>1, <1>3, <1>4, <1>5 DEF TypeOK

\* Every step of a handler keeps the variables well typed.
LEMMA StepType ==
  ASSUME NEW a \in Attempts, TypeOK, Step(a)
  PROVE  TypeOK'
<1> USE DEF TypeOK
<1>0. /\ h[a] \in Handler /\ h[a].copy \in Cron /\ h[a].session \in Nat
      /\ cron.context \in Nat /\ observed[a] \in Seq({"started", "finished", "failed"})
      /\ sessions \in Nat
  BY DEF Handler, Cron
<1>1. CASE GetCron(a)
  <2>1. faults' \in Nat
    BY <1>1 DEF GetCron, Fault, NoFault
  <2>2. \E hd \in Handler : Become(a, hd) /\ hd.session \in {h[a].session, cron.context}
    <3>1. [h[a] EXCEPT !.pc = "done", !.owes = "failed"] \in Handler
      BY <1>0 DEF Handler
    <3>2. [h[a] EXCEPT !.pc = "done", !.owes = "ok"] \in Handler
      BY <1>0 DEF Handler
    <3>3. \A o \in {"later", "ok"} :
            [h[a] EXCEPT !.pc = "start", !.copy = cron, !.session = cron.context,
                         !.owes = o] \in Handler
      BY <1>0 DEF Handler
    <3>4. CASE Refuse(a)
      BY <1>0, <3>1, <3>4 DEF Refuse, Handler
    <3>5. CASE Acknowledge(a)
      BY <1>0, <3>2, <3>5 DEF Acknowledge, Handler
    <3>6. CASE Become(a, [h[a] EXCEPT !.pc = "start", !.copy = cron, !.session = cron.context,
                                      !.owes = IF setting.sync THEN "later" ELSE "ok"])
      BY <1>0, <3>3, <3>6 DEF Handler
    <3>7. QED
      BY <1>1, <3>4, <3>5, <3>6 DEF GetCron
  <2>3. QED
    BY <1>0, <1>1, <2>1, <2>2 DEF GetCron, Become
<1>2. CASE Respond(a)
  <2>1. [h[a] EXCEPT !.owes = "nothing"] \in Handler
    BY <1>0 DEF Handler
  <2>2. task' \in [Ticks -> {"planned", "queued", "acked"}]
    BY <1>2 DEF Respond
  <2>3. faults' \in Nat
    BY <1>2 DEF Respond, Fault, NoFault
  <2>4. QED
    BY <1>0, <1>2, <2>1, <2>2, <2>3 DEF Respond, Become, Handler
<1>3. CASE Start(a)
  <2>1. \A p \in {"initial", "main"} : [h[a] EXCEPT !.pc = p] \in Handler
    BY <1>0 DEF Handler
  <2>2. h' \in [Attempts -> Handler] /\ \A b \in Attempts : h'[b].session = h[b].session
    BY <1>0, <1>3, <2>1 DEF Start, Become, Handler
  <2>3. Append(observed[a], "started") \in Seq({"started", "finished", "failed"})
    BY <1>0
  <2>4. QED
    BY <1>3, <2>2, <2>3 DEF Start
<1>5. CASE InitialRun(a)
  BY <1>5, RunType DEF InitialRun
<1>6. CASE MainRun(a)
  BY <1>6, RunType DEF MainRun
<1>7. CASE UpdateCron(a)
  <2>1. /\ [h[a] EXCEPT !.pc = "end", !.stored = TRUE] \in Handler
        /\ NotStored(h[a]) \in Handler
        /\ [h[a] EXCEPT !.pc = "end", !.stored = TRUE].session = h[a].session
        /\ NotStored(h[a]).session = h[a].session
    BY <1>0 DEF NotStored, Handler
  <2>2. h' \in [Attempts -> Handler] /\ \A b \in Attempts : h'[b].session = h[b].session
    BY <1>7, <2>1 DEF UpdateCron, Become
  <2>3. cron' \in Cron /\ cron'.context <= sessions
    <3>1. /\ Merged(cron, h[a].copy, h[a].session) \in Cron
          /\ Merged(cron, h[a].copy, h[a].session).context \in {cron.context, h[a].session}
      BY <1>0, MergedType
    <3>2. cron' \in {cron, Merged(cron, h[a].copy, h[a].session)}
      BY <1>7 DEF UpdateCron
    <3>3. QED
      BY <3>1, <3>2
  <2>4. faults' \in Nat
    BY <1>7 DEF UpdateCron, Fault, NoFault
  <2>5. QED
    BY <1>7, <2>2, <2>3, <2>4 DEF UpdateCron
<1>8. CASE End(a)
  <2>1. Heard(h[a]) \in {"finished", "failed"}
    BY DEF Heard
  <2>2. observed' \in [Attempts -> Seq({"started", "finished", "failed"})]
    BY <1>0, <1>8, <2>1 DEF End
  <2>3. \A o \in {"later", "ok", "failed", "nothing"} :
          /\ [h[a] EXCEPT !.pc = "done", !.owes = o] \in Handler
          /\ [h[a] EXCEPT !.pc = "done", !.owes = o].session = h[a].session
    BY <1>0 DEF Handler
  <2>4. PICK o \in {"later", "ok", "failed", "nothing"} :
          h' = [h EXCEPT ![a] = [h[a] EXCEPT !.pc = "done", !.owes = o]]
    BY <1>0, <1>8 DEF End, Answer, Become, Handler
  <2>5. h' \in [Attempts -> Handler] /\ \A b \in Attempts : h'[b].session = h[b].session
    BY <2>3, <2>4
  <2>6. QED
    BY <1>8, <2>2, <2>5 DEF End
<1>9. QED
  BY <1>1, <1>2, <1>3, <1>5, <1>6, <1>7, <1>8 DEF Step

\* The type invariant, checked by the run cron_ticks.
THEOREM TypeCorrect == Spec => []TypeOK
<1>1. Init => TypeOK
  <2> SUFFICES ASSUME Init
               PROVE  TypeOK
    OBVIOUS
  <2>1. (CHOOSE k \in Ticks : TRUE) \in Ticks
    BY SchedulerTicks
  <2>2. cron \in Cron /\ cron.context = 0
    <3>1. cron \in [type : {"cron", "at"}, state : {"active"}, context : {0},
                    prompt : {"text", "blank"}, initial : {"none", "blank", "text"},
                    edit : {0}, ran : {FALSE}]
      BY DEF Init
    <3>2. /\ cron = [type |-> cron.type, state |-> cron.state, context |-> cron.context,
                      prompt |-> cron.prompt, initial |-> cron.initial,
                      edit |-> cron.edit, ran |-> cron.ran]
          /\ cron.type \in {"cron", "at"} /\ cron.state = "active" /\ cron.context = 0
          /\ cron.prompt \in {"text", "blank"} /\ cron.initial \in {"none", "blank", "text"}
          /\ cron.edit = 0 /\ cron.ran \in {FALSE}
      BY <3>1
    <3>3. /\ cron.state \in {"active", "archived"} /\ cron.context \in Nat
          /\ cron.edit \in Nat
      BY <3>2
    <3>4. {FALSE} \subseteq BOOLEAN
      OBVIOUS
    <3>5. cron.ran \in BOOLEAN
      BY <3>2, <3>4, Zenon
    <3>6. QED
      BY <3>2, <3>3, <3>5 DEF Cron
  <2>3. h \in [Attempts -> Handler] /\ \A a \in Attempts : h[a].session = 0
    BY <2>1, <2>2 DEF Init, Handler
  <2>4. <<>> \in Seq({"started", "finished", "failed"}) /\ <<>> \in Seq(Run)
    OBVIOUS
  <2>5. QED
    BY <2>2, <2>3, <2>4 DEF Init, TypeOK
<1>2. TypeOK /\ [Next]_vars => TypeOK'
  <2> SUFFICES ASSUME TypeOK, [Next]_vars
               PROVE  TypeOK'
    OBVIOUS
  <2>1. ASSUME NEW k \in Ticks, Fire(k)
        PROVE  TypeOK'
    BY <2>1 DEF Fire, TypeOK
  <2>2. ASSUME NEW a \in Attempts, Step(a)
        PROVE  TypeOK'
    BY <2>2, StepType
  <2>3. ASSUME NEW a \in Attempts, NEW k \in Ticks, Dispatch(a, k)
        PROVE  TypeOK'
    <3>1. /\ [h[a] EXCEPT !.pc = "get", !.tick = k] \in Handler
          /\ [h[a] EXCEPT !.pc = "get", !.tick = k].session = h[a].session
      BY DEF TypeOK, Handler
    <3>2. QED
      BY <2>3, <3>1 DEF Dispatch, Become, TypeOK
  <2>4. CASE OwnerEdits
    <3>1. cron.edit + 1 \in Nat /\ cron \in Cron
      BY DEF TypeOK, Cron
    <3>2. /\ [cron EXCEPT !.edit = @ + 1] \in Cron
          /\ [cron EXCEPT !.edit = @ + 1, !.state = "archived"] \in Cron
      BY <3>1 DEF Cron
    <3>3. /\ [cron EXCEPT !.edit = @ + 1].context = cron.context
          /\ [cron EXCEPT !.edit = @ + 1, !.state = "archived"].context = cron.context
      BY <3>1 DEF Cron
    <3>4. cron' \in Cron /\ cron'.context = cron.context
      BY <2>4, <3>2, <3>3 DEF OwnerEdits
    <3>5. QED
      BY <2>4, <3>4 DEF OwnerEdits, TypeOK
  <2>5. CASE Crash
    <3>1. \A a \in Attempts :
            /\ [h[a] EXCEPT !.pc = "dead", !.owes = "nothing"] \in Handler
            /\ [h[a] EXCEPT !.pc = "dead", !.owes = "nothing"].session = h[a].session
      BY DEF TypeOK, Handler
    <3>2. h' \in [Attempts -> Handler] /\ \A a \in Attempts : h'[a].session = h[a].session
      BY <2>5, <3>1 DEF Crash, TypeOK
    <3>3. faults' \in Nat
      <4>1. faults \in Nat /\ faults' = faults + 1
        BY <2>5 DEF Crash, Fault, TypeOK
      <4>2. QED
        BY <4>1
    <3>4. QED
      BY <2>5, <3>2, <3>3 DEF Crash, TypeOK
  <2>6. CASE UNCHANGED vars
    BY <2>6 DEF vars, TypeOK
  <2>7. QED
    BY <2>1, <2>2, <2>3, <2>4, <2>5, <2>6 DEF Next, Rest
<1>3. QED
  BY <1>1, <1>2, PTL DEF Spec

-----------------------------------------------------------------------------
(* How the stored cron moves.                                               *)

\* What no step ever undoes, whoever takes it.
Moves(c, d) ==
  /\ d.type = c.type /\ d.initial = c.initial
  /\ d.edit \in Nat /\ c.edit \in Nat /\ d.edit >= c.edit
  /\ c.state = "archived" => d.state = "archived"
  /\ c.ran => d.ran
  /\ c.context # 0 => d.context # 0

LEMMA CronMoves ==
  ASSUME TypeOK, [Next]_vars
  PROVE  Moves(cron, cron')
<1>0. cron \in Cron /\ cron.edit \in Nat /\ cron.edit + 1 \in Nat
  BY DEF TypeOK, Cron
<1>1. ASSUME NEW a \in Attempts, UpdateCron(a)
      PROVE  Moves(cron, cron')
  <2>1. CASE cron' = Merged(cron, h[a].copy, h[a].session)
    BY <1>0, <2>1 DEF Moves, Merged, Cron
  <2>2. CASE cron' = cron
    BY <1>0, <2>2 DEF Moves
  <2>3. QED
    BY <1>1, <2>1, <2>2 DEF UpdateCron
<1>2. CASE OwnerEdits
  <2>1. PICK state \in {cron.state, "archived"} :
          cron' = [cron EXCEPT !.edit = cron.edit + 1, !.state = state]
    <3>1. [cron EXCEPT !.edit = cron.edit + 1] =
            [cron EXCEPT !.edit = cron.edit + 1, !.state = cron.state]
      BY <1>0 DEF Cron
    <3>2. QED
      BY <1>2, <3>1 DEF OwnerEdits
  <2>2. /\ cron'.edit = cron.edit + 1 /\ cron'.state = state
        /\ cron'.type = cron.type /\ cron'.initial = cron.initial
        /\ cron'.ran = cron.ran /\ cron'.context = cron.context
    BY <1>0, <2>1 DEF Cron
  <2>3. QED
    BY <1>0, <2>1, <2>2 DEF Moves
<1>3. CASE cron' = cron
  BY <1>0, <1>3 DEF Moves
<1>4. cron' = cron \/ OwnerEdits \/ \E a \in Attempts : UpdateCron(a)
  BY DEF Next, Step, Fire, Dispatch, GetCron, Respond, Start, InitialRun, MainRun, End, Crash,
         Rest, vars
<1>5. QED
  BY <1>1, <1>2, <1>3, <1>4

\* What the owner did while the agent was running survives UpdateCron: no edit
\* is undone and an archived cron stays archived.
THEOREM OwnerAlwaysWins == Spec => OwnerWins
<1> DEFINE Wins == /\ cron'.edit >= cron.edit
                   /\ cron.state = "archived" => cron'.state = "archived"
<1>1. TypeOK /\ [Next]_vars => [Wins]_cron
  BY CronMoves DEF Moves
<1>2. QED
  BY <1>1, TypeCorrect, PTL DEF Spec, OwnerWins

-----------------------------------------------------------------------------
(* One attempt: its locals hd, what the observer heard of it and the cron c. *)

Underway == {"start", "initial", "main", "update"}

AttemptOK(hd, heard, c) ==
  /\ hd.pc \notin {"end", "done", "dead"} => ~hd.runErr /\ ~hd.failed /\ ~hd.stored
  /\ hd.failed => hd.runErr
  /\ hd.pc \in {"idle", "get", "start"} => heard = <<>>
  /\ hd.pc \in {"initial", "main", "update", "end"} => heard = <<"started">>
  /\ heard \in {<<>>, <<"started">>, <<"started", "finished">>, <<"started", "failed">>}
  /\ heard = <<"started", "finished">> => hd.stored
  /\ heard = <<"started", "failed">> => ~hd.stored
  /\ hd.pc = "end" => (hd.stored <=> ~hd.runErr)
  /\ hd.stored => c.ran /\ hd.session # 0
  /\ hd.pc = "update" => hd.session # 0
  /\ hd.copy.type = c.type /\ hd.copy.initial = c.initial
  /\ hd.copy.context # 0 => c.context # 0
  /\ hd.pc = "start" => hd.session = hd.copy.context
  /\ hd.pc = "initial" => hd.session = 0 /\ NeedsInitial(hd.copy)
  /\ hd.pc = "main" /\ NeedsInitial(hd.copy) => hd.session # 0
  /\ hd.pc \in Underway /\ hd.copy.context # 0 => hd.session = hd.copy.context

AttemptsOK == \A a \in Attempts : AttemptOK(h[a], observed[a], cron)

\* What the cron gains, an attempt that is not moving does not lose.
LEMMA AttemptKeeps ==
  ASSUME NEW hd, NEW heard, NEW c, NEW d, AttemptOK(hd, heard, c), Moves(c, d)
  PROVE  AttemptOK(hd, heard, d)
BY DEF AttemptOK, Moves

\* A handler's own steps keep its locals, its observer and the cron in accord.
LEMMA StepAttempt ==
  ASSUME NEW a \in Attempts, TypeOK, AttemptOK(h[a], observed[a], cron), Step(a)
  PROVE  /\ AttemptOK(h'[a], observed'[a], cron')
         /\ \A b \in Attempts : b # a => h'[b] = h[b] /\ observed'[b] = observed[b]
<1> USE DEF AttemptOK, Underway, At
<1>0. /\ h[a] \in Handler /\ h \in [Attempts -> Handler] /\ cron \in Cron
      /\ observed \in [Attempts -> Seq({"started", "finished", "failed"})]
  BY DEF TypeOK
<1>1. CASE GetCron(a)
  <2>1. CASE Refuse(a) \/ Acknowledge(a)
    <3>1. /\ h'[a].pc = "done" /\ h'[a].copy = h[a].copy
          /\ h'[a].runErr = h[a].runErr /\ h'[a].failed = h[a].failed /\ h'[a].stored = h[a].stored
          /\ \A b \in Attempts : b # a => h'[b] = h[b]
      <4>1. PICK o \in {"ok", "failed"} :
              h' = [h EXCEPT ![a] = [h[a] EXCEPT !.pc = "done", !.owes = o]]
        BY <2>1 DEF Refuse, Acknowledge, Become
      <4>2. QED
        BY <1>0, <4>1 DEF Handler
    <3>2. h[a].pc = "get" /\ cron' = cron /\ observed' = observed
      BY <1>1 DEF GetCron
    <3>3. QED
      BY <3>1, <3>2
  <2>2. CASE Become(a, [h[a] EXCEPT !.pc = "start", !.copy = cron, !.session = cron.context,
                                    !.owes = IF setting.sync THEN "later" ELSE "ok"])
    <3>1. /\ h'[a].pc = "start" /\ h'[a].copy = cron /\ h'[a].session = cron.context
          /\ h'[a].runErr = h[a].runErr /\ h'[a].failed = h[a].failed /\ h'[a].stored = h[a].stored
          /\ \A b \in Attempts : b # a => h'[b] = h[b]
      BY <1>0, <2>2 DEF Become, Handler
    <3>2. h[a].pc = "get" /\ cron' = cron /\ observed' = observed
      BY <1>1 DEF GetCron
    <3>3. <<>> # <<"started", "finished">>
      OBVIOUS
    <3>4. QED
      BY <3>1, <3>2, <3>3
  <2>3. QED
    BY <1>1, <2>1, <2>2 DEF GetCron
<1>2. CASE Respond(a)
  BY <1>0, <1>2 DEF Respond, Become, Handler
<1>3. CASE Start(a)
  <2>1. Append(<<>>, "started") = <<"started">>
    OBVIOUS
  <2>2. /\ observed'[a] = <<"started">>
        /\ \A b \in Attempts : b # a => observed'[b] = observed[b]
    BY <1>0, <1>3, <2>1 DEF Start
  <2>3. h' = [h EXCEPT ![a] = [h[a] EXCEPT !.pc =
                                 IF NeedsInitial(h[a].copy) THEN "initial" ELSE "main"]]
    BY <1>3 DEF Start, Become
  <2>4. UNCHANGED cron /\ h[a].pc = "start"
    BY <1>3 DEF Start
  <2>5. /\ h'[a].pc = IF NeedsInitial(h[a].copy) THEN "initial" ELSE "main"
        /\ h'[a].copy = h[a].copy /\ h'[a].session = h[a].session
        /\ h'[a].runErr = h[a].runErr /\ h'[a].failed = h[a].failed /\ h'[a].stored = h[a].stored
        /\ \A b \in Attempts : b # a => h'[b] = h[b]
    BY <1>0, <2>3 DEF Handler
  <2>6. NeedsInitial(h[a].copy) => h[a].copy.context = 0
    BY DEF NeedsInitial
  <2>7. /\ h'[a].pc \in {"initial", "main"}
        /\ h'[a].pc = "initial" <=> NeedsInitial(h'[a].copy)
        /\ cron' = cron
    BY <2>4, <2>5
  <2>8. /\ ~h[a].runErr /\ ~h[a].failed /\ ~h[a].stored /\ h[a].session = h[a].copy.context
        /\ h[a].copy.type = cron.type /\ h[a].copy.initial = cron.initial
        /\ h[a].copy.context # 0 => cron.context # 0
    BY <2>4
  <2>9. <<"started">> # <<"started", "finished">>
    OBVIOUS
  <2>10. AttemptOK(h'[a], observed'[a], cron')
    BY <2>2, <2>5, <2>6, <2>7, <2>8, <2>9
  <2>11. QED
    BY <2>2, <2>5, <2>10
<1>4. ASSUME NEW what \in {"initial", "main"}, NEW next \in {"main", "update"},
             RunUserMessage(a, what, next), UNCHANGED <<cron, observed>>,
             h[a].pc \in {"initial", "main"}, what = h[a].pc,
             next = IF what = "initial" THEN "main" ELSE "update"
      PROVE  /\ AttemptOK(h'[a], observed'[a], cron')
             /\ \A b \in Attempts : b # a => h'[b] = h[b] /\ observed'[b] = observed[b]
  <2>1. SessionOf(h[a]) # 0 /\ (h[a].session # 0 => SessionOf(h[a]) = h[a].session)
    BY <1>4, RunOutcome
  <2>2. CASE h' = [h EXCEPT ![a] = [h[a] EXCEPT !.pc = next, !.session = SessionOf(h[a])]]
    <3>1. h'[a] = [h[a] EXCEPT !.pc = next, !.session = SessionOf(h[a])]
      BY <1>0, <2>2
    <3>2. /\ h'[a].pc = next /\ h'[a].session = SessionOf(h[a]) /\ h'[a].copy = h[a].copy
          /\ h'[a].runErr = h[a].runErr /\ h'[a].failed = h[a].failed /\ h'[a].stored = h[a].stored
      BY <1>0, <3>1 DEF Handler
    <3>3. (next = "main" /\ h[a].pc = "initial") \/ (next = "update" /\ h[a].pc = "main")
      BY <1>4
    <3>4. /\ cron' = cron /\ observed' = observed
          /\ \A b \in Attempts : b # a => h'[b] = h[b]
      BY <1>0, <1>4, <2>2
    <3>5. h[a].pc = "initial" => h[a].copy.context = 0
      BY DEF NeedsInitial
    <3>6. QED
      BY <2>1, <3>2, <3>3, <3>4, <3>5
  <2>3. CASE h' = [h EXCEPT ![a] = AgentFailed(h[a])]
    BY <1>0, <1>4, <2>3 DEF AgentFailed, Handler
  <2>4. QED
    BY <1>4, <2>2, <2>3, RunOutcome
<1>5. CASE InitialRun(a)
  BY <1>4, <1>5 DEF InitialRun
<1>6. CASE MainRun(a)
  BY <1>4, <1>6 DEF MainRun
<1>7. CASE UpdateCron(a)
  <2>1. CASE /\ cron' = Merged(cron, h[a].copy, h[a].session)
             /\ Become(a, [h[a] EXCEPT !.pc = "end", !.stored = TRUE])
    <3>1. cron'.ran
      BY <1>0, <1>7, <2>1 DEF UpdateCron, Merged, Cron
    <3>2. cron'.type = cron.type /\ cron'.initial = cron.initial
      BY <1>0, <2>1 DEF Merged, Cron
    <3>3. /\ h'[a].pc = "end" /\ h'[a].stored /\ h'[a].copy = h[a].copy
          /\ h'[a].session = h[a].session
          /\ h'[a].runErr = h[a].runErr /\ h'[a].failed = h[a].failed
          /\ \A b \in Attempts : b # a => h'[b] = h[b]
      BY <1>0, <2>1 DEF Become, Handler
    <3>4. h[a].pc = "update" /\ observed' = observed
      BY <1>7 DEF UpdateCron
    <3>5. <<"started">> # <<"started", "finished">> /\ <<"started">> # <<"started", "failed">>
      OBVIOUS
    <3>6. h[a].copy.context # 0 => cron'.context # 0
      BY <1>0, <2>1, <3>4 DEF Merged, Cron
    <3>7. QED
      BY <3>1, <3>2, <3>3, <3>4, <3>5, <3>6
  <2>2. CASE Become(a, NotStored(h[a])) /\ UNCHANGED cron
    BY <1>0, <1>7, <2>2 DEF UpdateCron, NotStored, Become, Handler
  <2>3. QED
    BY <1>7, <2>1, <2>2 DEF UpdateCron
<1>8. CASE End(a)
  <2>1. /\ Append(<<"started">>, "finished") = <<"started", "finished">>
        /\ Append(<<"started">>, "failed") = <<"started", "failed">>
    <3> DEFINE S == {"started", "finished", "failed"}
    <3>1. <<"started">> \in Seq(S) /\ Len(<<"started">>) = 1 /\ <<"started">>[1] = "started"
      OBVIOUS
    <3>2. "started" \in S /\ "finished" \in S /\ "failed" \in S
      OBVIOUS
    <3> HIDE DEF S
    <3>3. QED
      BY <3>1, <3>2, AppendSecond
  <2>2. /\ observed'[a] = <<"started", Heard(h[a])>>
        /\ \A b \in Attempts : b # a => observed'[b] = observed[b]
    BY <1>0, <1>8, <2>1 DEF End, Heard
  <2>3. Heard(h[a]) = "finished" \/ Heard(h[a]) = "failed"
    BY DEF Heard
  <2>4. Heard(h[a]) = "finished" <=> h[a].stored
    BY <1>8 DEF End, Heard
  <2>5. <<"started", "failed">> # <<"started", "finished">>
    OBVIOUS
  <2>6. PICK o : h' = [h EXCEPT ![a] = [h[a] EXCEPT !.pc = "done", !.owes = o]]
    BY <1>8 DEF End, Become
  <2>7. /\ h'[a].pc = "done" /\ h'[a].copy = h[a].copy /\ h'[a].session = h[a].session
        /\ h'[a].runErr = h[a].runErr /\ h'[a].failed = h[a].failed /\ h'[a].stored = h[a].stored
        /\ \A b \in Attempts : b # a => h'[b] = h[b]
    BY <1>0, <2>6 DEF Handler
  <2>8. UNCHANGED cron
    BY <1>8 DEF End
  <2>9. QED
    BY <2>2, <2>3, <2>4, <2>5, <2>7, <2>8
<1>9. QED
  BY <1>1, <1>2, <1>3, <1>5, <1>6, <1>7, <1>8 DEF Step

\* So does everything else: what moves other attempts, or the cron.
LEMMA AttemptsOKStep ==
  ASSUME TypeOK, AttemptsOK, [Next]_vars
  PROVE  AttemptsOK'
<1>0. /\ \A a \in Attempts : h[a] \in Handler
      /\ h \in [Attempts -> Handler]
      /\ Moves(cron, cron')
  BY CronMoves DEF TypeOK
<1>1. \A a \in Attempts : AttemptOK(h[a], observed[a], cron')
  BY <1>0, AttemptKeeps DEF AttemptsOK
<1>2. ASSUME NEW a \in Attempts, Step(a)
      PROVE  AttemptsOK'
  BY <1>1, <1>2, StepAttempt DEF AttemptsOK
<1>3. ASSUME NEW a \in Attempts, NEW k \in Ticks, Dispatch(a, k)
      PROVE  AttemptsOK'
  <2>1. h' = [h EXCEPT ![a] = [h[a] EXCEPT !.pc = "get", !.tick = k]]
    BY <1>3 DEF Dispatch, Become
  <2>2. /\ h'[a].pc = "get" /\ h'[a].copy = h[a].copy
        /\ h'[a].runErr = h[a].runErr /\ h'[a].failed = h[a].failed /\ h'[a].stored = h[a].stored
        /\ \A b \in Attempts : b # a => h'[b] = h[b]
    BY <1>0, <2>1 DEF Handler
  <2>3. h[a].pc = "idle" /\ observed' = observed
    BY <1>3 DEF Dispatch, At
  <2>4. AttemptOK(h'[a], observed'[a], cron')
    BY <1>1, <2>2, <2>3 DEF AttemptOK, Underway
  <2>5. QED
    BY <1>1, <2>2, <2>3, <2>4 DEF AttemptsOK
<1>4. CASE Crash
  <2>1. ASSUME NEW a \in Attempts
        PROVE  AttemptOK(h'[a], observed'[a], cron')
    <3>1. observed' = observed
      BY <1>4 DEF Crash
    <3>2. CASE h'[a] = h[a]
      BY <1>1, <3>1, <3>2
    <3>3. CASE h'[a] = [h[a] EXCEPT !.pc = "dead", !.owes = "nothing"]
      <4>1. h'[a].pc = "dead" /\ h'[a].copy = h[a].copy /\ h'[a].session = h[a].session
            /\ h'[a].runErr = h[a].runErr /\ h'[a].failed = h[a].failed /\ h'[a].stored = h[a].stored
        BY <1>0, <3>3 DEF Handler
      <4>2. QED
        BY <1>1, <3>1, <4>1 DEF AttemptOK, Underway
    <3>4. QED
      BY <1>4, <3>2, <3>3 DEF Crash
  <2>2. QED
    BY <2>1 DEF AttemptsOK
<1>5. CASE UNCHANGED <<h, observed>>
  BY <1>1, <1>5 DEF AttemptsOK
<1>6. QED
  BY <1>2, <1>3, <1>4, <1>5 DEF Next, Fire, OwnerEdits, Rest, vars

\* Every attempt's locals, its observer and the stored cron are in accord.
THEOREM AttemptsInvariance == Spec => []AttemptsOK
<1>1. Init => AttemptsOK
  <2> SUFFICES ASSUME Init, NEW a \in Attempts
               PROVE  AttemptOK(h[a], observed[a], cron)
    BY DEF AttemptsOK
  <2>1. /\ h[a].pc = "idle" /\ ~h[a].runErr /\ ~h[a].failed /\ h[a].copy = cron
        /\ ~h[a].stored /\ observed[a] = <<>> /\ cron.context = 0
    BY DEF Init
  <2>2. <<>> # <<"started", "finished">>
    OBVIOUS
  <2>3. QED
    BY <2>1, <2>2 DEF AttemptOK, Underway
<1>2. TypeOK /\ AttemptsOK /\ [Next]_vars => AttemptsOK'
  BY AttemptsOKStep
<1>3. QED
  BY <1>1, <1>2, TypeCorrect, PTL DEF Spec

-----------------------------------------------------------------------------
(* The log.                                                                 *)

\* Somewhere in the log l the initial prompt was run in session s.
Opened(l, s) == \E j \in DOMAIN l : l[j].what = "initial" /\ l[j].session = s

\* Where a session is remembered it has been opened.
SessionsOpened ==
  cron.type = "cron" /\ cron.initial = "text" =>
    /\ cron.context # 0 => Opened(log, cron.context)
    /\ \A a \in Attempts :
         h[a].pc \in Underway /\ h[a].session # 0 => Opened(log, h[a].session)

OpeningInv == SessionsOpened /\ MainFollowsInitial

\* What was in the log is still there.
LEMMA LogGrows ==
  ASSUME TypeOK, NEW r \in Run, log' = Append(log, r)
  PROVE  /\ \A s : Opened(log, s) => Opened(log', s)
         /\ r.what = "initial" => Opened(log', r.session)
         /\ MainFollowsInitial /\ (r.what = "main" /\ cron.type = "cron" /\ cron.initial = "text"
                                    => Opened(log, r.session))
            /\ cron' = cron => MainFollowsInitial'
         /\ \A k : MainRuns(k) \subseteq MainRuns(k)'
         /\ r.what = "main" => MainRuns(r.tick)' # {}
         /\ \A k : r.what # "main" \/ r.tick # k => MainRuns(k)' = MainRuns(k)
<1>1. /\ Len(log) \in Nat
      /\ DOMAIN log = 1..Len(log)
      /\ DOMAIN log' = 1..(Len(log) + 1)
      /\ \A i \in 1..Len(log) : log'[i] = log[i]
      /\ log'[Len(log) + 1] = r
  BY AppendFacts DEF TypeOK
<1>2. /\ \A i \in 1..(Len(log) + 1) : i \in 1..Len(log) \/ i = Len(log) + 1
      /\ \A i \in 1..Len(log) : i \in 1..(Len(log) + 1)
      /\ Len(log) + 1 \in 1..(Len(log) + 1)
  BY <1>1
<1>3. \A s : Opened(log, s) => Opened(log', s)
  BY <1>1, <1>2 DEF Opened
<1>4. r.what = "initial" => Opened(log', r.session)
  BY <1>1, <1>2 DEF Opened
<1>5. ASSUME MainFollowsInitial, cron' = cron,
             r.what = "main" /\ cron.type = "cron" /\ cron.initial = "text"
               => Opened(log, r.session)
      PROVE  MainFollowsInitial'
  <2> SUFFICES ASSUME NEW i \in 1..(Len(log) + 1), cron.type = "cron", cron.initial = "text",
                      log'[i].what = "main"
               PROVE  \E j \in 1..i-1 : log'[j].what = "initial" /\ log'[j].session = log'[i].session
    BY <1>1, <1>5 DEF MainFollowsInitial
  <2>1. CASE i \in 1..Len(log)
    <3>1. PICK j \in 1..i-1 : log[j].what = "initial" /\ log[j].session = log[i].session
      BY <1>1, <1>5, <2>1 DEF MainFollowsInitial
    <3>2. j \in 1..Len(log)
      BY <1>1, <2>1
    <3>3. QED
      BY <1>1, <2>1, <3>1, <3>2
  <2>2. CASE i = Len(log) + 1
    <3>1. PICK j \in 1..Len(log) : log[j].what = "initial" /\ log[j].session = r.session
      BY <1>1, <1>5, <2>2 DEF Opened
    <3>2. j \in 1..i-1
      BY <1>1, <2>2
    <3>3. QED
      BY <1>1, <2>2, <3>1, <3>2
  <2>3. QED
    BY <1>2, <2>1, <2>2
<1>6. \A k : MainRuns(k) \subseteq MainRuns(k)'
  BY <1>1, <1>2 DEF MainRuns
<1>7. r.what = "main" => MainRuns(r.tick)' # {}
  BY <1>1, <1>2 DEF MainRuns
<1>8. ASSUME NEW k, r.what # "main" \/ r.tick # k
      PROVE  MainRuns(k)' = MainRuns(k)
  BY <1>1, <1>2, <1>8 DEF MainRuns
<1>9. QED
  BY <1>3, <1>4, <1>5, <1>6, <1>7, <1>8

-----------------------------------------------------------------------------
(* What a step of attempt a does to its locals, field by field: g before,   *)
(* n after.                                                                 *)

Same(g, n) == n.copy = g.copy /\ n.stored = g.stored
Kept(g, n) == Same(g, n) /\ n.runErr = g.runErr /\ n.failed = g.failed
Still == UNCHANGED <<cron, log>>

Dropped(g, n) ==
  /\ g.pc = "get" /\ n.pc = "done" /\ Kept(g, n) /\ Still /\ UNCHANGED task
  /\ n.owes = "failed" \/ (n.owes = "ok" /\ cron.state = "archived")
Fetched(g, n) ==
  /\ g.pc = "get" /\ n.pc = "start" /\ Still /\ UNCHANGED task
  /\ n.copy = cron /\ n.session = cron.context
  /\ n.runErr = g.runErr /\ n.failed = g.failed /\ n.stored = g.stored
  /\ n.owes = IF setting.sync THEN "later" ELSE "ok"
Responded(g, n) ==
  /\ g.owes \in {"ok", "failed"} /\ n.owes = "nothing" /\ n.pc = g.pc /\ n.session = g.session
  /\ Kept(g, n) /\ Still
  /\ \/ task' = IF g.owes = "ok" THEN [task EXCEPT ![g.tick] = "acked"] ELSE task
     \/ ~AnswersArrive /\ task' = task
Began(g, n) ==
  /\ g.pc = "start" /\ n.pc \in {"initial", "main"} /\ n.session = g.session /\ n.owes = g.owes
  /\ Kept(g, n) /\ Still /\ UNCHANGED task
Ran(g, n) ==
  /\ \/ g.pc = "initial" /\ n.pc = "main"
     \/ g.pc = "main" /\ n.pc = "update"
  /\ n.session # 0 /\ (g.session # 0 => n.session = g.session) /\ n.owes = g.owes
  /\ \E r \in Run : /\ r.what = g.pc /\ r.tick = g.tick /\ r.session = n.session
                    /\ log' = Append(log, r)
  /\ Kept(g, n) /\ UNCHANGED <<cron, task>>
RunFailed(g, n) ==
  /\ g.pc \in {"initial", "main"} /\ n.pc = "end" /\ n.runErr /\ n.failed
  /\ Same(g, n) /\ n.session = g.session /\ n.owes = g.owes /\ Still /\ UNCHANGED task
Stored(g, n) ==
  /\ g.pc = "update" /\ n.pc = "end" /\ n.session = g.session /\ n.owes = g.owes
  /\ n.copy = g.copy /\ n.runErr = g.runErr /\ n.failed = g.failed /\ n.stored
  /\ UNCHANGED <<log, task>>
  /\ cron' = Merged(cron, g.copy, g.session)
StoreFailed(g, n) ==
  /\ g.pc = "update" /\ n.pc = "end" /\ n.session = g.session /\ n.owes = g.owes
  /\ n.runErr /\ Same(g, n) /\ n.failed = g.failed /\ Still /\ UNCHANGED task
Ended(g, n) ==
  /\ g.pc = "end" /\ n.pc = "done" /\ n.session = g.session /\ Kept(g, n) /\ Still
  /\ UNCHANGED task
  /\ n.owes = IF setting.sync THEN Answer(g) ELSE g.owes

Effect(a, g, n) ==
  /\ \A b \in Attempts : b # a => h'[b] = h[b]
  /\ setting' = setting
  /\ n.tick = g.tick
  /\ \/ Dropped(g, n) \/ Fetched(g, n) \/ Responded(g, n) \/ Began(g, n) \/ Ran(g, n)
     \/ RunFailed(g, n) \/ Stored(g, n) \/ StoreFailed(g, n) \/ Ended(g, n)

LEMMA StepEffect ==
  ASSUME NEW a \in Attempts, TypeOK, Step(a)
  PROVE  Effect(a, h[a], h'[a])
<1> USE DEF At, Same, Kept, Still, Effect
<1>0. h[a] \in Handler /\ h \in [Attempts -> Handler]
  BY DEF TypeOK
<1>1. CASE GetCron(a)
  <2>1. CASE Refuse(a)
    BY <1>0, <1>1, <2>1 DEF GetCron, Refuse, Become, Handler, Dropped
  <2>2. CASE Acknowledge(a) /\ cron.state = "archived"
    BY <1>0, <1>1, <2>2 DEF GetCron, Acknowledge, Become, Handler, Dropped
  <2>3. CASE Become(a, [h[a] EXCEPT !.pc = "start", !.copy = cron, !.session = cron.context,
                                    !.owes = IF setting.sync THEN "later" ELSE "ok"])
    BY <1>0, <1>1, <2>3 DEF GetCron, Become, Handler, Fetched
  <2>4. QED
    BY <1>1, <2>1, <2>2, <2>3 DEF GetCron
<1>2. CASE Respond(a)
  BY <1>0, <1>2 DEF Respond, Become, Handler, Responded, Fault, AnswersArrive
<1>3. CASE Start(a)
  BY <1>0, <1>3 DEF Start, Become, Handler, Began
<1>4. ASSUME NEW what \in {"initial", "main"}, NEW next,
             RunUserMessage(a, what, next), UNCHANGED <<setting, cron, task>>,
             what = h[a].pc, next = IF what = "initial" THEN "main" ELSE "update"
      PROVE  Effect(a, h[a], h'[a])
  <2>1. /\ SessionOf(h[a]) # 0 /\ (h[a].session # 0 => SessionOf(h[a]) = h[a].session)
        /\ \/ /\ \E r \in Run :
                   /\ r.what = what /\ r.tick = h[a].tick /\ r.session = SessionOf(h[a])
                   /\ log' = Append(log, r)
              /\ h' = [h EXCEPT ![a] = [h[a] EXCEPT !.pc = next, !.session = SessionOf(h[a])]]
           \/ /\ log' = log
              /\ h' = [h EXCEPT ![a] = AgentFailed(h[a])]
    BY <1>4, RunOutcome
  <2>2. CASE /\ \E r \in Run :
                   /\ r.what = what /\ r.tick = h[a].tick /\ r.session = SessionOf(h[a])
                   /\ log' = Append(log, r)
             /\ h' = [h EXCEPT ![a] = [h[a] EXCEPT !.pc = next, !.session = SessionOf(h[a])]]
    <3>1. /\ h'[a].pc = next /\ h'[a].session = SessionOf(h[a]) /\ h'[a].tick = h[a].tick
          /\ h'[a].owes = h[a].owes /\ Kept(h[a], h'[a])
          /\ \A b \in Attempts : b # a => h'[b] = h[b]
      BY <1>0, <2>2 DEF Handler
    <3>2. \/ h[a].pc = "initial" /\ next = "main"
          \/ h[a].pc = "main" /\ next = "update"
      BY <1>4
    <3>3. Ran(h[a], h'[a])
      BY <1>4, <2>1, <2>2, <3>1, <3>2 DEF Ran
    <3>4. QED
      BY <1>4, <3>1, <3>3
  <2>3. CASE log' = log /\ h' = [h EXCEPT ![a] = AgentFailed(h[a])]
    BY <1>0, <1>4, <2>3 DEF AgentFailed, Handler, RunFailed
  <2>4. QED
    BY <2>1, <2>2, <2>3
<1>5. CASE InitialRun(a)
  BY <1>4, <1>5 DEF InitialRun
<1>6. CASE MainRun(a)
  BY <1>4, <1>6 DEF MainRun
<1>7. CASE UpdateCron(a)
  <2>1. CASE /\ cron' = Merged(cron, h[a].copy, h[a].session)
             /\ Become(a, [h[a] EXCEPT !.pc = "end", !.stored = TRUE])
    BY <1>0, <1>7, <2>1 DEF UpdateCron, Become, Handler, Stored
  <2>2. CASE Become(a, NotStored(h[a])) /\ UNCHANGED cron
    BY <1>0, <1>7, <2>2 DEF UpdateCron, NotStored, Become, Handler, StoreFailed
  <2>3. QED
    BY <1>7, <2>1, <2>2 DEF UpdateCron
<1>8. CASE End(a)
  BY <1>0, <1>8 DEF End, Become, Handler, Ended
<1>9. QED
  BY <1>1, <1>2, <1>3, <1>5, <1>6, <1>7, <1>8 DEF Step

-----------------------------------------------------------------------------
(* The initial prompt comes first.                                          *)

\* No step of an attempt runs the prompt in, or stores, a session that was not
\* opened.
LEMMA OpeningStep ==
  ASSUME NEW a \in Attempts, TypeOK, AttemptsOK, OpeningInv, Moves(cron, cron'),
         Effect(a, h[a], h'[a])
  PROVE  OpeningInv'
<1> DEFINE g == h[a]
           n == h'[a]
           wanted == cron.type = "cron" /\ cron.initial = "text"
<1>0. /\ \A b \in Attempts : b # a => h'[b] = h[b]
      /\ cron'.type = cron.type /\ cron'.initial = cron.initial
      /\ AttemptOK(g, observed[a], cron)
  BY DEF Effect, Moves, AttemptsOK
<1>1. CASE Ran(g, n)
  <2>1. PICK r \in Run : /\ r.what = g.pc /\ r.tick = g.tick /\ r.session = n.session
                         /\ log' = Append(log, r)
    BY <1>1 DEF Ran
  <2>2. wanted /\ g.pc = "main" => Opened(log, n.session)
    BY <1>0, <1>1 DEF Ran, AttemptOK, NeedsInitial, Underway, OpeningInv, SessionsOpened
  <2>3. cron' = cron
    BY <1>1 DEF Ran
  <2>4. /\ \A s : Opened(log, s) => Opened(log', s)
        /\ r.what = "initial" => Opened(log', r.session)
        /\ MainFollowsInitial'
    <3>1. r.what = "main" /\ wanted => Opened(log, r.session)
      BY <2>1, <2>2
    <3>2. QED
      BY <2>1, <2>3, <3>1, LogGrows DEF OpeningInv
  <2>5. g.pc = "main" \/ g.pc = "initial"
    BY <1>1 DEF Ran
  <2>6. wanted => Opened(log', n.session)
    BY <2>1, <2>2, <2>4, <2>5
  <2>7. SessionsOpened'
    BY <1>0, <2>3, <2>4, <2>6 DEF OpeningInv, SessionsOpened
  <2>8. QED
    BY <2>4, <2>7 DEF OpeningInv
<1>2. CASE ~Ran(g, n)
  <2>1. log' = log
    BY <1>2 DEF Effect, Dropped, Fetched, Responded, Began, RunFailed, Stored, StoreFailed, Ended,
                Still
  <2>2. MainFollowsInitial'
    BY <1>0, <2>1 DEF OpeningInv, MainFollowsInitial
  <2>3. n.pc \in Underway =>
          \/ n.session = cron.context
          \/ g.pc \in Underway /\ n.session = g.session
    BY <1>2 DEF Effect, Dropped, Fetched, Responded, Began, RunFailed, Stored, StoreFailed, Ended,
                Underway
  <2>4. \/ cron'.context = cron.context
        \/ g.pc = "update" /\ g.session # 0 /\ cron'.context = g.session
    <3>1. CASE Stored(g, n)
      BY <1>0, <3>1 DEF Stored, Merged, AttemptOK, TypeOK, Cron
    <3>2. CASE ~Stored(g, n)
      BY <1>2, <3>2 DEF Effect, Dropped, Fetched, Responded, Began, RunFailed, StoreFailed, Ended,
                        Still
    <3>3. QED
      BY <3>1, <3>2
  <2>5. SessionsOpened'
    BY <1>0, <2>1, <2>3, <2>4 DEF OpeningInv, SessionsOpened, Underway
  <2>6. QED
    BY <2>2, <2>5 DEF OpeningInv
<1>3. QED
  BY <1>1, <1>2

\* Every prompt of a recurring cron with an initial prompt runs in a session
\* that began with the initial prompt, whichever attempts failed before.
THEOREM InitialPromptFirst == Spec => []MainFollowsInitial
<1>1. Init => OpeningInv
  BY DEF Init, OpeningInv, SessionsOpened, MainFollowsInitial, Underway
<1>2. TypeOK /\ AttemptsOK /\ OpeningInv /\ [Next]_vars => OpeningInv'
  <2> SUFFICES ASSUME TypeOK, AttemptsOK, OpeningInv, [Next]_vars
               PROVE  OpeningInv'
    OBVIOUS
  <2>0. Moves(cron, cron') /\ \A a \in Attempts : h[a] \in Handler
    BY CronMoves DEF TypeOK
  <2>1. ASSUME NEW a \in Attempts, Step(a)
        PROVE  OpeningInv'
    BY <2>0, <2>1, StepEffect, OpeningStep
  <2>2. ASSUME log' = log, cron'.context = cron.context,
               \A a \in Attempts : h'[a].pc \in Underway =>
                  h[a].pc \in Underway /\ h'[a].session = h[a].session
        PROVE  OpeningInv'
    BY <2>0, <2>2 DEF Moves, OpeningInv, SessionsOpened, MainFollowsInitial
  <2>3. ASSUME NEW a \in Attempts, NEW k \in Ticks, Dispatch(a, k)
        PROVE  OpeningInv'
    <3>1. /\ h'[a].pc = "get" /\ \A b \in Attempts : b # a => h'[b] = h[b]
          /\ log' = log /\ cron' = cron
      BY <2>0, <2>3 DEF Dispatch, Become, Handler, TypeOK
    <3>2. QED
      BY <2>2, <3>1 DEF Underway
  <2>4. CASE Crash
    <3>1. \A a \in Attempts : h'[a] = h[a] \/ h'[a].pc = "dead"
      BY <2>0, <2>4 DEF Crash, Handler
    <3>2. QED
      BY <2>2, <2>4, <3>1 DEF Crash, Underway
  <2>5. CASE OwnerEdits
    <3>1. cron'.context = cron.context
      BY <2>5 DEF OwnerEdits, TypeOK, Cron
    <3>2. QED
      BY <2>2, <2>5, <3>1 DEF OwnerEdits
  <2>6. CASE UNCHANGED <<cron, h, log>>
    BY <2>2, <2>6
  <2>7. QED
    BY <2>1, <2>3, <2>4, <2>5, <2>6 DEF Next, Fire, Rest, vars
<1>3. OpeningInv => MainFollowsInitial
  BY DEF OpeningInv
<1>4. QED
  BY <1>1, <1>2, <1>3, TypeCorrect, AttemptsInvariance, PTL DEF Spec

-----------------------------------------------------------------------------
(* A tick is acknowledged for a reason.                                     *)

Excused(k) == MainRuns(k) # {} \/ cron.state = "archived"

\* An attempt past its prompt has run it, and who owes, or gave, a 200 in
\* synchronous mode has a reason.
AnsweredInv ==
  /\ \A a \in Attempts :
       /\ h[a].pc = "idle" => h[a].owes = "later"
       /\ At(a, "update") \/ (At(a, "end") /\ ~h[a].failed) => MainRuns(h[a].tick) # {}
       /\ setting.sync /\ h[a].owes = "ok" => Excused(h[a].tick)
  /\ setting.sync => \A k \in Ticks : task[k] = "acked" => Excused(k)

LEMMA AnsweredStep ==
  ASSUME NEW a \in Attempts, TypeOK, AttemptsOK, AnsweredInv, Moves(cron, cron'),
         Effect(a, h[a], h'[a])
  PROVE  AnsweredInv'
<1> DEFINE g == h[a]
           n == h'[a]
<1>0. /\ \A b \in Attempts : b # a => h'[b] = h[b]
      /\ setting' = setting /\ n.tick = g.tick /\ g.tick \in Ticks
      /\ cron.state = "archived" => cron'.state = "archived"
  BY DEF Effect, Moves, TypeOK, Handler
<1> PICK t \in Ticks : t = g.tick
  BY <1>0
<1>1. \A k : MainRuns(k) \subseteq MainRuns(k)'
  <2>1. CASE log' = log
    BY <2>1 DEF MainRuns
  <2>2. CASE \E r \in Run : log' = Append(log, r)
    BY <2>2, LogGrows
  <2>3. QED
    BY <2>1, <2>2 DEF Effect, Dropped, Fetched, Responded, Began, Ran, RunFailed, Stored,
                      StoreFailed, Ended, Still
<1>2. \A k : Excused(k) => Excused(k)'
  BY <1>0, <1>1 DEF Excused
<1>3. n.pc = "idle" => n.owes = "later"
  BY DEF AnsweredInv, Effect, Dropped, Fetched, Responded, Began, Ran, RunFailed, Stored,
         StoreFailed, Ended
<1>4. n.pc = "update" \/ (n.pc = "end" /\ ~n.failed) => MainRuns(t)' # {}
  <2>1. CASE Ran(g, n)
    <3>1. PICK r \in Run : r.what = g.pc /\ r.tick = g.tick /\ log' = Append(log, r)
      BY <2>1 DEF Ran
    <3>2. r.what = "main" => MainRuns(r.tick)' # {}
      BY <3>1, LogGrows
    <3>3. QED
      BY <2>1, <3>1, <3>2 DEF Ran
  <2>2. CASE ~Ran(g, n)
    <3>1. n.pc = "update" \/ (n.pc = "end" /\ ~n.failed) =>
            g.pc = "update" \/ (g.pc = "end" /\ ~g.failed)
      BY <2>2 DEF Effect, Dropped, Fetched, Responded, Began, RunFailed, Stored, StoreFailed,
                  Ended, Same, Kept
    <3>2. QED
      BY <1>0, <1>1, <3>1 DEF AnsweredInv, At
  <2>3. QED
    BY <2>1, <2>2
<1>5. setting.sync /\ n.owes = "ok" => Excused(t)'
  <2>1. setting.sync /\ n.owes = "ok" =>
          \/ g.owes = "ok"
          \/ cron.state = "archived"
          \/ g.pc = "end" /\ ~g.failed
    BY DEF Effect, Dropped, Fetched, Responded, Began, Ran, RunFailed, Stored, StoreFailed,
           Ended, Answer
  <2>2. setting.sync /\ n.owes = "ok" => Excused(t)
    BY <2>1 DEF AnsweredInv, Excused, At
  <2>3. QED
    BY <1>0, <1>2, <2>2
<1>6. setting.sync => \A k \in Ticks : task'[k] = "acked" => Excused(k)'
  <2>1. \A k \in Ticks : task'[k] = "acked" =>
          task[k] = "acked" \/ (k = g.tick /\ g.owes = "ok")
    BY <1>0 DEF Effect, Dropped, Fetched, Responded, Began, Ran, RunFailed, Stored,
                StoreFailed, Ended, TypeOK
  <2>2. QED
    BY <1>2, <2>1 DEF AnsweredInv
<1>7. ASSUME NEW b \in Attempts
      PROVE  /\ h'[b].pc = "idle" => h'[b].owes = "later"
             /\ h'[b].pc = "update" \/ (h'[b].pc = "end" /\ ~h'[b].failed) =>
                  \E k \in Ticks : k = h'[b].tick /\ MainRuns(k)' # {}
             /\ setting.sync /\ h'[b].owes = "ok" =>
                  \E k \in Ticks : k = h'[b].tick /\ Excused(k)'
  <2>1. CASE b = a
    BY <1>0, <1>3, <1>4, <1>5, <2>1
  <2>2. CASE b # a
    <3>1. PICK k \in Ticks : k = h[b].tick
      BY DEF TypeOK, Handler
    <3>2. QED
      BY <1>0, <1>1, <1>2, <2>2, <3>1 DEF AnsweredInv, At
  <2>3. QED
    BY <2>1, <2>2
<1>8. QED
  BY <1>0, <1>6, <1>7 DEF AnsweredInv, At

\* No step of an attempt, crash or edit answers without a reason.
THEOREM AnsweredInvariance == Spec => []AnsweredInv
<1>1. Init => AnsweredInv
  BY DEF Init, AnsweredInv, At
<1>2. TypeOK /\ AttemptsOK /\ AnsweredInv /\ [Next]_vars => AnsweredInv'
  <2> SUFFICES ASSUME TypeOK, AttemptsOK, AnsweredInv, [Next]_vars
               PROVE  AnsweredInv'
    OBVIOUS
  <2>0. Moves(cron, cron') /\ \A a \in Attempts : h[a] \in Handler
    BY CronMoves DEF TypeOK
  <2>1. ASSUME NEW a \in Attempts, Step(a)
        PROVE  AnsweredInv'
    BY <2>0, <2>1, StepEffect, AnsweredStep
  <2>2. ASSUME log' = log, setting' = setting,
               \A k \in Ticks : task'[k] = "acked" => task[k] = "acked",
               \A a \in Attempts :
                 \/ h'[a] = h[a]
                 \/ h'[a].pc = "get" /\ h'[a].owes = "later"
                 \/ h'[a].pc = "dead" /\ h'[a].owes = "nothing"
        PROVE  AnsweredInv'
    BY <2>0, <2>2 DEF Moves, AnsweredInv, Excused, MainRuns, At
  <2>3. ASSUME NEW a \in Attempts, NEW k \in Ticks, Dispatch(a, k)
        PROVE  AnsweredInv'
    <3>1. h[a].owes = "later"
      BY <2>3 DEF Dispatch, AnsweredInv, At
    <3>2. /\ h'[a].pc = "get" /\ h'[a].owes = "later"
          /\ \A b \in Attempts : b # a => h'[b] = h[b]
          /\ log' = log /\ task' = task /\ setting' = setting
      BY <2>0, <2>3, <3>1 DEF Dispatch, Become, Handler, TypeOK
    <3>3. QED
      BY <2>2, <3>2
  <2>4. CASE Crash
    <3>1. \A a \in Attempts :
            h'[a] = h[a] \/ (h'[a].pc = "dead" /\ h'[a].owes = "nothing")
      BY <2>0, <2>4 DEF Crash, Handler
    <3>2. QED
      BY <2>2, <2>4, <3>1 DEF Crash
  <2>5. ASSUME NEW k \in Ticks, Fire(k)
        PROVE  AnsweredInv'
    BY <2>2, <2>5 DEF Fire, TypeOK
  <2>6. CASE UNCHANGED <<setting, task, h, log>>
    BY <2>2, <2>6
  <2>7. QED
    BY <2>1, <2>3, <2>4, <2>5, <2>6 DEF Next, OwnerEdits, Rest, vars
<1>3. QED
  BY <1>1, <1>2, TypeCorrect, AttemptsInvariance, PTL DEF Spec

\* In synchronous mode a tick leaves the queue only when its prompt ran, or
\* when the cron is archived: crashes and failures lead to another attempt.
THEOREM NoTickIsLost == Spec => []NoTickLost
<1>1. AnsweredInv => NoTickLost
  BY DEF AnsweredInv, Excused, NoTickLost
<1>2. QED
  BY <1>1, AnsweredInvariance, PTL

-----------------------------------------------------------------------------
(* Attempts that take turns.                                                *)

\* Attempt a has run the prompt of its tick and will take it off the queue.
WillAck(a) == At(a, "update") \/ (At(a, "end") /\ ~h[a].failed) \/ (At(a, "done") /\ h[a].owes = "ok")

OneWorks == \A a, b \in Attempts : Working(a) /\ Working(b) => a = b
NotYetRun ==
  \A a \in Attempts :
    h[a].pc \in {"get", "start", "initial", "main"} => \A k \in Ticks : k = h[a].tick => MainRuns(k) = {}
EarlyAnswer ==
  ~setting.sync => \A a \in Attempts :
    h[a].pc \in Underway \cup {"end"} => h[a].owes = "ok" \/ task[h[a].tick] = "acked"
RunIsAcked ==
  \A k \in Ticks :
    task[k] # "acked" /\ MainRuns(k) # {} => \E a \in Attempts : h[a].tick = k /\ WillAck(a)
RunOnce == \A k \in Ticks : \A i, j \in MainRuns(k) : i = j
CopyIsCurrent == \A a \in Attempts : h[a].pc \in Underway => h[a].copy.context = cron.context
InSessions == \A i \in DOMAIN log : log[i].session # 0
Conversation ==
  (\A a \in Attempts : ~Unstored(a)) =>
    \A i \in DOMAIN log : log[i].what = "main" =>
      \/ log[i].session = cron.context
      \/ \E a \in Attempts : At(a, "update") /\ log[i].session = h[a].session

StoredSession == \A a \in Attempts : h[a].stored => cron.context = h[a].session

\* One attempt works at a time, its copy of the cron is current, and the prompts
\* run in the session the cron remembers, or will.
TurnsInv == OneWorks /\ CopyIsCurrent /\ InSessions /\ Conversation /\ StoredSession

\* If answers arrive too, an attempt runs the prompt only of a tick that did not
\* have it yet, and then nobody else gets the tick.
OnceInv == NotYetRun /\ EarlyAnswer /\ RunIsAcked /\ RunOnce

\* Which attempt works, and on what, after a step of attempt a.
LEMMA StepTurn ==
  ASSUME NEW a \in Attempts, TypeOK, AttemptsOK, TurnsInv, Effect(a, h[a], h'[a])
  PROVE  OneWorks' /\ CopyIsCurrent'
<1> DEFINE g == h[a]
           n == h'[a]
<1> USE DEF TurnsInv, At
<1>0. /\ \A b \in Attempts : b # a => h'[b] = h[b]
      /\ setting' = setting /\ n.tick = g.tick /\ g.tick \in Ticks
      /\ AttemptOK(g, observed[a], cron)
  BY DEF Effect, TypeOK, Handler, AttemptsOK
<1>1. Working(a)' => Working(a)
  BY DEF Effect, Dropped, Fetched, Responded, Began, Ran, RunFailed, Stored, StoreFailed, Ended,
         Working, Busy
<1>2. \A b \in Attempts : b # a => (Working(b)' <=> Working(b))
  BY <1>0 DEF Working, Busy
<1>3. OneWorks'
  BY <1>1, <1>2 DEF OneWorks
<1>5. CopyIsCurrent'
  <2>1. n.pc \in Underway => n.copy.context = cron'.context
    BY DEF CopyIsCurrent, Effect, Dropped, Fetched, Responded, Began, Ran, RunFailed, Stored,
           StoreFailed, Ended, Underway, Same, Kept, Still
  <2>2. cron' = cron \/ g.pc = "update"
    BY DEF Effect, Dropped, Fetched, Responded, Began, Ran, RunFailed, Stored, StoreFailed, Ended,
           Still
  <2>3. \A b \in Attempts : b # a /\ g.pc = "update" => ~(h[b].pc \in Underway)
    BY DEF OneWorks, Working, Busy, Underway
  <2>4. QED
    BY <1>0, <2>1, <2>2, <2>3 DEF CopyIsCurrent
<1>6. QED
  BY <1>3, <1>5

\* The prompt of each tick after a step of attempt a.
LEMMA StepRuns ==
  ASSUME NEW a \in Attempts, TypeOK, AttemptsOK, AnswersArrive, TurnsInv, OnceInv,
         Effect(a, h[a], h'[a])
  PROVE  NotYetRun' /\ RunIsAcked' /\ RunOnce'
<1> DEFINE g == h[a]
           n == h'[a]
<1> USE DEF TurnsInv, OnceInv
<1>0. /\ \A b \in Attempts : b # a => h'[b] = h[b]
      /\ setting' = setting /\ n.tick = g.tick /\ g.tick \in Ticks
      /\ AttemptOK(g, observed[a], cron)
  BY DEF Effect, TypeOK, Handler, AttemptsOK
<1> PICK t \in Ticks : t = g.tick
  BY <1>0
<1>1. \A k \in Ticks : task'[k] # "acked" => task[k] # "acked"
  BY <1>0 DEF Effect, Dropped, Fetched, Responded, Began, Ran, RunFailed, Stored,
              StoreFailed, Ended, TypeOK
<1>2. CASE Ran(g, n) /\ g.pc = "main"
  <2>1. PICK r \in Run : r.what = "main" /\ r.tick = t /\ log' = Append(log, r)
    BY <1>2 DEF Ran
  <2>2. \A k : k # t => MainRuns(k)' = MainRuns(k)
    BY <2>1, LogGrows
  <2>3. MainRuns(t) = {}
    BY <1>2 DEF NotYetRun
  <2>4. \A i, j \in MainRuns(t)' : i = j
    <3>1. /\ Len(log) \in Nat /\ DOMAIN log = 1..Len(log)
          /\ DOMAIN log' = 1..(Len(log) + 1)
          /\ \A i \in 1..Len(log) : log'[i] = log[i]
      BY <2>1, AppendFacts DEF TypeOK
    <3>2. \A i \in 1..(Len(log) + 1) : i \in 1..Len(log) \/ i = Len(log) + 1
      BY <3>1
    <3>3. \A i \in MainRuns(t)' : i = Len(log) + 1
      BY <2>3, <3>1, <3>2 DEF MainRuns
    <3>4. QED
      BY <3>3
  <2>5. n.pc = "update"
    BY <1>2 DEF Ran
  <2>6. RunOnce'
    BY <2>2, <2>4 DEF RunOnce
  <2>7. NotYetRun'
    <3>1. \A b \in Attempts : h'[b].pc \notin {"get", "start", "initial", "main"}
      BY <1>0, <1>2, <2>5 DEF OneWorks, Working, Busy
    <3>2. QED
      BY <3>1 DEF NotYetRun
  <2>8. RunIsAcked'
    <3>1. \A b \in Attempts : b # a => (WillAck(b)' <=> WillAck(b))
      BY <1>0 DEF WillAck, At
    <3>2. ~WillAck(a)
      BY <1>2 DEF WillAck, At
    <3>3. WillAck(a)'
      BY <2>5 DEF WillAck, At
    <3>4. QED
      BY <1>0, <1>1, <2>2, <3>1, <3>2, <3>3 DEF RunIsAcked
  <2>9. QED
    BY <2>6, <2>7, <2>8
<1>3. CASE ~(Ran(g, n) /\ g.pc = "main")
  <2>1. \A k : MainRuns(k)' = MainRuns(k)
    <3>1. CASE Ran(g, n)
      <4>1. PICK r \in Run : r.what # "main" /\ log' = Append(log, r)
        BY <1>3, <3>1 DEF Ran
      <4>2. QED
        BY <4>1, LogGrows
    <3>2. CASE log' = log
      BY <3>2 DEF MainRuns
    <3>3. QED
      BY <3>1, <3>2 DEF Effect, Dropped, Fetched, Responded, Began, RunFailed, Stored, StoreFailed,
                        Ended, Still
  <2>2. NotYetRun'
    <3>1. n.pc \in {"get", "start", "initial", "main"} =>
            g.pc \in {"get", "start", "initial", "main"}
      BY <1>3 DEF Effect, Dropped, Fetched, Responded, Began, Ran, RunFailed, Stored,
                  StoreFailed, Ended
    <3>2. QED
      BY <1>0, <2>1, <3>1 DEF NotYetRun
  <2>3. RunOnce'
    BY <2>1 DEF RunOnce
  <2>4. RunIsAcked'
    <3>1. \A b \in Attempts : b # a => (WillAck(b)' <=> WillAck(b))
      BY <1>0 DEF WillAck, At
    <3>2. CASE ~WillAck(a) \/ WillAck(a)'
      BY <1>0, <1>1, <2>1, <3>1, <3>2 DEF RunIsAcked
    <3>3. CASE WillAck(a) /\ ~WillAck(a)'
      <4>1. CASE Responded(g, n)
        <5>1. g.pc = "done" /\ g.owes = "ok"
          BY <3>3, <4>1 DEF Responded, WillAck, At, Same, Kept
        <5>2. task'[t] = "acked"
          BY <4>1, <5>1 DEF Responded, TypeOK
        <5>3. QED
          BY <1>0, <1>1, <2>1, <3>1, <5>2 DEF RunIsAcked
      <4>2. CASE Ended(g, n)
        <5>1. g.pc = "end" /\ ~g.failed /\ n.pc = "done"
          BY <3>3, <4>2 DEF Ended, WillAck, At
        <5>2. ~setting.sync /\ g.owes # "ok"
          BY <3>3, <4>2, <5>1 DEF Ended, WillAck, At, Answer
        <5>3. task[t] = "acked"
          BY <5>1, <5>2 DEF EarlyAnswer
        <5>4. task' = task
          BY <4>2 DEF Ended
        <5>5. QED
          BY <1>0, <1>1, <2>1, <3>1, <5>3, <5>4 DEF RunIsAcked
      <4>3. CASE Stored(g, n) \/ StoreFailed(g, n)
        <5>1. ~n.failed /\ n.pc = "end"
          BY <1>0, <4>3 DEF Stored, StoreFailed, Same, Kept, AttemptOK
        <5>2. QED
          BY <3>3, <5>1 DEF WillAck, At
      <4>4. QED
        BY <3>3, <4>1, <4>2, <4>3
           DEF Effect, Dropped, Fetched, Began, Ran, RunFailed, WillAck, At
    <3>4. QED
      BY <3>2, <3>3
  <2>5. QED
    BY <2>2, <2>3, <2>4
<1>4. QED
  BY <1>2, <1>3

\* The early answer of asynchronous mode after a step of attempt a.
LEMMA StepEarly ==
  ASSUME NEW a \in Attempts, TypeOK, AnswersArrive, OnceInv, Effect(a, h[a], h'[a])
  PROVE  EarlyAnswer'
<1> DEFINE g == h[a]
           n == h'[a]
<1> USE DEF OnceInv
<1>0. /\ \A b \in Attempts : b # a => h'[b] = h[b]
      /\ setting' = setting /\ n.tick = g.tick /\ g.tick \in Ticks
  BY DEF Effect, TypeOK, Handler
<1>1. EarlyAnswer'
  <2>1. ~setting.sync /\ n.pc \in Underway \cup {"end"} => n.owes = "ok" \/ task'[n.tick] = "acked"
    BY <1>0 DEF EarlyAnswer, Effect, Dropped, Fetched, Responded, Began, Ran, RunFailed, Stored,
                StoreFailed, Ended, Underway, TypeOK
  <2>2. \A k \in Ticks : task[k] = "acked" => task'[k] = "acked"
    BY <1>0 DEF Effect, Dropped, Fetched, Responded, Began, Ran, RunFailed, Stored,
                StoreFailed, Ended, TypeOK
  <2>3. \A b \in Attempts : h[b].tick \in Ticks
    BY DEF TypeOK, Handler
  <2>4. QED
    BY <1>0, <2>1, <2>2, <2>3 DEF EarlyAnswer
<1>2. QED
  BY <1>1

\* The sessions of the prompts after a step of attempt a.
LEMMA StepSessions ==
  ASSUME NEW a \in Attempts, TypeOK, AttemptsOK, TurnsInv, Effect(a, h[a], h'[a])
  PROVE  InSessions' /\ Conversation'
<1> DEFINE g == h[a]
           n == h'[a]
<1> USE DEF TurnsInv, At
<1>0. /\ \A b \in Attempts : b # a => h'[b] = h[b]
      /\ AttemptOK(g, observed[a], cron)
      /\ g.session \in Nat
  BY DEF Effect, TypeOK, Handler, AttemptsOK
<1>1. ASSUME \A b \in Attempts : ~Unstored(b)'
      PROVE  \A b \in Attempts : ~Unstored(b)
  <2>1. Unstored(a) => Unstored(a)'
    BY <1>0 DEF Unstored, AttemptOK, Effect, Dropped, Fetched, Responded, Began, Ran, RunFailed,
                Stored, StoreFailed, Ended, Same, Kept
  <2>2. \A b \in Attempts : b # a => (Unstored(b)' <=> Unstored(b))
    BY <1>0 DEF Unstored
  <2>3. QED
    BY <1>1, <2>1, <2>2
<1>2. CASE Ran(g, n)
  <2>1. PICK r \in Run : r.what = g.pc /\ r.session = n.session /\ log' = Append(log, r)
    BY <1>2 DEF Ran
  <2>2. /\ Len(log) \in Nat /\ DOMAIN log = 1..Len(log)
        /\ DOMAIN log' = 1..(Len(log) + 1)
        /\ \A i \in 1..Len(log) : log'[i] = log[i]
        /\ log'[Len(log) + 1] = r
    BY <2>1, AppendFacts DEF TypeOK
  <2>3. \A i \in 1..(Len(log) + 1) : i \in 1..Len(log) \/ i = Len(log) + 1
    BY <2>2
  <2>4. InSessions'
    BY <1>2, <2>1, <2>2, <2>3 DEF InSessions, Ran
  <2>5. cron' = cron /\ \A b \in Attempts : ~At(b, "update")
    BY <1>2 DEF Ran, OneWorks, Working, Busy
  <2>6. ASSUME \A b \in Attempts : ~Unstored(b)', NEW i \in DOMAIN log', log'[i].what = "main"
        PROVE  \/ log'[i].session = cron'.context
               \/ \E b \in Attempts : h'[b].pc = "update" /\ log'[i].session = h'[b].session
    <3>1. CASE i \in 1..Len(log)
      BY <1>1, <2>2, <2>5, <2>6, <3>1 DEF Conversation
    <3>2. CASE i = Len(log) + 1
      <4>1. r.what = "main" /\ log'[i].session = n.session
        BY <2>1, <2>2, <2>6, <3>2
      <4>2. n.pc = "update"
        BY <1>2, <2>1, <4>1 DEF Ran
      <4>3. QED
        BY <4>1, <4>2
    <3>3. QED
      BY <2>2, <2>3, <2>6, <3>1, <3>2
  <2>7. Conversation'
    BY <2>6 DEF Conversation
  <2>8. QED
    BY <2>4, <2>7
<1>3. CASE Stored(g, n)
  <2>1. log' = log
    BY <1>3 DEF Stored
  <2>2. InSessions'
    BY <2>1 DEF InSessions
  <2>3. g.copy.context = cron.context /\ g.session # 0 /\ g.pc = "update"
    BY <1>0, <1>3 DEF Stored, CopyIsCurrent, Underway, AttemptOK
  <2>4. cron'.context = g.session
    BY <1>3, <2>3 DEF Stored, Merged, TypeOK, Cron
  <2>5. cron.context # 0 => g.session = cron.context
    BY <1>0, <2>3 DEF AttemptOK, Underway
  <2>6. \A b \in Attempts : At(b, "update") => b = a
    BY <2>3 DEF OneWorks, Working, Busy
  <2>7. Conversation'
    BY <1>1, <2>1, <2>4, <2>5, <2>6 DEF Conversation, InSessions
  <2>8. QED
    BY <2>2, <2>7
<1>4. CASE StoreFailed(g, n)
  <2>1. Unstored(a)'
    BY <1>0, <1>4 DEF StoreFailed, Unstored, AttemptOK
  <2>2. QED
    BY <1>4, <2>1 DEF StoreFailed, Still, InSessions, Conversation
<1>5. CASE ~Ran(g, n) /\ ~Stored(g, n) /\ ~StoreFailed(g, n)
  <2>1. log' = log /\ cron' = cron
    BY <1>5 DEF Effect, Dropped, Fetched, Responded, Began, RunFailed, Ended, Still
  <2>2. g.pc = "update" => n.pc = "update" /\ n.session = g.session
    BY <1>5 DEF Effect, Dropped, Fetched, Responded, Began, RunFailed, Ended
  <2>3. InSessions'
    BY <2>1 DEF InSessions
  <2>4. Conversation'
    BY <1>0, <1>1, <2>1, <2>2 DEF Conversation
  <2>5. QED
    BY <2>3, <2>4
<1>6. QED
  BY <1>2, <1>3, <1>4, <1>5

\* The session of a stored result after a step of attempt a.
LEMMA StepStored ==
  ASSUME NEW a \in Attempts, TypeOK, AttemptsOK, TurnsInv, Effect(a, h[a], h'[a])
  PROVE  StoredSession'
<1> DEFINE g == h[a]
           n == h'[a]
<1> USE DEF TurnsInv
<1>0. /\ \A b \in Attempts : b # a => h'[b] = h[b]
      /\ AttemptOK(g, observed[a], cron)
      /\ g.session \in Nat
  BY DEF Effect, TypeOK, Handler, AttemptsOK
<1>1. StoredSession'
  <2>1. \A b \in Attempts : h[b].stored => h[b].session # 0 /\ h[b].pc \notin {"get", "initial", "main", "update"}
    BY DEF AttemptsOK, AttemptOK
  <2>2. CASE Stored(g, n)
    <3>1. g.copy.context = cron.context /\ g.session # 0 /\ g.pc = "update"
      BY <1>0, <2>2 DEF Stored, CopyIsCurrent, Underway, AttemptOK
    <3>2. cron'.context = g.session /\ n.session = g.session
      BY <2>2, <3>1 DEF Stored, Merged, TypeOK, Cron
    <3>3. cron.context # 0 => g.session = cron.context
      BY <1>0, <3>1 DEF AttemptOK, Underway
    <3>4. QED
      BY <1>0, <2>1, <3>2, <3>3 DEF StoredSession
  <2>3. CASE ~Stored(g, n)
    <3>1. cron' = cron
      BY <2>3 DEF Effect, Dropped, Fetched, Responded, Began, Ran, RunFailed, StoreFailed, Ended,
                  Still
    <3>2. n.stored => g.stored /\ (n.session = g.session \/ g.pc \in {"get", "initial", "main"})
      BY <2>3 DEF Effect, Dropped, Fetched, Responded, Began, Ran, RunFailed, StoreFailed, Ended,
                  Same, Kept
    <3>3. QED
      BY <1>0, <2>1, <3>1, <3>2 DEF StoredSession
  <2>4. QED
    BY <2>2, <2>3
<1>2. QED
  BY <1>1

\* The setting says whether attempts take turns, and no step changes it.
LEMMA TurnsInvStep ==
  ASSUME TypeOK, AttemptsOK, TakeTurns, TurnsInv, [Next]_vars
  PROVE  /\ TurnsInv'
         /\ AnswersArrive /\ OnceInv => OnceInv'
<1>0. \A a \in Attempts : h[a] \in Handler
  BY DEF TypeOK
<1>1. ASSUME NEW a \in Attempts, Step(a)
      PROVE  TurnsInv' /\ (AnswersArrive /\ OnceInv => OnceInv')
  <2>1. Effect(a, h[a], h'[a])
    BY <1>1, StepEffect
  <2>2. OneWorks' /\ CopyIsCurrent'
    BY <2>1, StepTurn
  <2>3. AnswersArrive /\ OnceInv => OnceInv'
    BY <2>1, StepRuns, StepEarly DEF OnceInv
  <2>4. InSessions' /\ Conversation' /\ StoredSession'
    BY <2>1, StepSessions, StepStored
  <2>5. QED
    BY <2>2, <2>3, <2>4 DEF TurnsInv
<1>2. ASSUME NEW a \in Attempts, NEW k \in Ticks, Dispatch(a, k)
      PROVE  TurnsInv' /\ (AnswersArrive /\ OnceInv => OnceInv')
  <2>1. /\ h'[a].pc = "get" /\ h'[a].tick = k
        /\ h'[a].runErr = h[a].runErr /\ h'[a].failed = h[a].failed
        /\ h'[a].stored = h[a].stored
        /\ \A b \in Attempts : b # a => h'[b] = h[b]
        /\ UNCHANGED <<cron, task, log, setting>>
    BY <1>0, <1>2 DEF Dispatch, Become, Handler, TypeOK
  <2>2. /\ At(a, "idle") /\ task[k] = "queued"
        /\ \A b \in Attempts : ~Working(b)
    BY <1>2 DEF Dispatch, TakeTurns
  <2>3. ~h[a].stored
    BY <2>2 DEF AttemptsOK, AttemptOK, At
  <2>4. \A j : MainRuns(j)' = MainRuns(j)
    BY <2>1 DEF MainRuns
  <2>5. OneWorks' /\ CopyIsCurrent' /\ StoredSession'
    BY <2>1, <2>2, <2>3 DEF TurnsInv, OneWorks, CopyIsCurrent, StoredSession, Working, Busy,
                            Underway, At
  <2>6. InSessions' /\ Conversation'
    BY <2>1, <2>2 DEF TurnsInv, InSessions, Conversation, Unstored, At
  <2>7. ASSUME OnceInv
        PROVE  OnceInv'
    <3>1. MainRuns(k) = {}
      BY <2>2, <2>7 DEF OnceInv, RunIsAcked, WillAck, Working, Busy, At
    <3>2. NotYetRun' /\ RunOnce'
      BY <2>1, <2>4, <2>7, <3>1 DEF OnceInv, NotYetRun, RunOnce
    <3>3. RunIsAcked'
      BY <2>1, <2>2, <2>4, <2>7 DEF OnceInv, RunIsAcked, WillAck, At
    <3>4. EarlyAnswer'
      BY <2>1, <2>2, <2>7 DEF OnceInv, EarlyAnswer, Underway, At
    <3>5. QED
      BY <3>2, <3>3, <3>4 DEF OnceInv
  <2>8. QED
    BY <2>5, <2>6, <2>7 DEF TurnsInv
<1>3. ASSUME UNCHANGED <<h, log, setting>>, cron'.context = cron.context,
             \A k \in Ticks : task'[k] = "acked" <=> task[k] = "acked"
      PROVE  TurnsInv' /\ (AnswersArrive /\ OnceInv => OnceInv')
  <2>1. \A k : MainRuns(k)' = MainRuns(k)
    BY <1>3 DEF MainRuns
  <2>2. \A a \in Attempts : h[a].tick \in Ticks
    BY <1>0 DEF Handler
  <2>3. OneWorks' /\ CopyIsCurrent' /\ StoredSession'
    BY <1>3 DEF TurnsInv, OneWorks, CopyIsCurrent, StoredSession, Working, Busy, At
  <2>4. InSessions' /\ Conversation'
    BY <1>3 DEF TurnsInv, InSessions, Conversation, Unstored, At
  <2>5. ASSUME OnceInv
        PROVE  OnceInv'
    <3>1. NotYetRun' /\ RunOnce' /\ RunIsAcked'
      BY <1>3, <2>1, <2>5 DEF OnceInv, NotYetRun, RunOnce, RunIsAcked, WillAck, At
    <3>2. EarlyAnswer'
      BY <1>3, <2>2, <2>5 DEF OnceInv, EarlyAnswer
    <3>3. QED
      BY <3>1, <3>2 DEF OnceInv
  <2>6. QED
    BY <2>3, <2>4, <2>5 DEF TurnsInv
<1>4. ASSUME NEW k \in Ticks, Fire(k)
      PROVE  TurnsInv' /\ (AnswersArrive /\ OnceInv => OnceInv')
  <2>1. \A j \in Ticks : task'[j] = "acked" <=> task[j] = "acked"
    BY <1>4 DEF Fire, TypeOK
  <2>2. QED
    BY <1>3, <1>4, <2>1 DEF Fire
<1>5. CASE OwnerEdits
  <2>1. cron'.context = cron.context
    BY <1>5 DEF OwnerEdits, TypeOK, Cron
  <2>2. QED
    BY <1>3, <1>5, <2>1 DEF OwnerEdits
<1>6. ~Crash
  BY DEF Crash, Fault, TakeTurns
<1>7. CASE UNCHANGED vars
  BY <1>3, <1>7 DEF vars
<1>8. QED
  BY <1>1, <1>2, <1>4, <1>5, <1>6, <1>7 DEF Next, Rest

\* The setting never changes, so neither does what it promises.
LEMMA SettingStays ==
  ASSUME [Next]_vars
  PROVE  (TakeTurns' <=> TakeTurns) /\ (AnswersArrive' <=> AnswersArrive)
<1>1. setting' = setting
  BY DEF Next, Fire, Dispatch, Step, GetCron, Respond, Start, InitialRun, MainRun, UpdateCron,
         End, OwnerEdits, Crash, Rest, vars
<1>2. QED
  BY <1>1 DEF TakeTurns, AnswersArrive

\* Attempts that take turns run all prompts in one conversation and, if answers
\* arrive, each prompt once.
THEOREM TurnsInvariance ==
  Spec => []((TakeTurns => TurnsInv) /\ (TakeTurns /\ AnswersArrive => OnceInv))
<1>1. Init => TurnsInv /\ OnceInv
  BY DEF Init, TurnsInv, OnceInv, OneWorks, NotYetRun, EarlyAnswer, RunIsAcked, RunOnce,
         CopyIsCurrent, InSessions, Conversation, StoredSession, Working, Busy, Underway,
         MainRuns, At
<1>2. TypeOK /\ AttemptsOK /\ (TakeTurns => TurnsInv) /\ (TakeTurns /\ AnswersArrive => OnceInv)
        /\ [Next]_vars
        => ((TakeTurns => TurnsInv) /\ (TakeTurns /\ AnswersArrive => OnceInv))'
  BY SettingStays, TurnsInvStep
<1>3. QED
  BY <1>1, <1>2, TypeCorrect, AttemptsInvariance, PTL DEF Spec

\* A tick runs the prompt to its end at most once, unless the process dies,
\* attempts overlap, or a 200 does not arrive.
THEOREM NoTickRunsTwice == Spec => []NoDuplicateRun
<1>1. (TakeTurns /\ AnswersArrive => OnceInv) => NoDuplicateRun
  <2> SUFFICES ASSUME OnceInv, NEW k \in Ticks
               PROVE  Cardinality(MainRuns(k)) <= 1
    BY DEF NoDuplicateRun
  <2>1. CASE MainRuns(k) = {}
    BY <2>1, FS_EmptySet
  <2>2. CASE MainRuns(k) # {}
    <3>1. PICK i \in MainRuns(k) : MainRuns(k) = {i}
      BY <2>2 DEF OnceInv, RunOnce
    <3>2. Cardinality({i}) = 1
      BY FS_Singleton
    <3>3. QED
      BY <3>1, <3>2
  <2>3. QED
    BY <2>1, <2>2
<1>2. QED
  BY <1>1, TurnsInvariance, PTL

\* The prompts of a recurring cron all run in one conversation, as long as
\* attempts take turns and UpdateCron works: also those a lost 200 repeats.
THEOREM OneConversationOnly == Spec => []OneConversation
<1>1. AttemptsOK /\ (TakeTurns => TurnsInv) => OneConversation
  <2> SUFFICES ASSUME AttemptsOK, TurnsInv, \A a \in Attempts : ~Unstored(a),
                      NEW i \in DOMAIN log, NEW j \in DOMAIN log,
                      log[i].what = "main", log[j].what = "main"
               PROVE  log[i].session = log[j].session
    BY DEF OneConversation
  <2>1. \A l \in {i, j} :
          \/ log[l].session = cron.context
          \/ \E a \in Attempts : At(a, "update") /\ log[l].session = h[a].session
    BY DEF TurnsInv, Conversation
  <2>2. \A a, b \in Attempts : At(a, "update") /\ At(b, "update") => a = b
    BY DEF TurnsInv, OneWorks, Working, Busy, At
  <2>3. \A a \in Attempts : At(a, "update") /\ cron.context # 0 => h[a].session = cron.context
    BY DEF TurnsInv, CopyIsCurrent, AttemptsOK, AttemptOK, Underway, At
  <2>4. log[i].session # 0 /\ log[j].session # 0
    BY DEF TurnsInv, InSessions
  <2>5. QED
    BY <2>1, <2>2, <2>3, <2>4
<1>2. QED
  BY <1>1, AttemptsInvariance, TurnsInvariance, PTL

-----------------------------------------------------------------------------
(* What the observer hears.                                                 *)

\* Who is about to store a result, or has stored it, has run its prompt in the
\* session it stores.
ResultInv ==
  \A a \in Attempts : At(a, "update") \/ h[a].stored => Recorded(h[a].tick, h[a].session)

RecordedIn(l, k, session) ==
  \E i \in DOMAIN l : l[i].what = "main" /\ l[i].tick = k /\ l[i].session = session

\* No step of an attempt stores what is not in the log.
LEMMA ResultStep ==
  ASSUME NEW a \in Attempts, TypeOK, AttemptsOK, ResultInv, Effect(a, h[a], h'[a])
  PROVE  ResultInv'
<1> DEFINE g == h[a]
           n == h'[a]
<1>0. /\ \A b \in Attempts : b # a => h'[b] = h[b]
      /\ n.tick = g.tick /\ AttemptOK(g, observed[a], cron)
  BY DEF Effect, AttemptsOK
<1>1. CASE Ran(g, n)
  <2>1. PICK r \in Run : /\ r.what = g.pc /\ r.tick = g.tick /\ r.session = n.session
                         /\ log' = Append(log, r)
    BY <1>1 DEF Ran
  <2>2. /\ Len(log) \in Nat /\ DOMAIN log = 1..Len(log)
        /\ DOMAIN log' = 1..(Len(log) + 1)
        /\ \A i \in 1..Len(log) : log'[i] = log[i]
        /\ log'[Len(log) + 1] = r
    BY <2>1, AppendFacts DEF TypeOK
  <2>4. n.pc = "update" => RecordedIn(log', n.tick, n.session)
    <3>1. Len(log) + 1 \in DOMAIN log'
      BY <2>2
    <3>2. n.pc = "update" => g.pc = "main"
      BY <1>1 DEF Ran
    <3>3. n.pc = "update" => r.what = "main" /\ r.tick = n.tick /\ r.session = n.session
      BY <1>0, <2>1, <3>2
    <3>4. QED
      BY <2>2, <3>1, <3>3 DEF RecordedIn
  <2>5. ~n.stored
    BY <1>0, <1>1 DEF Ran, Kept, Same, AttemptOK
  <2>6. ASSUME NEW b \in Attempts, h'[b].pc = "update" \/ h'[b].stored
        PROVE  RecordedIn(log', h'[b].tick, h'[b].session)
    <3>1. CASE b = a
      BY <2>4, <2>5, <2>6, <3>1
    <3>2. CASE b # a
      <4>1. h'[b] = h[b]
        BY <1>0, <3>2
      <4>2. RecordedIn(log, h[b].tick, h[b].session)
        BY <2>6, <4>1 DEF ResultInv, Recorded, RecordedIn, At
      <4>3. QED
        BY <2>2, <4>1, <4>2 DEF RecordedIn
    <3>3. QED
      BY <3>1, <3>2
  <2>7. QED
    BY <2>6 DEF ResultInv, Recorded, RecordedIn, At
<1>2. CASE ~Ran(g, n)
  <2>1. log' = log
    BY <1>2 DEF Effect, Dropped, Fetched, Responded, Began, RunFailed, Stored, StoreFailed, Ended,
                Still
  <2>2. n.pc = "update" \/ n.stored =>
          /\ g.pc = "update" \/ g.stored
          /\ n.session = g.session \/ g.pc = "get"
    BY <1>2 DEF Effect, Dropped, Fetched, Responded, Began, RunFailed, Stored, StoreFailed, Ended,
                Same, Kept
  <2>3. ~(g.pc = "get" /\ g.stored)
    BY <1>0 DEF AttemptOK
  <2>4. QED
    BY <1>0, <2>1, <2>2, <2>3 DEF ResultInv, Recorded, At
<1>3. QED
  BY <1>1, <1>2

\* Nor does a crash, a dispatch or an edit.
THEOREM ResultInvariance == Spec => []ResultInv
<1>1. Init => ResultInv
  BY DEF Init, ResultInv, At
<1>2. TypeOK /\ AttemptsOK /\ ResultInv /\ [Next]_vars => ResultInv'
  <2> SUFFICES ASSUME TypeOK, AttemptsOK, ResultInv, [Next]_vars
               PROVE  ResultInv'
    OBVIOUS
  <2>0. \A a \in Attempts : h[a] \in Handler
    BY DEF TypeOK
  <2>1. ASSUME NEW a \in Attempts, Step(a)
        PROVE  ResultInv'
    BY <2>1, StepEffect, ResultStep
  <2>2. ASSUME log' = log,
               \A a \in Attempts :
                 \/ h'[a] = h[a]
                 \/ h'[a].pc = "get" /\ ~h'[a].stored
                 \/ /\ h'[a].pc = "dead" /\ h'[a].stored = h[a].stored
                    /\ h'[a].tick = h[a].tick /\ h'[a].session = h[a].session
        PROVE  ResultInv'
    BY <2>2 DEF ResultInv, Recorded, At
  <2>3. ASSUME NEW a \in Attempts, NEW k \in Ticks, Dispatch(a, k)
        PROVE  ResultInv'
    <3>1. ~h[a].stored
      BY <2>3 DEF Dispatch, AttemptsOK, AttemptOK, At
    <3>2. /\ h'[a].pc = "get" /\ ~h'[a].stored /\ log' = log
          /\ \A b \in Attempts : b # a => h'[b] = h[b]
      BY <2>0, <2>3, <3>1 DEF Dispatch, Become, Handler, TypeOK
    <3>3. QED
      BY <2>2, <3>2
  <2>4. CASE Crash
    <3>1. \A a \in Attempts :
            \/ h'[a] = h[a]
            \/ /\ h'[a].pc = "dead" /\ h'[a].stored = h[a].stored
               /\ h'[a].tick = h[a].tick /\ h'[a].session = h[a].session
      BY <2>0, <2>4 DEF Crash, Handler
    <3>2. QED
      BY <2>2, <2>4, <3>1 DEF Crash
  <2>5. CASE UNCHANGED <<h, log>>
    BY <2>2, <2>5
  <2>6. QED
    BY <2>1, <2>3, <2>4, <2>5 DEF Next, Fire, OwnerEdits, Rest, vars
<1>3. QED
  BY <1>1, <1>2, TypeCorrect, AttemptsInvariance, PTL DEF Spec

\* An attempt ends at most once for the observer, and well exactly when its own
\* result is stored: the prompt of its tick has run, the cron says so, and, when
\* attempts take turns, the cron's session is still the one it ran in.
THEOREM ObserverIsRight == Spec => []ObserverHearsStored
<1>1. AttemptsOK /\ ResultInv /\ (TakeTurns => TurnsInv) => ObserverHearsStored
  BY DEF AttemptsOK, AttemptOK, ResultInv, TurnsInv, StoredSession, ObserverHearsStored
<1>2. QED
  BY <1>1, AttemptsInvariance, ResultInvariance, TurnsInvariance, PTL
=============================================================================
