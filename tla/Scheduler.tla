----------------------------- MODULE Scheduler -----------------------------
(***************************************************************************)
(* The Cloud Tasks callback of one cron (scheduler/execute.go, cron.go):    *)
(* cronHandler answers a dispatch of a task, executeCron runs the agent and *)
(* updates the cron.  Cloud Tasks keeps dispatching a task until one        *)
(* attempt answers 200; nothing keeps two attempts from running at once.    *)
(* Each action of a handler makes one call: SchedulerService, agent,        *)
(* observer or HTTP response.                                               *)
(*                                                                          *)
(* An operator marked "Mutant" is wrong on purpose and used nowhere: put in *)
(* the place of the definition below it, it must break a property.          *)
(***************************************************************************)
EXTENDS Naturals, Sequences, FiniteSets

CONSTANTS
  Ticks,      \* the tasks the cron's schedule creates
  Settings,   \* the settings of a behaviour: see Setting
  MaxAttempts, \* bound: the dispatches of those tasks
  MaxEdits    \* bound: how often the owner edits the cron

FaultKinds == {"get", "agent", "soft", "update", "response", "crash"}

Setting == [sync : BOOLEAN,              \* WithSynchronousExecution
            overlap : BOOLEAN,           \* may an attempt start while another one runs
            attempts : Nat,              \* bound: the dispatches of this behaviour
            faults : SUBSET FaultKinds,  \* what may fail
            maxFaults : Nat]             \* bound: how often

ASSUME SchedulerTicks == Ticks # {}
ASSUME SchedulerSettings == Settings \subseteq Setting
ASSUME SchedulerBounds == MaxAttempts \in Nat /\ MaxEdits \in Nat

\* The attempts, numbered in the order they are dispatched.
Attempts == 1..MaxAttempts

VARIABLES
  setting,   \* fixed when the launcher starts
  cron,      \* the stored cron
  task,      \* per tick: what Cloud Tasks thinks of it
  h,         \* per attempt: handler and executeCron
  observed,  \* per attempt: what the CronObserver heard
  log,       \* the agent runs that ended without an error, in order
  sessions,  \* how many ADK sessions were created; they are numbered from 1
  faults     \* how many faults have happened

vars == <<setting, cron, task, h, observed, log, sessions, faults>>

\* context_id 0 is the empty string.  `edit` stands for every field the owner
\* may change and the handler does not.
Cron == [type : {"cron", "at"}, state : {"active", "archived"}, context : Nat,
         prompt : {"text", "blank"}, initial : {"none", "blank", "text"},
         edit : Nat, ran : BOOLEAN]

Handler == [pc : {"idle", "get", "start", "initial", "main", "update", "end", "done", "dead"},
            tick : Ticks,
            copy : Cron,                             \* the cron GetCron returned
            session : Nat,                           \* sessionID
            runErr : BOOLEAN,                        \* runErr # nil
            failed : BOOLEAN,                        \* executeCron returns an error
            stored : BOOLEAN,                        \* UpdateCron succeeded (history)
            owes : {"later", "ok", "failed", "nothing"}]  \* the HTTP response

Run == [what : {"initial", "main"}, tick : Ticks, session : Nat, good : BOOLEAN]

Init ==
  /\ setting \in Settings
  /\ cron \in {c \in [type : {"cron", "at"}, state : {"active"}, context : {0},
                      prompt : {"text", "blank"}, initial : {"none", "blank", "text"},
                      edit : {0}, ran : {FALSE}] :
                 c.type = "at" => c.initial = "none"}
  /\ task = [k \in Ticks |-> "planned"]
  /\ h = [a \in Attempts |->
            [pc |-> "idle", tick |-> CHOOSE k \in Ticks : TRUE, copy |-> cron, session |-> 0,
             runErr |-> FALSE, failed |-> FALSE, stored |-> FALSE, owes |-> "later"]]
  /\ observed = [a \in Attempts |-> <<>>]
  /\ log = <<>>
  /\ sessions = 0
  /\ faults = 0

-----------------------------------------------------------------------------
(* Helpers.                                                                 *)

At(a, p) == h[a].pc = p
Become(a, new) == h' = [h EXCEPT ![a] = new]
Fault(f) == f \in setting.faults /\ faults < setting.maxFaults /\ faults' = faults + 1
NoFault == UNCHANGED faults

Busy(a) == h[a].pc \notin {"idle", "done", "dead"}
Working(a) == Busy(a) \/ (At(a, "done") /\ h[a].owes # "nothing")

-----------------------------------------------------------------------------
(* Cloud Tasks, the owner and the process: the environment.                 *)

\* The schedule fires.  A one-shot cron has one task.
Fire(k) ==
  /\ task[k] = "planned"
  /\ cron.state = "active"
  /\ cron.type = "at" => \A j \in Ticks : task[j] = "planned"
  /\ task' = [task EXCEPT ![k] = "queued"]
  /\ UNCHANGED <<setting, cron, h, observed, log, sessions, faults>>

\* A task nobody answered with 200 is dispatched, again if need be.
Dispatch(a, k) ==
  /\ At(a, "idle") /\ \A b \in 1..a-1 : ~At(b, "idle")
  /\ a <= setting.attempts
  /\ task[k] = "queued"
  /\ setting.overlap \/ \A b \in Attempts : ~Working(b)
  /\ Become(a, [h[a] EXCEPT !.pc = "get", !.tick = k])
  /\ UNCHANGED <<setting, cron, task, observed, log, sessions, faults>>

\* The owner edits or archives the cron at any time.
OwnerEdits ==
  /\ cron.edit < MaxEdits
  /\ \/ cron' = [cron EXCEPT !.edit = @ + 1]
     \/ cron' = [cron EXCEPT !.edit = @ + 1, !.state = "archived"]
  /\ UNCHANGED <<setting, task, h, observed, log, sessions, faults>>

\* The process dies: responses not yet written are never written.
Crash ==
  /\ \E a \in Attempts : Working(a)
  /\ Fault("crash")
  /\ h' = [a \in Attempts |->
             IF Working(a) THEN [h[a] EXCEPT !.pc = "dead", !.owes = "nothing"] ELSE h[a]]
  /\ UNCHANGED <<setting, cron, task, observed, log, sessions>>

-----------------------------------------------------------------------------
(* cronHandler.                                                             *)

\* The 500 of writeCronFailed and the 200 of writeCronOK.
Refuse(a) ==
  Become(a, [h[a] EXCEPT !.pc = "done", !.owes = "failed"])

\* Mutant: what is archived is an error.
AcknowledgeNot(a) ==
  Become(a, [h[a] EXCEPT !.pc = "done", !.owes = "failed"])
Acknowledge(a) ==
  Become(a, [h[a] EXCEPT !.pc = "done", !.owes = "ok"])

\* GetCron; the cron may be archived, without prompt or without owner.
GetCron(a) ==
  /\ At(a, "get")
  /\ \/ Fault("get") /\ Refuse(a)
     \/ cron.state = "archived" /\ Acknowledge(a) /\ NoFault
     \/ cron.state = "active" /\ cron.prompt = "blank" /\ Refuse(a) /\ NoFault
     \/ /\ cron.state = "active" /\ cron.prompt # "blank"
        /\ Become(a, [h[a] EXCEPT !.pc = "start", !.copy = cron, !.session = cron.context,
                                  !.owes = IF setting.sync THEN "later" ELSE "ok"])
        /\ NoFault
  /\ UNCHANGED <<setting, cron, task, observed, log, sessions>>

\* writeCronOK or writeCronFailed.  200 takes the task off the queue, if it gets
\* there: the server's write timeout or the dispatch deadline of Cloud Tasks may
\* have passed, and the error of the write is ignored.  In asynchronous mode
\* this races with the goroutine that runs the agent.
Respond(a) ==
  /\ h[a].owes \in {"ok", "failed"}
  /\ \/ /\ NoFault
        /\ task' = IF h[a].owes = "ok" THEN [task EXCEPT ![h[a].tick] = "acked"] ELSE task
     \/ /\ Fault("response")
        /\ UNCHANGED task
  /\ Become(a, [h[a] EXCEPT !.owes = "nothing"])
  /\ UNCHANGED <<setting, cron, observed, log, sessions>>

-----------------------------------------------------------------------------
(* executeCron.                                                             *)

\* OnCronStarted; initial_prompt runs first in a recurring cron's first session.
NeedsInitial(c) == c.type = "cron" /\ c.context = 0 /\ c.initial = "text"

Start(a) ==
  /\ At(a, "start")
  /\ observed' = [observed EXCEPT ![a] = Append(@, "started")]
  /\ Become(a, [h[a] EXCEPT !.pc = IF NeedsInitial(h[a].copy) THEN "initial" ELSE "main"])
  /\ UNCHANGED <<setting, cron, task, log, sessions, faults>>

\* The session a run uses: its own, or a new one.  Mutant: a new one's id anyway.
SessionOfNewRun(hd) == sessions + 1
SessionOf(hd) == IF hd.session = 0 THEN sessions + 1 ELSE hd.session

\* The agent fails: executeCron returns.  Mutant: only if it was the main run.
OnlyMainFails(hd) ==
  [hd EXCEPT !.pc = IF hd.pc = "initial" THEN "main" ELSE "end", !.runErr = TRUE, !.failed = TRUE]
AgentFailed(hd) == [hd EXCEPT !.pc = "end", !.runErr = TRUE, !.failed = TRUE]

\* RunUserMessage: without a session a new one is made.  Events that carry an
\* ErrorMessage are drained like any other, so such a run counts as a success.
RunUserMessage(a, what, next) ==
  LET session == SessionOf(h[a])
      Done(good) ==
        /\ log' = Append(log, [what |-> what, tick |-> h[a].tick,
                               session |-> session, good |-> good])
        /\ Become(a, [h[a] EXCEPT !.pc = next, !.session = session])
  IN
  /\ sessions' = IF h[a].session = 0 THEN sessions + 1 ELSE sessions
  /\ \/ NoFault /\ Done(TRUE)
     \/ Fault("soft") /\ Done(FALSE)
     \/ /\ Fault("agent")
        /\ Become(a, AgentFailed(h[a]))
        /\ UNCHANGED log

InitialRun(a) ==
  /\ At(a, "initial")
  /\ RunUserMessage(a, "initial", "main")
  /\ UNCHANGED <<setting, cron, task, observed>>

MainRun(a) ==
  /\ At(a, "main")
  /\ RunUserMessage(a, "main", "update")
  /\ UNCHANGED <<setting, cron, task, observed>>

\* What UpdateCron stores: the fields of the update mask, on the cron as it is now.
\* Mutants: the whole copy is written back; the context id is not in the mask.
MergedIntoCopy(stored, copy, session) ==
  [copy EXCEPT !.ran = TRUE, !.context = session,
               !.state = IF copy.type = "at" THEN "archived" ELSE @]
MergedSansContext(stored, copy, session) ==
  [stored EXCEPT !.ran = TRUE, !.state = IF copy.type = "at" THEN "archived" ELSE @]
Merged(stored, copy, session) ==
  [stored EXCEPT
     !.ran = TRUE,
     !.context = IF copy.context # session /\ session # 0 THEN session ELSE @,
     !.state = IF copy.type = "at" THEN "archived" ELSE @]

\* A failure is remembered for the observer and not returned.  Mutant: it is.
NotStoredFails(hd) == [hd EXCEPT !.pc = "end", !.runErr = TRUE, !.failed = TRUE]
NotStored(hd) == [hd EXCEPT !.pc = "end", !.runErr = TRUE]

UpdateCron(a) ==
  /\ At(a, "update")
  /\ \/ /\ NoFault
        /\ cron' = Merged(cron, h[a].copy, h[a].session)
        /\ Become(a, [h[a] EXCEPT !.pc = "end", !.stored = TRUE])
     \/ /\ Fault("update")
        /\ Become(a, NotStored(h[a]))
        /\ UNCHANGED cron
  /\ UNCHANGED <<setting, task, observed, log, sessions>>

\* What the observer hears.  Mutant: the error that is returned.
HeardReturned(hd) == IF hd.failed THEN "failed" ELSE "finished"
Heard(hd) == IF hd.runErr THEN "failed" ELSE "finished"

\* What a synchronous handler answers.  Mutant: 200, whatever happened.
AnswerOK(hd) == "ok"
Answer(hd) == IF hd.failed THEN "failed" ELSE "ok"

\* OnCronFinished, deferred; a synchronous handler now knows its answer.
End(a) ==
  /\ At(a, "end")
  /\ observed' = [observed EXCEPT ![a] = Append(@, Heard(h[a]))]
  /\ Become(a, [h[a] EXCEPT
       !.pc = "done",
       !.owes = IF setting.sync THEN Answer(h[a]) ELSE @])
  /\ UNCHANGED <<setting, cron, task, log, sessions, faults>>

Step(a) ==
  \/ GetCron(a) \/ Respond(a)
  \/ Start(a) \/ InitialRun(a) \/ MainRun(a) \/ UpdateCron(a) \/ End(a)

\* Nothing is left to do, or the bound on attempts is reached.
Rest ==
  /\ \A a \in Attempts : ~Working(a)
  /\ \/ \A a \in Attempts : a <= setting.attempts => ~At(a, "idle")
     \/ \A k \in Ticks : task[k] # "queued"
  /\ UNCHANGED vars

Next ==
  \/ \E k \in Ticks : Fire(k)
  \/ \E a \in Attempts : Step(a) \/ \E k \in Ticks : Dispatch(a, k)
  \/ OwnerEdits
  \/ Crash
  \/ Rest

Spec == Init /\ [][Next]_vars

\* Goroutines are scheduled, and Cloud Tasks dispatches what is queued.
FairSpec ==
  /\ Spec
  /\ \A a \in Attempts : WF_vars(Step(a))
  /\ WF_vars(\E a \in Attempts, k \in Ticks : Dispatch(a, k))

-----------------------------------------------------------------------------
(* Properties.                                                              *)

TypeOK ==
  /\ setting \in Settings
  /\ cron \in Cron
  /\ task \in [Ticks -> {"planned", "queued", "acked"}]
  /\ h \in [Attempts -> Handler]
  /\ cron.context <= sessions /\ \A a \in Attempts : h[a].session <= sessions
  /\ observed \in [Attempts -> Seq({"started", "finished", "failed"})]
  /\ log \in Seq(Run)
  /\ sessions \in Nat
  /\ faults \in Nat

MainRuns(k) == {i \in DOMAIN log : log[i].what = "main" /\ log[i].tick = k}

\* Attempts do not overlap, and the process does not die under one.
TakeTurns == ~setting.overlap /\ "crash" \notin setting.faults
AnswersArrive == "response" \notin setting.faults

\* A tick runs the prompt to its end at most once.  execute.go:149-151 gives this
\* as the reason UpdateCron failures are not returned.  Three things can still do
\* it twice: a crash, an attempt dispatched while another runs, and a 200 that
\* never arrives, which a long synchronous run makes likely (web.go:209).
NoDuplicateRun ==
  TakeTurns /\ AnswersArrive => \A k \in Ticks : Cardinality(MainRuns(k)) <= 1

\* In synchronous mode a tick leaves the queue only when its prompt ran, or
\* when the cron is archived: crashes and failures lead to another attempt.
NoTickLost ==
  setting.sync => \A k \in Ticks :
    task[k] = "acked" => MainRuns(k) # {} \/ cron.state = "archived"

\* Every prompt of a recurring cron with an initial prompt runs in a session
\* that began with the initial prompt, whichever attempts failed before.
MainFollowsInitial ==
  \A i \in DOMAIN log :
    cron.type = "cron" /\ cron.initial = "text" /\ log[i].what = "main"
      => \E j \in 1..i-1 : log[j].what = "initial" /\ log[j].session = log[i].session

\* The prompts of a recurring cron all run in one conversation, as long as
\* attempts take turns and UpdateCron works: also those a lost 200 repeats.
Unstored(a) == h[a].runErr /\ ~h[a].failed
OneConversation ==
  TakeTurns /\ (\A a \in Attempts : ~Unstored(a)) => \A i, j \in DOMAIN log :
    log[i].what = "main" /\ log[j].what = "main" => log[i].session = log[j].session

\* What the owner did while the agent was running is still there after UpdateCron:
\* an archived cron stays archived and no edit is undone.
OwnerWins ==
  [][/\ cron'.edit >= cron.edit
     /\ cron.state = "archived" => cron'.state = "archived"]_cron

\* An attempt ends at most once for the observer, and well exactly when its own
\* result is stored: the prompt of its tick has run, the cron says so, and, when
\* attempts take turns, the cron's session is still the one it ran in.
Recorded(k, session) ==
  \E i \in DOMAIN log : log[i].what = "main" /\ log[i].tick = k /\ log[i].session = session
ObserverHearsStored ==
  \A a \in Attempts :
    /\ observed[a] \in {<<>>, <<"started">>, <<"started", "finished">>, <<"started", "failed">>}
    /\ observed[a] = <<"started", "finished">> => h[a].stored
    /\ observed[a] = <<"started", "failed">> => ~h[a].stored
    /\ h[a].stored => /\ cron.ran /\ Recorded(h[a].tick, h[a].session)
                      /\ TakeTurns => cron.context = h[a].session

\* execute.go:88 "TYPE_AT archival after a successful run".
ArchivedAfterSuccess ==
  cron.type = "at" /\ cron.state = "archived" /\ cron.edit = 0
    => \E i \in DOMAIN log : log[i].what = "main" /\ log[i].good

\* A queued tick of a cron with a prompt is eventually taken off the queue,
\* because fewer faults happen than there are attempts.
EveryTickSettles ==
  \A k \in Ticks : TakeTurns /\ task[k] = "queued" /\ cron.prompt = "text" ~> task[k] = "acked"
=============================================================================
