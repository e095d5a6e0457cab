----------------------------- MODULE WebLauncher -----------------------------
(***************************************************************************)
(* The web launcher (web/web.go) with the agui, lro and scheduler           *)
(* sublaunchers it composes, and an ADK built-in one (api).  Execute parses *)
(* the arguments, sets up the routes of the active sublaunchers, mounts the *)
(* gorilla router on the host mux, starts the server in a goroutine and     *)
(* waits for the context or the server.  The host may call Execute again on *)
(* the same launcher, whatever the last call returned.                      *)
(*                                                                          *)
(* A path is a sequence of segments, so that "/v1/", "/v1" and "v1" are     *)
(* <<"v1">>.  A flag and its value are one token.                           *)
(*                                                                          *)
(* An operator marked "Mutant" is wrong on purpose and used nowhere: put in *)
(* the place of the definition below it, it must break a property.          *)
(***************************************************************************)
EXTENDS Naturals, Sequences, SequencesExt, Loops

CONSTANTS
  Commands, \* sets of command lines, by name
  Hosts,    \* what the program around the launcher configures: see Host
  MaxOpen   \* bound: requests open at a time

Keywords == {"agui", "lro", "scheduler", "api"}
HostSubs == {"agui", "scheduler"}   \* those that implement HostRouteSetup

Paths == {<<>>, <<"v1">>, <<"agui">>}
Prefix == [root |-> "-path_prefix=/", v1 |-> "-path_prefix=v1/"]
FlagsOf ==
  [web |-> {"-port=80"}, agui |-> {Prefix.root, Prefix.v1},
   lro |-> {Prefix.root, Prefix.v1, "-service_id=s"},
   scheduler |-> {"-app_name=a"}, api |-> {}]
IsFlag(token) == \E k \in DOMAIN FlagsOf : token \in FlagsOf[k]
Tokens == Keywords \cup {"junk"} \cup UNION {FlagsOf[k] : k \in DOMAIN FlagsOf}

Host == [order : Seq(Keywords),            \* the arguments of NewLauncher
         commands : DOMAIN Commands,       \* what Execute may be called with
         executions : Nat,                 \* bound: how often
         sessions : BOOLEAN,               \* config.SessionService # nil
         loader : BOOLEAN,                 \* config.AgentLoader # nil
         apps : SUBSET HostSubs,           \* sublaunchers with an app name
         threads : BOOLEAN, capabilities : BOOLEAN, cors : BOOLEAN,  \* options of agui
         client : BOOLEAN, serviceID : BOOLEAN, lroPrefix : Paths,   \* options of lro
         service : BOOLEAN, identity : BOOLEAN,                      \* of scheduler
         grpc : {"none", "fresh",  \* registrar: none, or nothing registered on it;
                 "taken",  \* main registered the service on it, GetServiceInfo tells;
                 "blind"}] \* main did, but the registrar has no GetServiceInfo

ASSUME WebCommands == \A c \in DOMAIN Commands : Commands[c] \subseteq Seq(Tokens)
ASSUME WebHosts == Hosts \subseteq Host
ASSUME WebBound == MaxOpen \in Nat

VARIABLES
  host,       \* fixed
  launch,     \* Execute: where it is, what it parsed
  flags,      \* the values behind the FlagSets; they outlive an Execute
  config,     \* launcher.Config.SessionService: 0 is nil, 1 the host's
  once,       \* hostSetupOnce, setupOnce and their errors
  captured,   \* aguiLauncher.sessionService
  mux,        \* go.alis.build/mux: the patterns registered, process-wide
  grpc,       \* how often SchedulerService is registered on the host's registrar
  router,     \* the routes of this Run's gorilla router, in the order they are tried
  lro,        \* lroLauncher.client, and how many clients were built
  server,     \* http.Server
  go,         \* the goroutine of ListenAndServe, and errChan
  telemetry,  \* the OpenTelemetry providers
  ctxDone,    \* ctx is cancelled
  open        \* requests being served

setup == <<config, once, captured, mux, grpc, router, lro>>
serving == <<server, go, telemetry>>
vars == <<host, launch, flags, setup, serving, ctxDone, open>>

Init ==
  /\ host \in Hosts
  /\ launch = [pc |-> "idle", args |-> <<>>, rest |-> <<>>, active |-> {}, todo |-> <<>>,
               result |-> "none", times |-> 0]
  /\ flags = [agui |-> <<"agui">>, lro |-> host.lroPrefix, serviceID |-> host.serviceID,
              app |-> "scheduler" \in host.apps]
  /\ config = IF host.sessions THEN 1 ELSE 0
  /\ once = [k \in HostSubs |-> "new"]
  /\ captured = 0
  /\ mux = <<>>
  /\ grpc = IF host.grpc \in {"taken", "blind"} THEN 1 ELSE 0
  /\ router = <<>>
  /\ lro = [client |-> host.client, built |-> 0]
  /\ server = "new"
  /\ go = [pc |-> "none", errs |-> 0]
  /\ telemetry = "off"
  /\ ctxDone = FALSE
  /\ open = 0

-----------------------------------------------------------------------------
(* Execute and Parse.                                                       *)

At(p) == launch.pc = p
Step(p) == launch' = [launch EXCEPT !.pc = p]
Return(r) == launch' = [launch EXCEPT !.pc = "returned", !.result = r]

\* The host calls Execute, again after any return (or a panic it recovers).
Execute ==
  /\ At("idle") \/ At("returned")
  /\ launch.times < host.executions
  /\ \E args \in Commands[host.commands] :
       launch' = [pc |-> "flags", args |-> args, rest |-> args, active |-> {}, todo |-> <<>>,
                  result |-> "none", times |-> launch.times + 1]
  /\ UNCHANGED <<host, flags, setup, serving, ctxDone, open>>

\* flag.FlagSet.Parse takes the flags it knows, up to the first word.
OwnFlags(k, s) ==
  SubSeq(s, 1, CHOOSE n \in 0..Len(s) :
                 /\ \A i \in 1..n : s[i] \in FlagsOf[k]
                 /\ n < Len(s) => s[n + 1] \notin FlagsOf[k])
AfterFlags(k, s) == SubSeq(s, Len(OwnFlags(k, s)) + 1, Len(s))
BadFlag(k, s) == AfterFlags(k, s) # <<>> /\ IsFlag(Head(AfterFlags(k, s)))

\* Mutant: the trailing slash of a prefix stays.
SetRawFlag(f, k, token) ==
  CASE token = Prefix.v1 -> [f EXCEPT ![k] = <<"v1", "">>]
    [] token = "-service_id=s" -> [f EXCEPT !.serviceID = TRUE]
    [] token = "-app_name=a" -> [f EXCEPT !.app = TRUE]
    [] OTHER -> f
SetFlag(f, k, token) ==
  CASE token = Prefix.root -> [f EXCEPT ![k] = <<>>]
    [] token = Prefix.v1 -> [f EXCEPT ![k] = <<"v1">>]
    [] token = "-service_id=s" -> [f EXCEPT !.serviceID = TRUE]
    [] token = "-app_name=a" -> [f EXCEPT !.app = TRUE]
    [] OTHER -> f
SetFlags(k, s) ==
  LET own == OwnFlags(k, s)
      set[n \in 0..Len(own)] == IF n = 0 THEN flags ELSE SetFlag(set[n - 1], k, own[n])
  IN  set[Len(own)]

\* Keywords of the sublaunchers must differ; then come the flags of "web".
ParseWeb ==
  /\ At("flags")
  /\ IF IsInjective(host.order) /\ ~BadFlag("web", launch.rest)
       THEN launch' = [launch EXCEPT !.pc = "keyword", !.rest = AfterFlags("web", @)]
       ELSE Return("refused")
  /\ UNCHANGED <<host, flags, setup, serving, ctxDone, open>>

AtKeyword == launch.rest # <<>> /\ Head(launch.rest) \in Range(host.order)
\* Mutant: a keyword may come twice.
MayRepeat(k) == FALSE
Repeated(k) == k \in launch.active

\* One turn of the loop: a keyword and the flags of its sublauncher.
ParseKeyword ==
  /\ At("keyword") /\ AtKeyword
  /\ LET k == Head(launch.rest)
         s == Tail(launch.rest)
     IN  IF Repeated(k)
           THEN Return("refused") /\ UNCHANGED flags
           ELSE /\ flags' = SetFlags(k, s)
                /\ IF BadFlag(k, s)
                     THEN Return("refused")
                     ELSE launch' = [launch EXCEPT !.rest = AfterFlags(k, s),
                                                   !.active = @ \cup {k}]
  /\ UNCHANGED <<host, setup, serving, ctxDone, open>>

\* Mutant: an in-memory service for every Run.
NewSessionService == IF host.sessions THEN config ELSE launch.times + 1
\* A config without a session service gets one in memory, once.
SessionService == IF config = 0 THEN launch.times + 1 ELSE config

\* The loop is over: ErrorOnUnparsedArgs, then Run up to its first check.
BeginRun ==
  /\ At("keyword")
  /\ ~AtKeyword
  /\ IF launch.rest # <<>>
       THEN Return("refused") /\ UNCHANGED <<config, router>>
       ELSE /\ config' = SessionService
            /\ router' = <<>>
            /\ IF launch.active = {}
                 THEN Return("refused")
                 ELSE launch' = [launch EXCEPT !.pc = "host",
                        !.todo = Kept(host.order, launch.active)]
  /\ UNCHANGED <<host, flags, once, captured, mux, grpc, lro, serving, ctxDone, open>>

-----------------------------------------------------------------------------
(* Setup, in the order of NewLauncher's arguments.                          *)

Pattern(method, path, k) == [method |-> method, path |-> path, to |-> k]
Preflight(path) == IF host.cors THEN <<Pattern("OPTIONS", path, "cors")>> ELSE <<>>
If(b, s) == IF b THEN s ELSE <<>>

ThreadRoutes(thread) ==
  Preflight(thread) \o <<Pattern("GET", thread, "agui"), Pattern("DELETE", thread, "agui")>>

AguiRoutes ==
  LET p == flags.agui
      threads == Append(p, "threads")
      thread == Append(threads, "{threadId}")
      Route(method, path) == Preflight(path) \o <<Pattern(method, path, "agui")>>
  IN  Route("POST", Append(p, "run_sse")) \o Route("GET", Append(thread, "messages"))
      \o If(host.threads, ThreadRoutes(thread) \o Route("GET", threads))
      \o If(host.capabilities, Route("GET", Append(p, "capabilities")))
SchedulerRoutes ==
  <<Pattern("POST", <<"jsonrpc">>, "scheduler"), Pattern("OPTIONS", <<"jsonrpc">>, "cors"),
    Pattern("POST", <<"cron">>, "scheduler")>>
HostRoutes(k) == IF k = "agui" THEN AguiRoutes ELSE SchedulerRoutes

\* NewRuntime needs an AgentLoader, a SessionService and an app name.
NoRuntime(named) == ~host.loader \/ config = 0 \/ ~named
MountFails(k) ==
  IF k = "agui"
    THEN NoRuntime("agui" \in host.apps)
    ELSE ~host.service \/ ~host.identity \/ NoRuntime(flags.app)

\* A registrar that can be asked is not given the service twice.
RegisterGRPC ==
  IF host.grpc = "none" \/ (host.grpc # "blind" /\ grpc > 0) THEN grpc ELSE grpc + 1

\* What the sync.Once of a sublauncher and the error beside it hold after
\* SetupHostRoutes.  Mutants: there is no Once; there is no error beside it.
MountAgain(k) == IF MountFails(k) THEN "failed" ELSE "new"
OnceOnly(k) == "done"
Outcome(k) == IF MountFails(k) THEN "failed" ELSE "done"

\* HostRouteSetup, for the sublaunchers that implement it.  Nothing is
\* registered before the last check.
SetupHostRoutes ==
  /\ At("host")
  /\ LET k == Head(launch.todo)
         first == k \in HostSubs /\ once[k] = "new"
         mounts == first /\ ~MountFails(k)
         fails == k \in HostSubs /\ IF first THEN MountFails(k) ELSE once[k] = "failed"
     IN  /\ once' = IF first THEN [once EXCEPT ![k] = Outcome(k)] ELSE once
         /\ mux' = IF mounts THEN mux \o HostRoutes(k) ELSE mux
         /\ captured' = IF mounts /\ k = "agui" THEN config ELSE captured
         /\ grpc' = IF mounts /\ k = "scheduler" THEN RegisterGRPC ELSE grpc
         /\ IF fails THEN Return("setup") ELSE Step("sub")
  /\ UNCHANGED <<host, flags, config, router, lro, serving, ctxDone, open>>

Mounted(k, prefix) ==
  /\ router' = Append(router, [prefix |-> prefix, to |-> k])
  /\ launch' = [launch EXCEPT !.todo = Tail(@),
                  !.pc = IF Len(launch.todo) = 1 THEN "mount" ELSE "host"]

\* NewFromEnv; the client is kept for the next setup.
BuildClient == lro' = [client |-> TRUE, built |-> lro.built + 1]

\* SetupSubrouters: lro resolves its client and mounts a catch-all under its
\* prefix, agui and scheduler have nothing to do.
SetupSubrouter ==
  /\ At("sub")
  /\ LET k == Head(launch.todo)
     IN  \/ /\ k = "api" /\ Mounted(k, <<"api">>) /\ UNCHANGED lro
         \/ /\ k \in HostSubs /\ UNCHANGED <<router, lro>>
            /\ launch' = [launch EXCEPT !.todo = Tail(@),
                            !.pc = IF Len(launch.todo) = 1 THEN "mount" ELSE "host"]
         \/ /\ k = "lro" /\ lro.client /\ Mounted(k, flags.lro) /\ UNCHANGED lro
         \/ /\ k = "lro" /\ ~lro.client /\ flags.serviceID
            /\ \/ BuildClient /\ Mounted(k, flags.lro)
               \/ Return("setup") /\ UNCHANGED <<router, lro>>   \* NewFromEnv fails
         \/ /\ k = "lro" /\ ~lro.client /\ ~flags.serviceID
            /\ Return("setup") /\ UNCHANGED <<router, lro>>
  /\ UNCHANGED <<host, flags, config, once, captured, mux, grpc, serving, ctxDone, open>>

-----------------------------------------------------------------------------
(* The server.                                                              *)

\* HandleHTTP("/", router): the host mux panics on a pattern that it has.
Root == Pattern("ANY", <<>>, "router")
RootTaken == \E i \in DOMAIN mux : mux[i].method = Root.method /\ mux[i].path = Root.path

\* The router becomes the host mux's "/", a new server and its goroutine start.
StartServer ==
  /\ At("mount")
  /\ \/ /\ RootTaken
        /\ Return("panic") /\ UNCHANGED <<mux, server, go>>
     \/ /\ ~RootTaken
        /\ Step("telemetry")
        /\ mux' = Append(mux, Root)
        /\ server' = "starting"
        /\ go' = [go EXCEPT !.pc = "serve"]
  /\ UNCHANGED <<host, flags, config, once, captured, grpc, router, lro, telemetry, ctxDone,
                 open>>
\* It was this Run that did.
Started ==
  \/ launch.pc \in {"telemetry", "select", "shutdown"}
  \/ At("returned") /\ launch.result \in {"telemetry", "server", "shutdown", "nil"}

\* Mutant: an unbuffered channel.
Unbuffered == 0
Capacity == 1

\* ListenAndServe listens, cannot (the port is taken), or is told that the
\* server was shut down.
Listen ==
  /\ go.pc = "serve" /\ server = "starting"
  /\ \/ server' = "listening" /\ UNCHANGED go
     \/ server' = "failed" /\ go' = [go EXCEPT !.pc = "send"]
  /\ UNCHANGED <<host, launch, flags, setup, telemetry, ctxDone, open>>
ServerBreaks ==
  /\ server = "listening"
  /\ server' = "failed"
  /\ go' = [go EXCEPT !.pc = "send"]
  /\ UNCHANGED <<host, launch, flags, setup, telemetry, ctxDone, open>>
ServerClosed ==
  /\ go.pc = "serve" /\ server = "closed"
  /\ go' = [go EXCEPT !.pc = "close"]
  /\ UNCHANGED <<host, launch, flags, setup, server, telemetry, ctxDone, open>>
SendError ==
  /\ go.pc = "send"
  /\ go.errs < Capacity \/ At("select")
  /\ go' = [pc |-> "close", errs |-> go.errs + 1]
  /\ UNCHANGED <<host, launch, flags, setup, server, telemetry, ctxDone, open>>
CloseChannel ==
  /\ go.pc = "close"
  /\ go' = [go EXCEPT !.pc = "ended"]
  /\ UNCHANGED <<host, launch, flags, setup, server, telemetry, ctxDone, open>>

Request ==
  /\ \/ server = "listening" /\ open < MaxOpen /\ open' = open + 1
     \/ open > 0 /\ open' = open - 1
  /\ UNCHANGED <<host, launch, flags, setup, serving, ctxDone>>

Cancel ==
  /\ ~ctxDone
  /\ ctxDone' = TRUE
  /\ UNCHANGED <<host, launch, flags, setup, serving, open>>

-----------------------------------------------------------------------------
(* The rest of Run.                                                         *)

InitTelemetry ==
  /\ At("telemetry")
  /\ \/ telemetry' = "up" /\ Step("select")
     \/ Return("telemetry") /\ UNCHANGED telemetry
  /\ UNCHANGED <<host, flags, setup, server, go, ctxDone, open>>

\* ctx.Done: Shutdown closes the listener at once and then waits.
SelectDone ==
  /\ At("select") /\ ctxDone
  /\ Step("shutdown")
  /\ server' = "closed"
  /\ UNCHANGED <<host, flags, setup, go, telemetry, ctxDone, open>>
\* errChan: an error, or closed without one.
SelectServer ==
  /\ At("select") /\ (go.errs > 0 \/ go.pc = "ended")
  /\ IF go.errs > 0
       THEN Return("server") /\ go' = [go EXCEPT !.errs = @ - 1]
       ELSE Return("nil") /\ UNCHANGED go
  /\ UNCHANGED <<host, flags, setup, server, telemetry, ctxDone, open>>

\* Mutant: waits for the last request.
DrainedOnly == IF open = 0 THEN {"nil"} ELSE {}
\* The requests end, or shutdown-timeout passes.
ShutdownResult == IF open = 0 THEN {"nil"} ELSE {"shutdown"}
\* Mutant: the server's error is dropped.
LastError(serverErr, telemetryErr) == telemetryErr
Joined(serverErr, telemetryErr) == IF serverErr = "nil" THEN telemetryErr ELSE serverErr

\* Shutdown of the server, then of telemetry, whatever the first returned.
Shutdown ==
  /\ At("shutdown")
  /\ \E serverErr \in ShutdownResult, telemetryErr \in {"nil", "shutdown"} :
       Return(Joined(serverErr, telemetryErr))
  /\ telemetry' = "down"
  /\ UNCHANGED <<host, flags, setup, server, go, ctxDone, open>>

Launcher ==
  \/ ParseWeb \/ ParseKeyword \/ BeginRun \/ SetupHostRoutes \/ SetupSubrouter
  \/ StartServer \/ InitTelemetry \/ SelectDone \/ SelectServer \/ Shutdown
Goroutine == Listen \/ ServerClosed \/ SendError \/ CloseChannel
Next == Execute \/ Launcher \/ Goroutine \/ ServerBreaks \/ Request \/ Cancel

Spec == Init /\ [][Next]_vars
\* The scheduler of the Go runtime runs both goroutines; nobody has to send or
\* finish requests, to cancel the context or to call Execute.
FairSpec == Spec /\ WF_vars(Launcher) /\ WF_vars(Goroutine)

-----------------------------------------------------------------------------
(* What must hold.                                                          *)

\* Types.  Every other property is about several of these at a time.
TypeOK ==
  /\ host \in Hosts
  /\ launch \in [pc : {"idle", "flags", "keyword", "host", "sub", "mount", "telemetry",
                       "select", "shutdown", "returned"},
                 args : Commands[host.commands] \cup {<<>>}, rest : Seq(Tokens),
                 active : SUBSET Keywords, todo : Seq(Keywords),
                 result : {"none", "refused", "setup", "panic", "telemetry", "server",
                           "shutdown", "nil"},
                 times : 0..host.executions]
  /\ flags \in [agui : Paths, lro : Paths, serviceID : BOOLEAN, app : BOOLEAN]
  /\ config \in Nat /\ captured \in Nat
  /\ once \in [HostSubs -> {"new", "done", "failed"}]
  /\ \A i \in DOMAIN mux : mux[i].method \in {"GET", "POST", "DELETE", "OPTIONS", "ANY"}
  /\ grpc \in Nat
  /\ \A i \in DOMAIN router : router[i].prefix \in Paths \cup {<<"api">>}
  /\ lro \in [client : BOOLEAN, built : Nat]
  /\ server \in {"new", "starting", "listening", "failed", "closed"}
  /\ go \in [pc : {"none", "serve", "send", "close", "ended"}, errs : 0..Capacity]
  /\ telemetry \in {"off", "up", "down"}
  /\ ctxDone \in BOOLEAN
  /\ open \in 0..MaxOpen

\* The grammar: flags belong to the last keyword before them, keywords are
\* known and differ, and there is one.
Words(args) == {i \in DOMAIN args : ~IsFlag(args[i])}
OwnerOf(args, i) ==
  LET before == {j \in Words(args) : j < i}
  IN  IF before = {} THEN "web" ELSE args[CHOOSE j \in before : \A l \in before : l <= j]
WellFormed(args) ==
  /\ Words(args) # {}
  /\ \A i \in DOMAIN args :
       IF IsFlag(args[i])
         THEN OwnerOf(args, i) \in DOMAIN FlagsOf /\ args[i] \in FlagsOf[OwnerOf(args, i)]
         ELSE /\ args[i] \in Range(host.order)
              /\ \A j \in Words(args) : args[i] = args[j] => i = j

\* A command line is refused exactly when it is not well formed or two
\* sublaunchers share a keyword, and the keywords accepted are those of the
\* command line: the loop of Parse, which hands the rest of the arguments from
\* one FlagSet to the next, drops and steals nothing.  The line that README.md
\* and doc.go show is not well formed: see DocumentedLineRuns.
AcceptsTheGrammar ==
  LET good == WellFormed(launch.args) /\ IsInjective(host.order)
  IN  /\ At("returned") => (launch.result = "refused" <=> ~good)
      /\ ~At("idle") /\ ~At("flags") /\ ~At("keyword") /\ ~At("returned") =>
            /\ good
            /\ launch.active = {launch.args[i] : i \in Words(launch.args)}

\* The command line of README.md and doc.go, with a host like theirs.  Its
\* -service_id comes after the keyword scheduler, whose FlagSet has no such flag.
Documented ==
  <<"-port=80", "agui", "lro", "scheduler", "-service_id=s", "-app_name=a">>
DocumentedLineRuns == At("returned") /\ launch.args = Documented => launch.result # "refused"

\* However often the host retries, setting up registers no pattern on the host
\* mux that is there, which would panic.  Only the router itself can be: a retry
\* panics there when an earlier Run got as far as its server.  The launcher
\* registers the service on the gRPC server once, beside main only where it
\* cannot ask.
RegisteredOnce ==
  /\ IsInjective([i \in DOMAIN mux |-> <<mux[i].method, mux[i].path>>])
  /\ At("returned") /\ launch.result = "panic" => server # "new"
  /\ grpc <= IF host.grpc = "blind" THEN 2 ELSE 1

\* One session service and one LRO client per process: agui, which keeps the
\* service of its first setup, and the runtimes, which read the config, never
\* part, and a retry does not build a second client.
SharedServices ==
  /\ once["agui"] = "done" => captured = config
  /\ lro.built <= 1 /\ (host.client => lro.built = 0)

\* Which sublauncher answers a path: the patterns of the host mux are more
\* specific than "/", then the first gorilla route decides.  Behind the
\* catch-all of lro a ServeMux sees the whole path, prefix included.
Routes(path) == {i \in DOMAIN router : IsPrefix(router[i].prefix, path)}
Reached(path) ==
  LET patterns == {i \in DOMAIN mux : mux[i].path = path /\ mux[i].to # "cors"}
      r == router[CHOOSE i \in Routes(path) : \A j \in Routes(path) : i <= j]
  IN  IF patterns # {} THEN mux[CHOOSE i \in patterns : TRUE].to
      ELSE IF Routes(path) = {} \/ (r.to = "lro" /\ Head(path) # "resume-operation")
        THEN "nobody"
        ELSE r.to
Endpoints(k) ==
  CASE k = "agui" -> {Append(flags.agui, "run_sse")}
    [] k = "lro" -> {flags.lro \o <<"resume-operation", "{operation}">>}
    [] k = "scheduler" -> {<<"jsonrpc">>, <<"cron">>}
    [] k = "api" -> {<<"api", "run">>}

\* Not reached, although set up: lro under a prefix, and what is mounted on
\* the gorilla router after a catch-all at the root.
Position(k) == CHOOSE i \in DOMAIN host.order : host.order[i] = k
Shadowed ==
  {k \in {"lro"} : flags.lro # <<>>}
  \cup {k \in {"api"} : {"lro", "api"} \subseteq launch.active /\ flags.lro = <<>>
                         /\ Position("lro") < Position("api")}
\* Once the server of a Run listens, every sublauncher of its command line
\* answers its paths, but for those: lro/doc.go promises "resume-operation" also
\* under a prefix.
ServesEverything ==
  Started /\ server = "listening" =>
    \A k \in launch.active \ Shadowed : \A path \in Endpoints(k) : Reached(path) = k

\* What a Run that started its server leaves behind.  It returns nil only when
\* no request was cut; the server listens on only when telemetry could not
\* start, and telemetry stays up only when the server failed, not when a
\* Shutdown did.
ReturnLeavesNothing ==
  At("returned") /\ Started =>
    /\ launch.result = "nil" => open = 0
    /\ server \in {"starting", "listening"} => launch.result = "telemetry"
    /\ telemetry = "up" => launch.result = "server"

\* The goroutine never hangs on the channel, whether or not Run still reads it.
GoroutineEnds == server \in {"failed", "closed"} ~> go.pc = "ended"

\* A cancelled context or a failed server ends Run, also while a stream is open.
RunReturns == At("select") /\ (ctxDone \/ server = "failed") ~> At("returned")

=============================================================================
