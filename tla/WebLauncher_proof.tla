------------------------- MODULE WebLauncher_proof -------------------------
(***************************************************************************)
(* Theorems about WebLauncher, for all command lines and hosts: what a Run  *)
(* that returned leaves behind, what the sublaunchers share, what is        *)
(* registered, which command lines are accepted, and who answers a path.    *)
(***************************************************************************)
EXTENDS WebLauncher, LoopTheorems

\* launch, lro and go are records, whatever their fields hold.
IsLaunch(l) ==
  /\ l = [pc |-> l.pc, args |-> l.args, rest |-> l.rest, active |-> l.active,
          todo |-> l.todo, result |-> l.result, times |-> l.times]
  /\ l.times \in Nat
Records ==
  /\ IsLaunch(launch)
  /\ lro = [client |-> lro.client, built |-> lro.built]
  /\ go = [pc |-> go.pc, errs |-> go.errs]

Preparing == {"idle", "flags", "keyword", "host", "sub", "mount"}

\* The goroutine: it has one thing to say when the server failed, and no one
\* but Run takes it out of the channel.
GoInv ==
  /\ server = "new" => go.pc = "none" /\ go.errs = 0 /\ telemetry = "off"
  /\ server \in {"starting", "listening"} => go.pc = "serve" /\ go.errs = 0
  /\ server = "failed" =>
       \/ go.pc = "send" /\ go.errs = 0
       \/ go.pc \in {"close", "ended"} /\ go.errs = 1
       \/ go.pc \in {"close", "ended"} /\ go.errs = 0 /\ ~At("telemetry") /\ ~At("select")

\* Run: how far the server and telemetry are at each step of a Run that started
\* them.
RunInv ==
  /\ At("telemetry") => server \in {"starting", "listening", "failed"} /\ telemetry = "off"
  /\ At("select") => server \in {"starting", "listening", "failed"} /\ telemetry = "up"
  /\ At("shutdown") => server = "closed" /\ telemetry = "up"
  /\ At("returned") =>
       \/ launch.result \in {"refused", "setup"}
       \/ launch.result = "panic" /\ server # "new"
       \/ /\ launch.result = "telemetry" /\ telemetry = "off"
          /\ server \in {"starting", "listening", "failed"}
       \/ launch.result = "server" /\ server = "failed"
       \/ launch.result = "shutdown" /\ server = "closed" /\ telemetry = "down"
       \/ launch.result = "nil" /\ server = "closed" /\ telemetry = "down" /\ open = 0

Program == Preparing \cup {"telemetry", "select", "shutdown", "returned"}

LaunchInv == Records /\ launch.pc \in Program /\ open \in Nat /\ GoInv /\ RunInv

\* The host mux has the router once there was a server.
RootInv == server # "new" <=> RootTaken

-----------------------------------------------------------------------------
(* The steps.                                                               *)

\* A step of Run changes launch by EXCEPT.
LEMMA LaunchChanges ==
  ASSUME Records
  PROVE  /\ \A p : Step(p) =>
              IsLaunch(launch') /\ launch'.pc = p /\ launch'.result = launch.result
         /\ \A r : Return(r) =>
              IsLaunch(launch') /\ launch'.pc = "returned" /\ launch'.result = r
         /\ \A p, s : launch' = [launch EXCEPT !.pc = p, !.rest = s] =>
              IsLaunch(launch') /\ launch'.pc = p
         /\ \A s, a : launch' = [launch EXCEPT !.rest = s, !.active = a] =>
              IsLaunch(launch') /\ launch'.pc = launch.pc
         /\ \A p, t : launch' = [launch EXCEPT !.todo = t, !.pc = p] =>
              IsLaunch(launch') /\ launch'.pc = p
         /\ \A p, t : launch' = [launch EXCEPT !.pc = p, !.todo = t] =>
              IsLaunch(launch') /\ launch'.pc = p
BY DEF Records, IsLaunch, Step, Return

\* Until its server is started a step of Run goes on to prepare, or returns
\* with an error of its own, and leaves the rest alone.
Prepared ==
  /\ UNCHANGED <<host, server, go, telemetry, ctxDone, open>>
  /\ IsLaunch(launch')
  /\ \/ launch'.pc \in Preparing
     \/ launch'.pc = "returned" /\ launch'.result \in {"refused", "setup"}

\* The steps that parse and set up the host routes do that.
LEMMA PrepareStep ==
  ASSUME Records, ParseWeb \/ ParseKeyword \/ BeginRun \/ SetupHostRoutes
  PROVE  launch.pc \in Preparing /\ Prepared
<1> USE LaunchChanges DEF Records, At, Preparing
<1>1. /\ launch.pc \in Preparing
      /\ UNCHANGED <<host, server, go, telemetry, ctxDone, open>>
  BY DEF ParseWeb, ParseKeyword, BeginRun, SetupHostRoutes, serving
<1>2. ASSUME NEW r \in {"refused", "setup"}, Return(r)
      PROVE  Prepared
  BY <1>1, <1>2 DEF Prepared
<1> USE DEF Prepared
<1>3. CASE ParseWeb
  <2>1. \/ Return("refused")
        \/ launch' = [launch EXCEPT !.pc = "keyword", !.rest = AfterFlags("web", @)]
    BY <1>3 DEF ParseWeb
  <2>2. QED
    BY <1>1, <1>2, <2>1
<1>4. CASE ParseKeyword
  <2>1. \/ Return("refused")
        \/ \E t, a : launch' = [launch EXCEPT !.rest = t, !.active = a]
    BY <1>4 DEF ParseKeyword
  <2>2. QED
    BY <1>1, <1>2, <2>1
<1>5. CASE BeginRun
  <2>1. \/ Return("refused")
        \/ \E t : launch' = [launch EXCEPT !.pc = "host", !.todo = t]
    BY <1>5 DEF BeginRun
  <2>2. QED
    BY <1>1, <1>2, <2>1
<1>6. CASE SetupHostRoutes
  <2>1. Return("setup") \/ Step("sub")
    BY <1>6 DEF SetupHostRoutes
  <2>2. QED
    BY <1>1, <1>2, <2>1
<1>7. QED
  BY <1>3, <1>4, <1>5, <1>6

\* So does the setup of a subrouter, which builds a client only where none is.
LEMMA SubrouterStep ==
  ASSUME Records, SetupSubrouter
  PROVE  /\ launch.pc \in Preparing /\ Prepared
         /\ \/ lro' = lro
            \/ ~lro.client /\ lro' = [client |-> TRUE, built |-> lro.built + 1]
<1>1. /\ launch.pc \in Preparing
      /\ UNCHANGED <<host, server, go, telemetry, ctxDone, open>>
  BY DEF SetupSubrouter, serving, At, Preparing
<1>2. \/ Return("setup")
      \/ \E p \in {"mount", "host"} : launch' = [launch EXCEPT !.todo = Tail(@), !.pc = p]
  BY DEF SetupSubrouter, Mounted
<1>3. Prepared
  <2>1. CASE Return("setup")
    BY <1>1, <2>1, LaunchChanges DEF Prepared, Records
  <2>2. CASE \E p \in {"mount", "host"} : launch' = [launch EXCEPT !.todo = Tail(@), !.pc = p]
    BY <1>1, <2>2, LaunchChanges DEF Prepared, Records, Preparing
  <2>3. QED
    BY <1>2, <2>1, <2>2
<1>4. \/ lro' = lro
      \/ ~lro.client /\ lro' = [client |-> TRUE, built |-> lro.built + 1]
  BY DEF SetupSubrouter, BuildClient
<1>5. QED
  BY <1>1, <1>3, <1>4

\* So does a new Execute.
LEMMA ExecuteStep ==
  ASSUME Records, Execute
  PROVE  (At("idle") \/ At("returned")) /\ Prepared
BY DEF Records, IsLaunch, Execute, Prepared, Preparing, setup, serving, At

\* What Prepared means for the invariant.
LEMMA PreparedKeeps ==
  ASSUME LaunchInv, Prepared, lro' = [client |-> lro'.client, built |-> lro'.built]
  PROVE  LaunchInv'
<1>1. Records' /\ launch'.pc \in Program /\ open' \in Nat
  BY DEF LaunchInv, Records, Prepared, Program
<1>2. GoInv'
  BY DEF LaunchInv, GoInv, Prepared, At, Preparing
<1>3. RunInv'
  BY DEF RunInv, Prepared, At, Preparing
<1>4. QED
  BY <1>1, <1>2, <1>3 DEF LaunchInv

\* A step of the server, its goroutine, a client or the host leaves Run alone.
LEMMA OthersKeep ==
  ASSUME LaunchInv, Goroutine \/ ServerBreaks \/ Request \/ Cancel
  PROVE  LaunchInv'
<1> USE DEF LaunchInv, Records, setup, serving
<1>1. CASE Listen
  BY <1>1 DEF Listen, GoInv, RunInv, At, Program, Preparing
<1>2. CASE ServerClosed
  BY <1>2 DEF ServerClosed, GoInv, RunInv, At, Program, Preparing
<1>3. CASE SendError
  BY <1>3 DEF SendError, Capacity, GoInv, RunInv, At, Program, Preparing
<1>4. CASE CloseChannel
  BY <1>4 DEF CloseChannel, GoInv, RunInv, At, Program, Preparing
<1>5. CASE ServerBreaks
  BY <1>5 DEF ServerBreaks, GoInv, RunInv, At, Program, Preparing
<1>6. CASE Request
  BY <1>6 DEF Request, GoInv, RunInv, At, Program, Preparing
<1>7. CASE Cancel
  BY <1>7 DEF Cancel, GoInv, RunInv, At, Program, Preparing
<1>8. QED
  BY <1>1, <1>2, <1>3, <1>4, <1>5, <1>6, <1>7 DEF Goroutine

\* The rest of Run.
LEMMA ServingKeeps ==
  ASSUME LaunchInv, RootInv,
         StartServer \/ InitTelemetry \/ SelectDone \/ SelectServer \/ Shutdown
  PROVE  LaunchInv'
<1> USE DEF At, Program, Preparing, setup, serving
<1>1. /\ Records /\ IsLaunch(launch) /\ open \in Nat /\ GoInv /\ RunInv
      /\ lro = [client |-> lro.client, built |-> lro.built]
      /\ go = [pc |-> go.pc, errs |-> go.errs]
  BY DEF LaunchInv, Records
<1>2. CASE StartServer
  <2>1. UNCHANGED <<lro, telemetry, open>>
    BY <1>2 DEF StartServer
  <2>2. CASE RootTaken
    <3>1. /\ IsLaunch(launch') /\ launch'.pc = "returned" /\ launch'.result = "panic"
          /\ UNCHANGED <<server, go>> /\ server # "new"
      BY <1>1, <1>2, <2>2, LaunchChanges DEF StartServer, RootInv
    <3>2. QED
      BY <1>1, <2>1, <3>1 DEF LaunchInv, Records, GoInv, RunInv
  <2>3. CASE ~RootTaken
    <3>1. /\ IsLaunch(launch') /\ launch'.pc = "telemetry" /\ server' = "starting"
          /\ server = "new" /\ go' = [go EXCEPT !.pc = "serve"]
      BY <1>1, <1>2, <2>3, LaunchChanges DEF StartServer, RootInv
    <3>2. go' = [pc |-> "serve", errs |-> 0] /\ telemetry = "off"
      BY <1>1, <3>1 DEF GoInv
    <3>3. QED
      BY <1>1, <2>1, <3>1, <3>2 DEF LaunchInv, Records, GoInv, RunInv
  <2>4. QED
    BY <2>2, <2>3
<1>3. CASE InitTelemetry
  <2>1. /\ UNCHANGED <<lro, server, go, open>> /\ launch.pc = "telemetry"
        /\ server \in {"starting", "listening", "failed"} /\ telemetry = "off"
    BY <1>1, <1>3 DEF InitTelemetry, RunInv
  <2>2. /\ IsLaunch(launch')
        /\ \/ launch'.pc = "select" /\ telemetry' = "up"
           \/ launch'.pc = "returned" /\ launch'.result = "telemetry" /\ telemetry' = "off"
    BY <1>1, <1>3, <2>1, LaunchChanges DEF InitTelemetry
  <2>3. GoInv'
    BY <1>1, <2>1, <2>2 DEF GoInv
  <2>4. QED
    BY <1>1, <2>1, <2>2, <2>3 DEF LaunchInv, Records, RunInv
<1>4. CASE SelectDone
  <2>1. /\ IsLaunch(launch') /\ launch'.pc = "shutdown" /\ server' = "closed"
        /\ UNCHANGED <<lro, go, telemetry, open>> /\ telemetry = "up"
    BY <1>1, <1>4, LaunchChanges DEF SelectDone, RunInv
  <2>2. QED
    BY <1>1, <2>1 DEF LaunchInv, Records, GoInv, RunInv
<1>5. CASE SelectServer
  \* A channel that is closed without an error is that of a Shutdown, which
  \* only comes after the select.
  <2>1. go.errs = 1 /\ server = "failed" /\ go.pc \in {"close", "ended"} /\ go.errs > 0
    BY <1>1, <1>5 DEF SelectServer, GoInv, RunInv
  <2>2. Return("server") /\ go' = [pc |-> go.pc, errs |-> 0]
        /\ UNCHANGED <<server, telemetry, open, lro>>
    BY <1>1, <1>5, <2>1 DEF SelectServer
  <2>3. IsLaunch(launch') /\ launch'.pc = "returned" /\ launch'.result = "server"
    BY <1>1, <2>2, LaunchChanges
  <2>4. QED
    BY <1>1, <2>1, <2>2, <2>3 DEF LaunchInv, Records, GoInv, RunInv
<1>6. CASE Shutdown
  <2>1. PICK serverErr \in ShutdownResult, telemetryErr \in {"nil", "shutdown"} :
          Return(Joined(serverErr, telemetryErr))
    BY <1>6 DEF Shutdown
  <2>2. /\ Joined(serverErr, telemetryErr) \in {"nil", "shutdown"}
        /\ Joined(serverErr, telemetryErr) = "nil" => open = 0
    BY <2>1 DEF Joined, ShutdownResult
  <2>3. /\ server = "closed" /\ server' = "closed" /\ telemetry' = "down"
        /\ UNCHANGED <<lro, go, open>>
    BY <1>1, <1>6 DEF Shutdown, RunInv
  <2>4. /\ IsLaunch(launch') /\ launch'.pc = "returned"
        /\ launch'.result = Joined(serverErr, telemetryErr)
    BY <1>1, <2>1, LaunchChanges
  <2>5. GoInv' /\ RunInv'
    BY <2>2, <2>3, <2>4 DEF GoInv, RunInv
  <2>6. QED
    BY <1>1, <2>3, <2>4, <2>5 DEF LaunchInv, Records
<1>7. QED
  BY <1>2, <1>3, <1>4, <1>5, <1>6

\* Every step keeps the invariant.
LEMMA LaunchStep ==
  ASSUME LaunchInv, RootInv, [Next]_vars
  PROVE  LaunchInv'
<1>1. CASE Execute
  <2>1. lro' = lro
    BY <1>1 DEF Execute, setup
  <2>2. QED
    BY <1>1, <2>1, ExecuteStep, PreparedKeeps DEF LaunchInv, Records
<1>2. CASE ParseWeb \/ ParseKeyword \/ BeginRun \/ SetupHostRoutes
  <2>1. lro' = lro
    BY <1>2 DEF ParseWeb, ParseKeyword, BeginRun, SetupHostRoutes, setup
  <2>2. QED
    BY <1>2, <2>1, PrepareStep, PreparedKeeps DEF LaunchInv, Records
<1>3. CASE SetupSubrouter
  <2>1. lro' = [client |-> lro'.client, built |-> lro'.built]
    BY <1>3, SubrouterStep DEF LaunchInv, Records
  <2>2. QED
    BY <1>3, <2>1, SubrouterStep, PreparedKeeps DEF LaunchInv
<1>4. CASE StartServer \/ InitTelemetry \/ SelectDone \/ SelectServer \/ Shutdown
  BY <1>4, ServingKeeps
<1>5. CASE Goroutine \/ ServerBreaks \/ Request \/ Cancel
  BY <1>5, OthersKeep
<1>6. CASE UNCHANGED vars
  BY <1>6 DEF vars, setup, serving, LaunchInv, Records, GoInv, RunInv, At
<1>7. QED
  BY <1>1, <1>2, <1>3, <1>4, <1>5, <1>6 DEF Next, Launcher

-----------------------------------------------------------------------------
(* Flags.                                                                   *)

\* flag.FlagSet.Parse: the longest prefix of flags it knows, and what is after it.
LEMMA OwnFlagsAre ==
  ASSUME NEW k, NEW s \in Seq(Tokens)
  PROVE  LET n == Len(OwnFlags(k, s))
         IN  /\ n \in 0..Len(s)
             /\ \A i \in 1..n : OwnFlags(k, s)[i] = s[i] /\ s[i] \in FlagsOf[k]
             /\ n < Len(s) => s[n + 1] \notin FlagsOf[k]
             /\ AfterFlags(k, s) \in Seq(Tokens)
             /\ Len(AfterFlags(k, s)) = Len(s) - n
             /\ \A i \in 1..(Len(s) - n) : AfterFlags(k, s)[i] = s[n + i]
<1> DEFINE N == Len(s)
           Own == FlagsOf[k]
           Ends(n) == /\ \A i \in 1..n : s[i] \in Own
                      /\ n < N => s[n + 1] \notin Own
           T == {m \in 0..N : (\A i \in 1..m : s[i] \in Own) \/ \E n \in 0..N : Ends(n)}
           own == CHOOSE n \in 0..N : Ends(n)
<1>1. N \in Nat
  OBVIOUS
<1>2. \E n \in 0..N : Ends(n)
  <2>1. 0 \in T
    BY <1>1
  <2>2. ASSUME NEW m \in 1..N, m - 1 \in T
        PROVE  m \in T
    <3>1. CASE \E n \in 0..N : Ends(n)
      <4> HIDE DEF Ends
      <4>1. QED
        BY <1>1, <3>1
    <3>2. CASE \A i \in 1..(m - 1) : s[i] \in Own
      <4>1. CASE s[m] \in Own
        <5>1. \A i \in 1..m : s[i] \in Own
          BY <3>2, <4>1
        <5> HIDE DEF Own
        <5>2. QED
          BY <1>1, <5>1
      <4>2. CASE s[m] \notin Own
        <5>1. Ends(m - 1) /\ m - 1 \in 0..N
          BY <1>1, <3>2, <4>2
        <5> HIDE DEF Ends
        <5>2. QED
          BY <1>1, <5>1
      <4>3. QED
        BY <4>1, <4>2
    <3>3. QED
      BY <2>2, <3>1, <3>2
  <2>3. N \in T
    <3> HIDE DEF T, N
    <3>1. \A m \in 0..N : m \in T
      BY <1>1, <2>1, <2>2, InductionUpTo, Zenon
    <3>2. QED
      BY <1>1, <3>1
  <2>4. CASE \A i \in 1..N : s[i] \in Own
    <3>1. Ends(N) /\ N \in 0..N
      BY <1>1, <2>4
    <3> HIDE DEF Ends, N
    <3>2. QED
      BY <3>1, Zenon
  <2>5. QED
    BY <2>3, <2>4
<1>3. own \in 0..N /\ Ends(own)
  <2> HIDE DEF Ends, N
  <2>1. QED
    BY <1>2, Zenon
<1>4. OwnFlags(k, s) = SubSeq(s, 1, own)
  BY DEF OwnFlags
<1> HIDE DEF own
<1>5. Len(OwnFlags(k, s)) = own /\ \A i \in 1..own : OwnFlags(k, s)[i] = s[i]
  BY <1>1, <1>3, <1>4
<1>6. AfterFlags(k, s) = SubSeq(s, own + 1, N)
  BY <1>5 DEF AfterFlags
<1>7. /\ AfterFlags(k, s) \in Seq(Tokens)
      /\ Len(AfterFlags(k, s)) = N - own
      /\ \A i \in 1..(N - own) : AfterFlags(k, s)[i] = s[own + i]
  <2> HIDE DEF Own, Ends
  <2>1. \A i \in (own + 1)..N : s[i] \in Tokens
    BY <1>1, <1>3
  <2>2. QED
    BY <1>1, <1>3, <1>6, <2>1
<1>8. QED
  BY <1>3, <1>5, <1>7

\* What the flags of the sublaunchers hold.
FlagValues == [agui : Paths, lro : Paths, serviceID : BOOLEAN, app : BOOLEAN]

\* A flag of a sublauncher sets a field of it.
LEMMA SetFlagType ==
  ASSUME NEW f \in FlagValues, NEW k \in Keywords, NEW token \in FlagsOf[k]
  PROVE  SetFlag(f, k, token) \in FlagValues
<1>1. <<>> \in Paths /\ <<"v1">> \in Paths
  BY DEF Paths
<1>2. k \in {"agui", "lro"} \/ token \notin {Prefix.root, Prefix.v1}
  BY DEF Keywords, FlagsOf, Prefix
<1> HIDE DEF Paths
<1>3. CASE token = Prefix.root \/ token = Prefix.v1
  <2>1. k \in {"agui", "lro"}
    BY <1>2, <1>3
  <2>2. \A path \in Paths : [f EXCEPT ![k] = path] \in FlagValues
    BY <2>1 DEF FlagValues
  <2>3. /\ Prefix.root # Prefix.v1
        /\ {Prefix.root, Prefix.v1} \cap {"-service_id=s", "-app_name=a"} = {}
    BY DEF Prefix
  <2>4. token = Prefix.root => SetFlag(f, k, token) = [f EXCEPT ![k] = <<>>]
    BY <2>3 DEF SetFlag
  <2>5. token = Prefix.v1 => SetFlag(f, k, token) = [f EXCEPT ![k] = <<"v1">>]
    BY <2>3 DEF SetFlag
  <2>6. QED
    BY <1>1, <1>3, <2>2, <2>4, <2>5
<1>4. CASE token # Prefix.root /\ token # Prefix.v1
  <2>1. SetFlag(f, k, token) \in {[f EXCEPT !.serviceID = TRUE], [f EXCEPT !.app = TRUE], f}
    BY <1>4 DEF SetFlag
  <2>2. QED
    BY <2>1 DEF FlagValues
<1>5. QED
  BY <1>3, <1>4

\* So do all of them, in their order.
LEMMA SetFlagsType ==
  ASSUME flags \in FlagValues, NEW k \in Keywords, NEW s \in Seq(Tokens)
  PROVE  SetFlags(k, s) \in FlagValues
<1> DEFINE own == OwnFlags(k, s)
           n == Len(own)
           set == CHOOSE f : f = [m \in 0..Len(own) |->
                    IF m = 0 THEN flags ELSE SetFlag(f[m - 1], k, own[m])]
           step == [p \in FlagValues \X (1..n) |-> SetFlag(p[1], k, own[p[2]])]
<1>1. n \in Nat /\ \A m \in 1..n : own[m] \in FlagsOf[k]
  <2>1. n \in 0..Len(s) /\ \A m \in 1..n : own[m] = s[m] /\ s[m] \in FlagsOf[k]
    BY OwnFlagsAre
  <2> HIDE DEF own, n
  <2>2. QED
    BY <2>1
<1> HIDE DEF own, n
<1>2. step \in [FlagValues \X (1..n) -> FlagValues]
  <2>1. \A f \in FlagValues, m \in 1..n : SetFlag(f, k, own[m]) \in FlagValues
    BY <1>1, SetFlagType
  <2>2. \A p \in FlagValues \X (1..n) : SetFlag(p[1], k, own[p[2]]) \in FlagValues
    BY <2>1
  <2>3. QED
    BY <2>2, Zenon
<1>3. \A f \in FlagValues, m \in 1..n : step[<<f, m>>] = SetFlag(f, k, own[m])
  OBVIOUS
<1> HIDE DEF step
<1>4. PICK g : IsLoop(g, FlagValues, flags, n, step)
  BY <1>1, <1>2, Recursion
<1>5. g = [m \in 0..Len(own) |-> IF m = 0 THEN flags ELSE SetFlag(g[m - 1], k, own[m])]
  <2> SUFFICES ASSUME NEW m \in 0..n
               PROVE  g[m] = IF m = 0 THEN flags ELSE SetFlag(g[m - 1], k, own[m])
    BY <1>4 DEF IsLoop, n
  <2>1. CASE m = 0
    BY <1>4, <2>1 DEF IsLoop
  <2>2. CASE m # 0
    <3>1. m \in 1..n /\ m - 1 \in 0..n
      BY <1>1, <2>2
    <3>2. g[m - 1] \in FlagValues /\ g[m] = step[<<g[m - 1], m>>]
      BY <1>4, <3>1 DEF IsLoop
    <3>3. QED
      BY <1>3, <2>2, <3>1, <3>2
  <2>3. QED
    BY <2>1, <2>2
<1>6. set = [m \in 0..Len(own) |-> IF m = 0 THEN flags ELSE SetFlag(set[m - 1], k, own[m])]
  BY <1>5, Zenon
<1>7. SetFlags(k, s) = set[n]
  BY Zenon DEF SetFlags, own, n
<1> HIDE DEF set
<1> DEFINE Good == {m \in 0..n : set[m] \in FlagValues}
<1>8. 0 \in Good
  <2>1. set[0] = flags
    BY <1>1, <1>6 DEF n
  <2>2. QED
    BY <1>1, <2>1
<1>9. ASSUME NEW m \in 1..n, m - 1 \in Good
      PROVE  m \in Good
  <2>1. m \in 0..n /\ m # 0 /\ own[m] \in FlagsOf[k]
    BY <1>1
  <2>2. set[m] = SetFlag(set[m - 1], k, own[m])
    BY <1>6, <2>1 DEF n
  <2>3. QED
    BY <1>9, <2>1, <2>2, SetFlagType
<1>10. n \in Good
  <2> HIDE DEF Good
  <2>1. \A m \in 0..n : m \in Good
    BY <1>1, <1>8, <1>9, InductionUpTo, Zenon
  <2>2. QED
    BY <1>1, <2>1
<1>11. QED
  BY <1>7, <1>10

-----------------------------------------------------------------------------
(* Patterns.                                                                *)

\* A pattern is known by the last segment of its path.
NameOf(path) == IF path = <<>> THEN "/" ELSE path[Len(path)]
AguiNames == {"run_sse", "messages", "{threadId}", "threads", "capabilities"}
SchedulerNames == {"jsonrpc", "cron"}
Segments == {"v1", "agui"} \cup AguiNames \cup SchedulerNames
Patterns == [method : {"GET", "POST", "DELETE", "OPTIONS", "ANY"}, path : Seq(Segments),
             to : {"agui", "scheduler", "cors", "router"}]

\* s registers no pattern twice, and only patterns with these names.
Registers(s, names) ==
  /\ s \in Seq(Patterns)
  /\ \A i, j \in DOMAIN s : s[i].method = s[j].method /\ s[i].path = s[j].path => i = j
  /\ \A i \in DOMAIN s : NameOf(s[i].path) \in names

\* Two sequences that share no pattern.
LEMMA RegistersJoin ==
  ASSUME NEW s, NEW names, Registers(s, names), NEW t, NEW more, Registers(t, more),
         \A i \in DOMAIN s, j \in DOMAIN t :
           s[i].method # t[j].method \/ s[i].path # t[j].path
  PROVE  Registers(s \o t, names \cup more)
<1> DEFINE m == Len(s)
           n == Len(t)
           st == s \o t
<1>1. m \in Nat /\ n \in Nat /\ DOMAIN s = 1..m /\ DOMAIN t = 1..n
  BY DEF Registers
<1>2. /\ st \in Seq(Patterns) /\ DOMAIN st = 1..(m + n)
      /\ \A i \in 1..m : st[i] = s[i]
      /\ \A i \in (m + 1)..(m + n) : st[i] = t[i - m] /\ i - m \in 1..n
  BY DEF Registers
<1> HIDE DEF st, m, n
<1>3. \A i \in DOMAIN st : i \in 1..m \/ i \in (m + 1)..(m + n)
  BY <1>1, <1>2
<1>4. \A i \in 1..m : NameOf(st[i].path) \in names
  BY <1>1, <1>2 DEF Registers
<1>5. \A i \in (m + 1)..(m + n) : NameOf(st[i].path) \in more
  BY <1>1, <1>2 DEF Registers
<1>6. ASSUME NEW i \in DOMAIN st, NEW j \in DOMAIN st,
             st[i].method = st[j].method, st[i].path = st[j].path
      PROVE  i = j
  <2>1. CASE i \in 1..m /\ j \in 1..m
    BY <1>1, <1>2, <1>6, <2>1 DEF Registers
  <2>2. CASE i \in (m + 1)..(m + n) /\ j \in (m + 1)..(m + n)
    <3>1. /\ st[i] = t[i - m] /\ st[j] = t[j - m]
          /\ i - m \in DOMAIN t /\ j - m \in DOMAIN t
      BY <1>1, <1>2, <2>2
    <3>2. i - m = j - m
      BY <1>6, <3>1 DEF Registers
    <3>3. QED
      BY <1>1, <2>2, <3>2
  <2>3. CASE \/ i \in 1..m /\ j \in (m + 1)..(m + n)
             \/ j \in 1..m /\ i \in (m + 1)..(m + n)
    <3>1. \A a \in 1..m, b \in (m + 1)..(m + n) :
            st[a].method # st[b].method \/ st[a].path # st[b].path
      <4> TAKE a \in 1..m, b \in (m + 1)..(m + n)
      <4>1. st[a] = s[a] /\ a \in DOMAIN s
        BY <1>1, <1>2
      <4>2. st[b] = t[b - m] /\ b - m \in DOMAIN t
        BY <1>1, <1>2
      <4>3. QED
        BY <4>1, <4>2
    <3>2. QED
      BY <1>6, <2>3, <3>1
  <2>4. QED
    BY <1>3, <2>1, <2>2, <2>3
<1>7. QED
  BY <1>2, <1>3, <1>4, <1>5, <1>6 DEF Registers, st

\* Patterns of different names do not meet.
LEMMA RegistersConcat ==
  ASSUME NEW s, NEW names, Registers(s, names), NEW t, NEW more, Registers(t, more),
         names \cap more = {}
  PROVE  Registers(s \o t, names \cup more)
<1>1. \A i \in DOMAIN s, j \in DOMAIN t : s[i].path # t[j].path
  <2> TAKE i \in DOMAIN s, j \in DOMAIN t
  <2>1. NameOf(s[i].path) \in names /\ NameOf(t[j].path) \in more
    BY DEF Registers
  <2>2. QED
    BY <2>1
<1>2. QED
  BY <1>1, RegistersJoin

\* Nothing registers nothing, one pattern is not twice there.
LEMMA RegistersFew ==
  /\ \A names : Registers(<<>>, names)
  /\ \A r \in Patterns : \A names : NameOf(r.path) \in names => Registers(<<r>>, names)
  /\ \A q \in Patterns, r \in Patterns : \A names :
       /\ NameOf(q.path) \in names /\ NameOf(r.path) \in names
       /\ q.method # r.method \/ q.path # r.path
       => Registers(<<q, r>>, names)
<1>1. \A names : Registers(<<>>, names)
  BY DEF Registers
<1>2. ASSUME NEW r \in Patterns, NEW names, NameOf(r.path) \in names
      PROVE  Registers(<<r>>, names)
  <2>1. <<r>> \in Seq(Patterns) /\ DOMAIN <<r>> = {1} /\ <<r>>[1] = r
    OBVIOUS
  <2>2. QED
    BY <1>2, <2>1 DEF Registers
<1>3. ASSUME NEW q \in Patterns, NEW r \in Patterns, NEW names,
             NameOf(q.path) \in names, NameOf(r.path) \in names,
             q.method # r.method \/ q.path # r.path
      PROVE  Registers(<<q, r>>, names)
  <2> DEFINE s == <<q, r>>
  <2>1. s \in Seq(Patterns) /\ DOMAIN s = {1, 2} /\ s[1] = q /\ s[2] = r
    OBVIOUS
  <2> HIDE DEF s
  <2>2. Registers(s, names)
    BY <1>3, <2>1 DEF Registers
  <2>3. QED
    BY <2>2 DEF s
<1>4. QED
  BY <1>1, <1>2, <1>3

\* A path below a prefix.
LEMMA BelowPrefix ==
  ASSUME NEW p \in Seq(Segments), NEW name \in Segments
  PROVE  Append(p, name) \in Seq(Segments) /\ NameOf(Append(p, name)) = name
<1> DEFINE path == Append(p, name)
<1>1. path \in Seq(Segments) /\ Len(path) = Len(p) + 1 /\ path[Len(path)] = name /\ Len(p) \in Nat
  OBVIOUS
<1> HIDE DEF path
<1>2. path # <<>>
  <2>1. Len(<<>>) = 0
    OBVIOUS
  <2>2. QED
    BY <1>1, <2>1
<1>3. QED
  BY <1>1, <1>2 DEF NameOf, path

\* A route with its preflight.
LEMMA RouteRegisters ==
  ASSUME NEW path \in Seq(Segments), NEW method \in {"GET", "POST"}
  PROVE  Registers(Preflight(path) \o <<Pattern(method, path, "agui")>>, {NameOf(path)})
<1> DEFINE q == Pattern("OPTIONS", path, "cors")
           r == Pattern(method, path, "agui")
<1>1. /\ q \in Patterns /\ r \in Patterns /\ q.method # r.method
      /\ q.path = path /\ r.path = path
  BY DEF Patterns, Pattern
<1> HIDE DEF q, r
<1>2. Registers(<<r>>, {NameOf(path)})
  BY <1>1, RegistersFew
<1>3. CASE Preflight(path) = <<q>>
  <2>1. Registers(<<q>>, {NameOf(path)})
    BY <1>1, RegistersFew
  <2>2. Registers(<<q>> \o <<r>>, {NameOf(path)} \cup {NameOf(path)})
    BY <1>1, <1>2, <2>1, RegistersJoin
  <2>3. QED
    BY <1>3, <2>2 DEF r
<1>4. CASE Preflight(path) = <<>>
  <2>1. <<>> \o <<r>> = <<r>>
    BY <1>1, ConcatEmptySeq
  <2>2. QED
    BY <1>2, <1>4, <2>1 DEF r
<1>5. Preflight(path) \in {<<q>>, <<>>}
  BY DEF Preflight, q
<1>6. QED
  BY <1>3, <1>4, <1>5

\* The routes of one thread.
LEMMA ThreadRegisters ==
  ASSUME NEW path \in Seq(Segments)
  PROVE  Registers(ThreadRoutes(path), {NameOf(path)})
<1> DEFINE o == Pattern("OPTIONS", path, "cors")
           q == Pattern("GET", path, "agui")
           r == Pattern("DELETE", path, "agui")
           s == <<q, r>>
<1>1. /\ o \in Patterns /\ q \in Patterns /\ r \in Patterns
      /\ o.method # q.method /\ o.method # r.method /\ q.method # r.method
      /\ o.path = path /\ q.path = path /\ r.path = path
  BY DEF Patterns, Pattern
<1>2. ThreadRoutes(path) = Preflight(path) \o s
  BY DEF ThreadRoutes
<1> HIDE DEF o, q, r
<1>3. Registers(s, {NameOf(path)})
  BY <1>1, RegistersFew
<1>4. CASE Preflight(path) = <<o>>
  <2>1. Registers(<<o>>, {NameOf(path)})
    BY <1>1, RegistersFew
  <2>2. DOMAIN s = {1, 2} /\ s[1] = q /\ s[2] = r
    OBVIOUS
  <2> HIDE DEF s
  <2>3. Registers(<<o>> \o s, {NameOf(path)} \cup {NameOf(path)})
    BY <1>1, <1>3, <2>1, <2>2, RegistersJoin
  <2>4. QED
    BY <1>2, <1>4, <2>3
<1>5. CASE Preflight(path) = <<>>
  <2>1. <<>> \o s = s
    BY <1>1, ConcatEmptySeq
  <2>2. QED
    BY <1>2, <1>3, <1>5, <2>1
<1>6. Preflight(path) \in {<<o>>, <<>>}
  BY DEF Preflight, o
<1>7. QED
  BY <1>4, <1>5, <1>6

\* The prefix of agui is a path.
LEMMA AguiPrefix ==
  ASSUME flags \in FlagValues
  PROVE  flags.agui \in Seq(Segments) /\ AguiNames \subseteq Segments
<1>1. "v1" \in Segments /\ "agui" \in Segments /\ AguiNames \subseteq Segments
  BY DEF Segments
<1>2. flags.agui \in Paths
  BY DEF FlagValues
<1>3. \A a \in {"v1", "agui"} : <<a>> \in Seq(Segments)
  BY <1>1
<1>4. <<>> \in Seq(Segments)
  OBVIOUS
<1>5. QED
  BY <1>1, <1>2, <1>3, <1>4 DEF Paths

\* The routes of agui, under any prefix and with any options.
LEMMA AguiRegisters ==
  ASSUME flags \in FlagValues
  PROVE  Registers(AguiRoutes, AguiNames)
<1> DEFINE p == flags.agui
           threads == Append(p, "threads")
           thread == Append(threads, "{threadId}")
           run == Append(p, "run_sse")
           messages == Append(thread, "messages")
           capabilities == Append(p, "capabilities")
           Route(method, path) == Preflight(path) \o <<Pattern(method, path, "agui")>>
           listing == ThreadRoutes(thread) \o Route("GET", threads)
           r1 == Route("POST", run)
           r2 == Route("GET", messages)
           r3 == If(host.threads, listing)
           r4 == If(host.capabilities, Route("GET", capabilities))
<1>1. p \in Seq(Segments)
  BY AguiPrefix
<1> HIDE DEF p
<1>2. /\ threads \in Seq(Segments) /\ NameOf(threads) = "threads"
      /\ run \in Seq(Segments) /\ NameOf(run) = "run_sse"
      /\ capabilities \in Seq(Segments) /\ NameOf(capabilities) = "capabilities"
  BY <1>1, BelowPrefix DEF Segments, AguiNames
<1> HIDE DEF threads, run, capabilities
<1>3. thread \in Seq(Segments) /\ NameOf(thread) = "{threadId}"
  BY <1>2, BelowPrefix DEF Segments, AguiNames
<1> HIDE DEF thread
<1>4. messages \in Seq(Segments) /\ NameOf(messages) = "messages"
  BY <1>3, BelowPrefix DEF Segments, AguiNames
<1> HIDE DEF messages
<1>5. Registers(r1, {"run_sse"}) /\ Registers(r2, {"messages"})
  BY <1>2, <1>4, RouteRegisters
<1>6. Registers(listing, {"{threadId}", "threads"})
  <2>1. Registers(ThreadRoutes(thread), {"{threadId}"})
    BY <1>3, ThreadRegisters
  <2>2. Registers(Route("GET", threads), {"threads"})
    BY <1>2, RouteRegisters
  <2>3. Registers(listing, {"{threadId}"} \cup {"threads"})
    BY <2>1, <2>2, RegistersConcat
  <2>4. {"{threadId}"} \cup {"threads"} = {"{threadId}", "threads"}
    OBVIOUS
  <2>5. QED
    BY <2>3, <2>4
<1>7. Registers(Route("GET", capabilities), {"capabilities"})
  BY <1>2, RouteRegisters
<1>8. AguiRoutes = r1 \o r2 \o r3 \o r4
  BY DEF AguiRoutes, p, threads, run, capabilities, thread, messages
<1> HIDE DEF listing, Route, r1, r2
<1>9. /\ Registers(r3, {"{threadId}", "threads"})
      /\ Registers(r4, {"capabilities"})
  BY <1>6, <1>7, RegistersFew DEF If
<1> HIDE DEF r3, r4
<1>10. Registers(r1 \o r2, {"run_sse"} \cup {"messages"})
  BY <1>5, RegistersConcat
<1>11. Registers(r1 \o r2 \o r3, {"run_sse"} \cup {"messages"} \cup {"{threadId}", "threads"})
  BY <1>9, <1>10, RegistersConcat
<1> DEFINE names == {"run_sse"} \cup {"messages"} \cup {"{threadId}", "threads"} \cup {"capabilities"}
<1>12. Registers(r1 \o r2 \o r3 \o r4, names)
  BY <1>9, <1>11, RegistersConcat
<1>13. names = AguiNames
  BY DEF AguiNames
<1>14. QED
  BY <1>8, <1>12, <1>13

\* The routes of the scheduler.
LEMMA SchedulerRegisters == Registers(SchedulerRoutes, SchedulerNames)
<1> DEFINE o == Pattern("POST", <<"jsonrpc">>, "scheduler")
           q == Pattern("OPTIONS", <<"jsonrpc">>, "cors")
           r == Pattern("POST", <<"cron">>, "scheduler")
           s == <<o, q, r>>
<1>1. /\ <<"jsonrpc">> \in Seq(Segments) /\ NameOf(<<"jsonrpc">>) = "jsonrpc"
      /\ <<"cron">> \in Seq(Segments) /\ NameOf(<<"cron">>) = "cron"
  BY DEF NameOf, Segments, SchedulerNames
<1>2. /\ o \in Patterns /\ q \in Patterns /\ r \in Patterns
      /\ o.method # q.method /\ o.path # r.path /\ q.path # r.path
      /\ {NameOf(o.path), NameOf(q.path), NameOf(r.path)} \subseteq SchedulerNames
  BY <1>1 DEF Patterns, Pattern, SchedulerNames
<1> HIDE DEF o, q, r
<1>3. s \in Seq(Patterns) /\ DOMAIN s = {1, 2, 3} /\ s[1] = o /\ s[2] = q /\ s[3] = r
  BY <1>2
<1>4. SchedulerRoutes = s
  BY DEF SchedulerRoutes, o, q, r
<1> HIDE DEF s
<1>5. QED
  BY <1>2, <1>3, <1>4 DEF Registers

-----------------------------------------------------------------------------
(* The host mux and the gRPC server.                                        *)

\* What is on the host mux: the routes of the sublaunchers whose Once is done,
\* and the router once there is a server.
Registered ==
  (IF once["agui"] = "done" THEN AguiNames ELSE {})
  \cup (IF once["scheduler"] = "done" THEN SchedulerNames ELSE {})
  \cup (IF server # "new" THEN {"/"} ELSE {})
\* How often the service is registered: beside main by a mount of the scheduler.
Services(registrar, n, mounted) ==
  IF registrar = "blind" THEN n = (IF mounted = "done" THEN 2 ELSE 1) ELSE n \in {0, 1}
MuxInv ==
  /\ flags \in FlagValues
  /\ once \in [HostSubs -> {"new", "done", "failed"}]
  /\ Registers(mux, Registered)
  /\ RootInv
  /\ Services(host.grpc, grpc, once["scheduler"])

\* What Parse hands to the FlagSets.
ParseInv ==
  /\ launch.args \in Seq(Tokens) /\ launch.rest \in Seq(Tokens)
  /\ host \in Host

\* The routes of a sublauncher are not the router's.
LEMMA RootStays ==
  ASSUME RootInv, NEW names, Registers(mux, names), NEW new, NEW more, Registers(new, more),
         more \in {AguiNames, SchedulerNames}, mux' = mux \o new, server' = server
  PROVE  RootInv'
<1> DEFINE m == Len(mux)
           n == Len(new)
<1>1. /\ m \in Nat /\ n \in Nat /\ DOMAIN mux = 1..m /\ DOMAIN new = 1..n
      /\ DOMAIN mux' = 1..(m + n)
      /\ \A i \in 1..m : mux'[i] = mux[i]
      /\ \A i \in (m + 1)..(m + n) : mux'[i] = new[i - m] /\ i - m \in 1..n
  BY DEF Registers
<1>2. \A i \in DOMAIN new : new[i].path # <<>>
  BY DEF Registers, NameOf, AguiNames, SchedulerNames
<1> HIDE DEF m, n
<1>3. \A i \in DOMAIN mux' : i \in 1..m \/ i \in (m + 1)..(m + n)
  BY <1>1
<1>4. \A i \in DOMAIN mux' : mux'[i].path = <<>> => i \in DOMAIN mux /\ mux'[i] = mux[i]
  BY <1>1, <1>2, <1>3
<1>5. \A i \in DOMAIN mux : i \in DOMAIN mux' /\ mux'[i] = mux[i]
  BY <1>1
<1>6. Root'= Root /\ Root.path = <<>>
  BY DEF Root, Pattern
<1>7. RootTaken' <=> RootTaken
  BY <1>4, <1>5, <1>6 DEF RootTaken
<1>8. QED
  BY <1>7 DEF RootInv

\* A mount adds the routes of a sublauncher that was not mounted before.
LEMMA MountKeeps ==
  ASSUME LaunchInv, MuxInv, SetupHostRoutes
  PROVE  MuxInv'
<1> DEFINE k == Head(launch.todo)
           first == k \in HostSubs /\ once[k] = "new"
           mounts == first /\ ~MountFails(k)
<1>1. /\ once' = IF first THEN [once EXCEPT ![k] = Outcome(k)] ELSE once
      /\ mux' = IF mounts THEN mux \o HostRoutes(k) ELSE mux
      /\ grpc' = IF mounts /\ k = "scheduler" THEN RegisterGRPC ELSE grpc
      /\ UNCHANGED <<host, flags, server>>
  BY DEF SetupHostRoutes, serving
<1> HIDE DEF k
<1>2. /\ flags' \in FlagValues
      /\ Services(host'.grpc, grpc', once'["scheduler"])
  <2>1. flags' \in FlagValues
    BY <1>1 DEF MuxInv
  <2>2. once \in [HostSubs -> {"new", "done", "failed"}] /\ "scheduler" \in HostSubs
    BY DEF MuxInv, HostSubs
  <2>3. CASE mounts /\ k = "scheduler"
    <3>1. once'["scheduler"] = "done" /\ once["scheduler"] = "new"
      BY <1>1, <2>2, <2>3 DEF Outcome
    <3>2. grpc' = RegisterGRPC
      BY <1>1, <2>3
    <3>3. QED
      BY <1>1, <2>1, <3>1, <3>2 DEF MuxInv, Services, RegisterGRPC
  <2>4. CASE ~(mounts /\ k = "scheduler")
    <3>1. once'["scheduler"] = "done" <=> once["scheduler"] = "done"
      BY <1>1, <2>2, <2>4 DEF Outcome
    <3>2. QED
      BY <1>1, <2>1, <2>4, <3>1 DEF MuxInv, Services
  <2>5. QED
    BY <2>3, <2>4
<1>3. once' \in [HostSubs -> {"new", "done", "failed"}]
  BY <1>1 DEF MuxInv, Outcome
<1>4. CASE ~first
  <2>1. UNCHANGED <<once, mux, server>>
    BY <1>1, <1>4
  <2>2. Registers(mux, Registered)' /\ RootInv'
    BY <2>1 DEF MuxInv, Registers, Registered, NameOf, RootInv, RootTaken, Root, Pattern
  <2>3. QED
    BY <1>2, <1>3, <2>2 DEF MuxInv
<1>5. CASE first /\ MountFails(k)
  <2>1. UNCHANGED <<mux, server>> /\ once' = [once EXCEPT ![k] = "failed"]
    BY <1>1, <1>5 DEF Outcome
  <2>2. Registered' = Registered
    BY <1>5, <2>1 DEF MuxInv, Registered, HostSubs
  <2>3. Registers(mux, Registered)' /\ RootInv'
    BY <2>1, <2>2 DEF MuxInv, Registers, NameOf, RootInv, RootTaken, Root, Pattern
  <2>4. QED
    BY <1>2, <1>3, <2>3 DEF MuxInv
<1>6. CASE mounts
  <2> DEFINE names == IF k = "agui" THEN AguiNames ELSE SchedulerNames
  <2>1. /\ mux' = mux \o HostRoutes(k) /\ server' = server
        /\ once' = [once EXCEPT ![k] = "done"]
    BY <1>1, <1>6 DEF Outcome
  <2>2. k \in {"agui", "scheduler"} /\ once[k] = "new"
    BY <1>6 DEF HostSubs
  <2>3. Registers(HostRoutes(k), names)
    BY <2>2, AguiRegisters, SchedulerRegisters DEF HostRoutes, MuxInv
  <2>4. Registered \cap names = {}
    BY <2>2 DEF Registered, AguiNames, SchedulerNames
  <2>5. Registers(mux', Registered \cup names)
    BY <2>1, <2>3, <2>4, RegistersConcat DEF MuxInv
  <2>6. Registered' = Registered \cup names
    <3>1. /\ once'["agui"] = IF k = "agui" THEN "done" ELSE once["agui"]
          /\ once'["scheduler"] = IF k = "scheduler" THEN "done" ELSE once["scheduler"]
      BY <2>1, <2>2 DEF MuxInv, HostSubs
    <3>2. QED
      BY <2>1, <2>2, <3>1 DEF Registered
  <2>7. RootInv'
    BY <2>1, <2>3, RootStays DEF MuxInv
  <2>8. QED
    BY <1>2, <1>3, <2>5, <2>6, <2>7 DEF MuxInv
<1>7. QED
  BY <1>4, <1>5, <1>6

\* The router is mounted once, with the first server; else Run panics.
LEMMA RouterKeeps ==
  ASSUME MuxInv, StartServer
  PROVE  MuxInv'
<1> DEFINE r == Root
<1>1. /\ UNCHANGED <<host, flags, once, grpc>>
      /\ \/ UNCHANGED <<mux, server>>
         \/ ~RootTaken /\ mux' = Append(mux, r) /\ server' = "starting"
  BY DEF StartServer
<1>2. r \in Patterns /\ NameOf(r.path) = "/"
  <2>1. <<>> \in Seq(Segments)
    OBVIOUS
  <2>2. QED
    BY <2>1 DEF Root, Pattern, Patterns, NameOf
<1>3. CASE UNCHANGED <<mux, server>>
  BY <1>1, <1>3 DEF MuxInv, Registers, Registered, NameOf, RootInv, RootTaken, Root, Pattern
<1>4. CASE ~RootTaken /\ mux' = Append(mux, r) /\ server' = "starting"
  <2>1. RootInv'
    <3>1. mux \in Seq(Patterns)
      BY DEF MuxInv, Registers
    <3> HIDE DEF r
    <3>2. Len(mux) + 1 \in DOMAIN mux' /\ mux'[Len(mux) + 1] = r
      BY <1>2, <1>4, <3>1
    <3>3. RootTaken'
      BY <3>2 DEF RootTaken, r, Root, Pattern
    <3>4. QED
      BY <1>4, <3>3 DEF RootInv
  <2> HIDE DEF r
  <2>2. Registers(<<r>>, {"/"})
    BY <1>2, RegistersFew
  <2>3. Append(mux, r) = mux \o <<r>>
    BY <1>2 DEF MuxInv, Registers
  <2>4. server = "new"
    BY <1>4 DEF MuxInv, RootInv
  <2>5. Registered \cap {"/"} = {} /\ Registered' = Registered \cup {"/"}
    BY <1>1, <1>4, <2>4 DEF Registered, AguiNames, SchedulerNames
  <2>6. Registers(mux', Registered')
    BY <1>4, <2>2, <2>3, <2>5, RegistersConcat DEF MuxInv
  <2>7. QED
    BY <1>1, <2>1, <2>6 DEF MuxInv
<1>5. QED
  BY <1>1, <1>3, <1>4

\* A step that registers nothing.
LEMMA NothingRegistered ==
  ASSUME MuxInv, flags' \in FlagValues, UNCHANGED <<host, once, mux, grpc>>,
         server' # "new" <=> server # "new"
  PROVE  MuxInv'
BY DEF MuxInv, Registers, Registered, NameOf, RootInv, RootTaken, Root, Pattern

\* What is parsed stays a sequence of tokens.
LEMMA ParseTypes ==
  ASSUME LaunchInv, ParseInv, [Next]_vars
  PROVE  ParseInv'
<1>1. IsLaunch(launch) /\ host \in Host
  BY DEF LaunchInv, Records, ParseInv
<1>2. CASE Execute
  <2>1. PICK args \in Commands[host.commands] :
          launch' = [pc |-> "flags", args |-> args, rest |-> args, active |-> {}, todo |-> <<>>,
                     result |-> "none", times |-> launch.times + 1]
    BY <1>2 DEF Execute
  <2>2. args \in Seq(Tokens)
    BY <1>1, WebCommands DEF Host
  <2>3. QED
    BY <1>1, <1>2, <2>1, <2>2 DEF ParseInv, Execute
<1>3. CASE ParseWeb
  <2>1. AfterFlags("web", launch.rest) \in Seq(Tokens)
    BY OwnFlagsAre DEF ParseInv
  <2>2. \/ Return("refused")
        \/ launch' = [launch EXCEPT !.pc = "keyword", !.rest = AfterFlags("web", @)]
    BY <1>3 DEF ParseWeb
  <2>3. launch'.args = launch.args /\ launch'.rest \in {launch.rest, AfterFlags("web", launch.rest)}
    BY <1>1, <2>2 DEF Return, IsLaunch
  <2>4. QED
    BY <1>1, <1>3, <2>1, <2>3 DEF ParseInv, ParseWeb
<1>4. CASE ParseKeyword
  <2> DEFINE k == Head(launch.rest)
             s == Tail(launch.rest)
  <2>1. launch.rest # <<>>
    BY <1>4 DEF ParseKeyword, AtKeyword
  <2>2. s \in Seq(Tokens)
    BY <2>1 DEF ParseInv
  <2>3. \/ Return("refused")
        \/ launch' = [launch EXCEPT !.rest = AfterFlags(k, s), !.active = @ \cup {k}]
    BY <1>4 DEF ParseKeyword
  <2> HIDE DEF k, s
  <2>4. AfterFlags(k, s) \in Seq(Tokens)
    BY <2>2, OwnFlagsAre
  <2>5. launch'.args = launch.args /\ launch'.rest \in {launch.rest, AfterFlags(k, s)}
    BY <1>1, <2>3 DEF Return, IsLaunch
  <2>6. QED
    BY <1>1, <1>4, <2>4, <2>5 DEF ParseInv, ParseKeyword
<1>5. CASE host' = host /\ launch'.args = launch.args /\ launch'.rest = launch.rest
  BY <1>5 DEF ParseInv
<1>6. CASE BeginRun \/ SetupHostRoutes \/ SetupSubrouter
  <2>1. host' = host
    BY <1>6 DEF BeginRun, SetupHostRoutes, SetupSubrouter
  <2>2. \/ \E r : Return(r)
        \/ \E p : Step(p)
        \/ \E t : launch' = [launch EXCEPT !.pc = "host", !.todo = t]
        \/ \E t, p : launch' = [launch EXCEPT !.todo = t, !.pc = p]
    BY <1>6 DEF BeginRun, SetupHostRoutes, SetupSubrouter, Mounted
  <2>3. launch'.args = launch.args /\ launch'.rest = launch.rest
    BY <1>1, <2>2 DEF Return, Step, IsLaunch
  <2>4. QED
    BY <1>5, <2>1, <2>3
<1>7. CASE StartServer \/ InitTelemetry \/ SelectDone \/ SelectServer \/ Shutdown
  <2>1. host' = host
    BY <1>7 DEF StartServer, InitTelemetry, SelectDone, SelectServer, Shutdown
  <2>2. (\E r : Return(r)) \/ \E p : Step(p)
    BY <1>7 DEF StartServer, InitTelemetry, SelectDone, SelectServer, Shutdown
  <2>3. launch'.args = launch.args /\ launch'.rest = launch.rest
    BY <1>1, <2>2 DEF Return, Step, IsLaunch
  <2>4. QED
    BY <1>5, <2>1, <2>3
<1>8. CASE Goroutine \/ ServerBreaks \/ Request \/ Cancel \/ UNCHANGED vars
  <2>1. UNCHANGED <<host, launch>>
    BY <1>8 DEF Goroutine, Listen, ServerClosed, SendError, CloseChannel, ServerBreaks,
                Request, Cancel, vars
  <2>2. QED
    BY <1>5, <2>1
<1>9. QED
  BY <1>2, <1>3, <1>4, <1>6, <1>7, <1>8 DEF Next, Launcher

\* Every step keeps what is registered.
LEMMA MuxStep ==
  ASSUME LaunchInv, ParseInv, MuxInv, [Next]_vars
  PROVE  MuxInv'
<1>1. CASE ParseKeyword
  <2> DEFINE k == Head(launch.rest)
             s == Tail(launch.rest)
  <2>1. launch.rest # <<>> /\ k \in Range(host.order) /\ host.order \in Seq(Keywords)
    BY <1>1 DEF ParseKeyword, AtKeyword, ParseInv, Host
  <2>2. k \in Keywords /\ s \in Seq(Tokens)
    BY <2>1, RangeIn DEF ParseInv
  <2>3. flags' \in {flags, SetFlags(k, s)} /\ UNCHANGED <<host, once, mux, grpc, server>>
    BY <1>1 DEF ParseKeyword, setup, serving
  <2> HIDE DEF k, s
  <2>4. flags' \in FlagValues
    BY <2>2, <2>3, SetFlagsType DEF MuxInv
  <2>5. QED
    BY <2>3, <2>4, NothingRegistered
<1>2. CASE SetupHostRoutes
  BY <1>2, MountKeeps
<1>3. CASE StartServer
  BY <1>3, RouterKeeps
<1>4. CASE \/ Execute \/ ParseWeb \/ BeginRun \/ SetupSubrouter \/ InitTelemetry \/ SelectServer
           \/ Shutdown \/ Request \/ Cancel \/ UNCHANGED vars
  <2>1. UNCHANGED <<host, flags, once, mux, grpc, server>>
    BY <1>4 DEF Execute, ParseWeb, BeginRun, SetupSubrouter, InitTelemetry, SelectServer,
                Shutdown, Request, Cancel, vars, setup, serving
  <2>2. QED
    BY <2>1, NothingRegistered DEF MuxInv
<1>5. CASE SelectDone
  <2>1. UNCHANGED <<host, flags, once, mux, grpc>> /\ server' = "closed" /\ server # "new"
    BY <1>5 DEF SelectDone, setup, LaunchInv, RunInv, At
  <2>2. QED
    BY <2>1, NothingRegistered DEF MuxInv
<1>6. CASE Goroutine \/ ServerBreaks
  <2>1. UNCHANGED <<host, flags, once, mux, grpc>>
    BY <1>6 DEF Goroutine, Listen, ServerClosed, SendError, CloseChannel, ServerBreaks, setup
  <2>2. server' # "new" <=> server # "new"
    BY <1>6 DEF Goroutine, Listen, ServerClosed, SendError, CloseChannel, ServerBreaks
  <2>3. QED
    BY <2>1, <2>2, NothingRegistered DEF MuxInv
<1>7. QED
  BY <1>1, <1>2, <1>3, <1>4, <1>5, <1>6 DEF Next, Launcher

\* How far Run and the server are, what Parse hands on and what is registered,
\* in every state.
LEMMA MuxInvariance == Spec => [](LaunchInv /\ ParseInv /\ MuxInv)
<1>0. Init => LaunchInv
  BY DEF Init, LaunchInv, Records, IsLaunch, Program, Preparing, GoInv, RunInv, At
<1>1. Init => ParseInv /\ MuxInv
  <2> SUFFICES ASSUME Init
               PROVE  ParseInv /\ MuxInv
    OBVIOUS
  <2>1. host \in Host /\ host.lroPrefix \in Paths /\ host.serviceID \in BOOLEAN
    BY WebHosts DEF Init, Host
  <2>2. launch.args = <<>> /\ launch.rest = <<>> /\ <<>> \in Seq(Tokens)
    BY DEF Init
  <2>3. flags \in FlagValues
    <3>1. <<"agui">> \in Paths
      BY DEF Paths
    <3>2. QED
      BY <2>1, <3>1 DEF Init, FlagValues
  <2>4. /\ once \in [HostSubs -> {"new", "done", "failed"}]
        /\ Services(host.grpc, grpc, once["scheduler"])
    BY DEF Init, Services, HostSubs
  <2>5. mux = <<>> /\ RootInv
    BY DEF Init, RootInv, RootTaken
  <2>6. QED
    BY <2>1, <2>2, <2>3, <2>4, <2>5, RegistersFew DEF ParseInv, MuxInv
<1>2. LaunchInv /\ ParseInv /\ MuxInv /\ [Next]_vars => LaunchInv' /\ ParseInv' /\ MuxInv'
  <2>1. MuxInv => RootInv
    BY DEF MuxInv
  <2>2. QED
    BY <2>1, LaunchStep, ParseTypes, MuxStep
<1>3. QED
  BY <1>0, <1>1, <1>2, PTL DEF Spec

\* At every step of Run the server, its goroutine and telemetry are where it
\* needs them (web/web.go, Run).
LEMMA LaunchInvariance == Spec => []LaunchInv
BY MuxInvariance, PTL

\* A Run that started its server returns nil only when no request was cut off;
\* a server that listens on is one whose telemetry could not start, and
\* telemetry that stays up that of a server that failed (web/web.go, Run).
THEOREM RunLeavesNothing == Spec => []ReturnLeavesNothing
<1>1. LaunchInv => ReturnLeavesNothing
  BY DEF LaunchInv, RunInv, ReturnLeavesNothing, Started, At
<1>2. QED
  BY <1>1, LaunchInvariance, PTL

\* What agui captured is what the config holds, and one client is built when
\* the host gave none.
ShareInv ==
  /\ config \in Nat
  /\ once = [k \in HostSubs |-> once[k]]
  /\ once["agui"] = "done" => config # 0 /\ captured = config
  /\ lro.built \in {0, 1} /\ (~lro.client => lro.built = 0)
  /\ host.client => lro.client /\ lro.built = 0

\* Every step keeps what the sublaunchers share.
LEMMA ShareStep ==
  ASSUME LaunchInv, ShareInv, [Next]_vars
  PROVE  ShareInv'
<1>1. CASE BeginRun
  <2>1. launch.times \in Nat /\ config \in Nat
    BY DEF LaunchInv, Records, IsLaunch, ShareInv
  <2>2. /\ config' \in Nat /\ (config # 0 => config' = config)
    BY <1>1, <2>1 DEF BeginRun, SessionService
  <2>3. UNCHANGED <<host, once, captured, lro>>
    BY <1>1 DEF BeginRun
  <2>4. QED
    BY <2>2, <2>3 DEF ShareInv
<1>2. CASE SetupHostRoutes
  <2> DEFINE k == Head(launch.todo)
             first == k \in HostSubs /\ once[k] = "new"
             mounts == first /\ ~MountFails(k)
  <2>1. /\ once' = IF first THEN [once EXCEPT ![k] = Outcome(k)] ELSE once
        /\ captured' = IF mounts /\ k = "agui" THEN config ELSE captured
        /\ UNCHANGED <<host, config, lro>>
    BY <1>2 DEF SetupHostRoutes
  <2> HIDE DEF k
  <2>2. once' = [l \in HostSubs |-> once'[l]]
    BY <2>1 DEF ShareInv
  <2>3. CASE first /\ k = "agui"
    <3>1. once'["agui"] = Outcome("agui")
      BY <2>1, <2>3 DEF ShareInv, HostSubs
    <3>2. Outcome("agui") = "done" => ~MountFails("agui") /\ config # 0
      BY DEF Outcome, MountFails, NoRuntime
    <3>3. once'["agui"] = "done" => config' # 0 /\ captured' = config'
      BY <2>1, <2>3, <3>1, <3>2
    <3>4. QED
      BY <2>1, <2>2, <3>3 DEF ShareInv
  <2>4. CASE ~(first /\ k = "agui")
    <3>1. once'["agui"] = once["agui"] /\ captured' = captured
      BY <2>1, <2>4 DEF ShareInv, HostSubs
    <3>2. QED
      BY <2>1, <2>2, <3>1 DEF ShareInv
  <2>5. QED
    BY <2>3, <2>4
<1>3. CASE SetupSubrouter
  <2>1. UNCHANGED <<host, config, once, captured>>
    BY <1>3 DEF SetupSubrouter
  <2>2. \/ lro' = lro
        \/ ~lro.client /\ lro' = [client |-> TRUE, built |-> lro.built + 1]
    BY <1>3, SubrouterStep DEF LaunchInv
  <2>3. QED
    BY <2>1, <2>2 DEF ShareInv
<1>4. CASE UNCHANGED <<host, config, once, captured, lro>>
  BY <1>4 DEF ShareInv
<1>5. CASE \/ Execute \/ ParseWeb \/ ParseKeyword \/ StartServer \/ InitTelemetry \/ SelectDone
           \/ SelectServer \/ Shutdown \/ Goroutine \/ ServerBreaks \/ Request \/ Cancel
           \/ UNCHANGED vars
  <2>1. UNCHANGED <<host, config, once, captured, lro>>
    BY <1>5 DEF Execute, ParseWeb, ParseKeyword, StartServer, InitTelemetry, SelectDone,
                SelectServer, Shutdown, Goroutine, Listen, ServerClosed, SendError,
                CloseChannel, ServerBreaks, Request, Cancel, vars, setup
  <2>2. QED
    BY <1>4, <2>1
<1>6. QED
  BY <1>1, <1>2, <1>3, <1>5 DEF Next, Launcher

\* However often Execute is retried, the session service agui captured in its
\* first setup is the one the runtimes read from the config, and no second LRO
\* client is built, nor a first when the host gave one (web/web.go, Run;
\* agui/agui.go, SetupHostRoutes; lro/lro.go, resolveClient).
THEOREM ServicesAreShared == Spec => []SharedServices
<1>1. Init => ShareInv
  BY DEF Init, ShareInv, HostSubs
<1>2. LaunchInv /\ ShareInv /\ [Next]_vars => ShareInv'
  BY ShareStep
<1>3. ShareInv => SharedServices
  BY DEF ShareInv, SharedServices
<1>4. QED
  BY <1>1, <1>2, <1>3, LaunchInvariance, PTL DEF Spec

\* However often the host retries Execute, also after the server, telemetry or a
\* Shutdown failed, no pattern is registered twice on the host mux, and a Run
\* only panics, at "/", when an earlier one started its server; the launcher
\* registers the service once on the gRPC server, beside main only on a registrar
\* that does not tell (agui/agui.go and scheduler/launcher.go, SetupHostRoutes,
\* mountHostRoutes and registerGRPC; web/web.go, Run).
THEOREM NeverRegisteredTwice == Spec => []RegisteredOnce
<1>1. LaunchInv /\ MuxInv => RegisteredOnce
  <2> SUFFICES ASSUME LaunchInv, MuxInv
               PROVE  RegisteredOnce
    OBVIOUS
  <2> DEFINE key == [i \in DOMAIN mux |-> <<mux[i].method, mux[i].path>>]
  <2>1. \A i, j \in DOMAIN mux : mux[i].method = mux[j].method /\ mux[i].path = mux[j].path => i = j
    BY DEF MuxInv, Registers
  <2>2. DOMAIN key = DOMAIN mux /\ \A i, j \in DOMAIN mux : key[i] = key[j] => i = j
    BY <2>1
  <2> HIDE DEF key
  <2>3. IsInjective(key)
    BY <2>2 DEF IsInjective
  <2>4. grpc <= IF host.grpc = "blind" THEN 2 ELSE 1
    BY DEF MuxInv, Services
  <2>5. At("returned") /\ launch.result = "panic" => server # "new"
    BY DEF LaunchInv, RunInv
  <2>6. QED
    BY <2>3, <2>4, <2>5 DEF RegisteredOnce, key
<1>2. QED
  BY <1>1, MuxInvariance, PTL

-----------------------------------------------------------------------------
(* Types.                                                                   *)

Programs == {"idle", "flags", "keyword", "host", "sub", "mount", "telemetry", "select",
             "shutdown", "returned"}
Results == {"none", "refused", "setup", "panic", "telemetry", "server", "shutdown", "nil"}
Launches == [pc : Programs, args : Commands[host.commands] \cup {<<>>}, rest : Seq(Tokens),
             active : SUBSET Keywords, todo : Seq(Keywords), result : Results,
             times : 0..host.executions]
Mounts == [prefix : Paths \cup {<<"api">>}, to : Keywords]

\* Run has a sublauncher at hand while it sets them up, those the command line
\* named; the goroutine has sent nothing before it sends.
TypeInv ==
  /\ host \in Hosts
  /\ launch \in Launches
  /\ launch.active \subseteq Range(host.order)
  /\ At("host") \/ At("sub") => launch.todo # <<>>
  /\ config \in Nat /\ captured \in Nat
  /\ router \in Seq(Mounts)
  /\ lro \in [client : BOOLEAN, built : Nat]
  /\ server \in {"new", "starting", "listening", "failed", "closed"}
  /\ go \in [pc : {"none", "serve", "send", "close", "ended"}, errs : {0, 1}]
  /\ go.pc = "send" => go.errs = 0
  /\ telemetry \in {"off", "up", "down"}
  /\ ctxDone \in BOOLEAN
  /\ open \in 0..MaxOpen

\* What a step of Run does to launch.
LEMMA LaunchTypes ==
  ASSUME TypeInv, host' = host
  PROVE  /\ \A p \in Programs : Step(p) =>
              launch' \in Launches' /\ launch'.active = launch.active
              /\ launch'.todo = launch.todo /\ launch'.pc = p
         /\ \A r \in Results : Return(r) =>
              launch' \in Launches' /\ launch'.active = launch.active /\ launch'.pc = "returned"
         /\ \A p \in Programs, t \in Seq(Keywords) :
              \/ launch' = [launch EXCEPT !.pc = p, !.todo = t]
              \/ launch' = [launch EXCEPT !.todo = t, !.pc = p]
              => launch' \in Launches' /\ launch'.active = launch.active
                 /\ launch'.todo = t /\ launch'.pc = p
         /\ \A s \in Seq(Tokens) : launch' = [launch EXCEPT !.pc = "keyword", !.rest = s] =>
              launch' \in Launches' /\ launch'.active = launch.active /\ launch'.pc = "keyword"
         /\ \A s \in Seq(Tokens), k \in Keywords :
              launch' = [launch EXCEPT !.rest = s, !.active = @ \cup {k}] =>
              launch' \in Launches' /\ launch'.active = launch.active \cup {k}
              /\ launch'.pc = launch.pc
<1> DEFINE L == Launches
           T == Seq(Tokens)
           K == Seq(Keywords)
           C == Commands[host.commands] \cup {<<>>}
           N == 0..host.executions
<1>1. Launches' = L
  BY DEF Launches
<1>2. launch \in L /\ L = [pc : Programs, args : C, rest : T, active : SUBSET Keywords,
                           todo : K, result : Results, times : N]
  BY DEF TypeInv, Launches
<1>3. "returned" \in Programs /\ "keyword" \in Programs
  BY DEF Programs
<1> HIDE DEF L, T, K, C, N
<1>4. ASSUME NEW p \in Programs, Step(p)
      PROVE  launch' \in L /\ launch'.active = launch.active
              /\ launch'.todo = launch.todo /\ launch'.pc = p
  BY <1>2, <1>4 DEF Step
<1>5. ASSUME NEW r \in Results, Return(r)
      PROVE  launch' \in L /\ launch'.active = launch.active /\ launch'.pc = "returned"
  BY <1>2, <1>3, <1>5 DEF Return
<1>6. ASSUME NEW p \in Programs, NEW t \in K,
             \/ launch' = [launch EXCEPT !.pc = p, !.todo = t]
             \/ launch' = [launch EXCEPT !.todo = t, !.pc = p]
      PROVE  launch' \in L /\ launch'.active = launch.active
              /\ launch'.todo = t /\ launch'.pc = p
  BY <1>2, <1>6
<1>7. ASSUME NEW s \in T, launch' = [launch EXCEPT !.pc = "keyword", !.rest = s]
      PROVE  launch' \in L /\ launch'.active = launch.active /\ launch'.pc = "keyword"
  BY <1>2, <1>3, <1>7
<1>8. ASSUME NEW s \in T, NEW k \in Keywords,
             launch' = [launch EXCEPT !.rest = s, !.active = @ \cup {k}]
      PROVE  launch' \in L /\ launch'.active = launch.active \cup {k} /\ launch'.pc = launch.pc
  <2>1. launch.active \cup {k} \in SUBSET Keywords
    BY <1>2
  <2>2. QED
    BY <1>2, <1>8, <2>1
<1>9. QED
  BY <1>1, <1>4, <1>5, <1>6, <1>7, <1>8 DEF T, K

\* The steps of Run before it mounts the router.
LEMMA SetupTypes ==
  ASSUME LaunchInv, ParseInv, MuxInv, TypeInv,
         Execute \/ ParseWeb \/ ParseKeyword \/ BeginRun \/ SetupHostRoutes \/ SetupSubrouter
  PROVE  TypeInv'
<1> USE DEF At
<1>1. /\ UNCHANGED <<host, server, go, telemetry, ctxDone, open>>
  BY DEF Execute, ParseWeb, ParseKeyword, BeginRun, SetupHostRoutes, SetupSubrouter, serving
<1>2. /\ host \in Hosts /\ server \in {"new", "starting", "listening", "failed", "closed"}
      /\ go \in [pc : {"none", "serve", "send", "close", "ended"}, errs : {0, 1}]
      /\ (go.pc = "send" => go.errs = 0) /\ telemetry \in {"off", "up", "down"}
      /\ ctxDone \in BOOLEAN /\ open \in 0..MaxOpen
      /\ launch \in Launches /\ launch.active \subseteq Range(host.order)
      /\ (At("host") \/ At("sub") => launch.todo # <<>>)
      /\ config \in Nat /\ captured \in Nat /\ router \in Seq(Mounts)
      /\ lro \in [client : BOOLEAN, built : Nat]
  BY DEF TypeInv
<1>3. host.order \in Seq(Keywords) /\ host.executions \in Nat /\ launch.times \in Nat
      /\ launch.todo \in Seq(Keywords) /\ launch.rest \in Seq(Tokens)
  BY <1>2 DEF ParseInv, Host, Launches
<1>4. ASSUME launch' \in Launches', launch'.active \subseteq Range(host.order),
             launch'.pc \in {"host", "sub"} => launch'.todo # <<>>,
             UNCHANGED <<config, captured, router, lro>>
      PROVE  TypeInv'
  BY <1>1, <1>2, <1>4 DEF TypeInv
<1>5. "refused" \in Results /\ "setup" \in Results
  BY DEF Results
<1>6. CASE Execute
  <2>1. PICK args \in Commands[host.commands] :
          launch' = [pc |-> "flags", args |-> args, rest |-> args, active |-> {}, todo |-> <<>>,
                     result |-> "none", times |-> launch.times + 1]
    BY <1>6 DEF Execute
  <2>2. args \in Seq(Tokens) /\ launch.times + 1 \in 0..host.executions
    BY <1>3, <1>6, WebCommands DEF Execute, ParseInv, Host
  <2>3. launch' \in Launches'
    BY <1>1, <2>1, <2>2 DEF Launches, Programs, Results
  <2>4. QED
    BY <1>4, <1>6, <2>1, <2>3 DEF Execute, setup
<1>7. CASE ParseWeb
  <2>1. AfterFlags("web", launch.rest) \in Seq(Tokens)
    BY <1>3, OwnFlagsAre
  <2>2. \/ Return("refused")
        \/ \E s \in Seq(Tokens) : launch' = [launch EXCEPT !.pc = "keyword", !.rest = s]
    BY <1>7, <2>1 DEF ParseWeb
  <2>3. launch' \in Launches' /\ launch'.active = launch.active
        /\ launch'.pc \in {"returned", "keyword"}
    BY <1>1, <1>5, <2>2, LaunchTypes
  <2>4. QED
    BY <1>2, <1>4, <1>7, <2>3 DEF ParseWeb, setup
<1>8. CASE ParseKeyword
  <2> DEFINE k == Head(launch.rest)
             s == Tail(launch.rest)
  <2>1. k \in Range(host.order) /\ launch.rest # <<>> /\ launch.pc = "keyword"
    BY <1>8 DEF ParseKeyword, AtKeyword
  <2>2. k \in Keywords /\ s \in Seq(Tokens)
    BY <1>3, <2>1, RangeIn
  <2>3. \/ Return("refused")
        \/ launch' = [launch EXCEPT !.rest = AfterFlags(k, s), !.active = @ \cup {k}]
    BY <1>8 DEF ParseKeyword
  <2> HIDE DEF k, s
  <2>4. AfterFlags(k, s) \in Seq(Tokens)
    BY <2>2, OwnFlagsAre
  <2>5. launch' \in Launches' /\ launch'.active \subseteq launch.active \cup {k}
        /\ launch'.pc \in {"returned", "keyword"}
    BY <1>1, <1>5, <2>1, <2>2, <2>3, <2>4, LaunchTypes
  <2>6. QED
    BY <1>2, <1>4, <1>8, <2>1, <2>5 DEF ParseKeyword, setup
<1>9. CASE BeginRun
  <2> DEFINE t == Kept(host.order, launch.active)
  <2>1. t \in Seq(Keywords) /\ Range(t) = Range(host.order) \cap launch.active
    BY <1>3, KeptRange
  <2>2. launch.active # {} => t # <<>>
    <3>1. Range(<<>>) = {}
      BY DEF Range
    <3>2. QED
      BY <1>2, <2>1, <3>1
  <2>3. \/ Return("refused")
        \/ launch.active # {} /\ launch' = [launch EXCEPT !.pc = "host", !.todo = t]
    BY <1>9 DEF BeginRun
  <2> HIDE DEF t
  <2>4. "host" \in Programs
    BY DEF Programs
  <2>5. /\ launch' \in Launches' /\ launch'.active = launch.active
        /\ launch'.pc \in {"host", "sub"} => launch'.todo # <<>>
    BY <1>1, <1>5, <2>1, <2>2, <2>3, <2>4, LaunchTypes
  <2>6. config' \in Nat /\ router' \in Seq(Mounts) /\ UNCHANGED <<captured, lro>>
    BY <1>2, <1>3, <1>9 DEF BeginRun, SessionService
  <2>7. QED
    BY <1>1, <1>2, <2>5, <2>6 DEF TypeInv
<1>10. CASE SetupHostRoutes
  <2>1. (Return("setup") \/ Step("sub")) /\ At("host")
    BY <1>10 DEF SetupHostRoutes
  <2>2. "sub" \in Programs
    BY DEF Programs
  <2>3. /\ launch' \in Launches' /\ launch'.active = launch.active
        /\ launch'.pc \in {"host", "sub"} => launch'.todo # <<>>
    BY <1>1, <1>2, <1>5, <2>1, <2>2, LaunchTypes
  <2>4. captured' \in {captured, config} /\ UNCHANGED <<config, router, lro>>
    BY <1>10 DEF SetupHostRoutes
  <2>5. QED
    BY <1>1, <1>2, <2>3, <2>4 DEF TypeInv
<1>11. CASE SetupSubrouter
  <2> DEFINE t == Tail(launch.todo)
  <2>1. launch.todo # <<>>
    BY <1>2, <1>11 DEF SetupSubrouter
  <2>2. t \in Seq(Keywords) /\ (t = <<>> => Len(launch.todo) = 1)
    <3>1. t \in Seq(Keywords) /\ Len(t) = Len(launch.todo) - 1 /\ Len(launch.todo) \in Nat
      BY <1>3, <2>1, HeadTailProperties
    <3> HIDE DEF t
    <3>2. t = <<>> => Len(t) = 0
      OBVIOUS
    <3>3. QED
      BY <3>1, <3>2
  <2>3. \/ Return("setup")
        \/ \E p \in {"mount", "host"} :
             /\ p = "host" => Len(launch.todo) # 1
             /\ launch' = [launch EXCEPT !.todo = t, !.pc = p]
    BY <1>11 DEF SetupSubrouter, Mounted
  <2> HIDE DEF t
  <2>4. "mount" \in Programs /\ "host" \in Programs
    BY DEF Programs
  <2>5. /\ launch' \in Launches' /\ launch'.active = launch.active
        /\ launch'.pc \in {"host", "sub"} => launch'.todo # <<>>
    <3>1. CASE Return("setup")
      BY <1>1, <1>5, <3>1, LaunchTypes
    <3>2. CASE \E p \in {"mount", "host"} :
                 /\ p = "host" => Len(launch.todo) # 1
                 /\ launch' = [launch EXCEPT !.todo = t, !.pc = p]
      <4>1. PICK p \in {"mount", "host"} :
                 /\ p = "host" => Len(launch.todo) # 1
                 /\ launch' = [launch EXCEPT !.todo = t, !.pc = p]
        BY <3>2
      <4>2. /\ launch' \in Launches' /\ launch'.active = launch.active
            /\ launch'.todo = t /\ launch'.pc = p
        BY <1>1, <2>2, <2>4, <4>1, LaunchTypes
      <4>3. QED
        BY <2>2, <4>1, <4>2
    <3>3. QED
      BY <2>3, <3>1, <3>2
  <2>6. \/ router' = router
        \/ router' = Append(router, [prefix |-> <<"api">>, to |-> "api"])
        \/ router' = Append(router, [prefix |-> flags.lro, to |-> "lro"])
    BY <1>11 DEF SetupSubrouter, Mounted
  <2>7. /\ [prefix |-> <<"api">>, to |-> "api"] \in Mounts
        /\ [prefix |-> flags.lro, to |-> "lro"] \in Mounts
    <3>1. flags.lro \in Paths
      BY DEF MuxInv, FlagValues
    <3>2. QED
      BY <3>1 DEF Mounts, Keywords
  <2>8. router' \in Seq(Mounts)
    <3>1. \A m \in Mounts : Append(router, m) \in Seq(Mounts)
      BY <1>2, AppendProperties
    <3>2. QED
      BY <1>2, <2>6, <2>7, <3>1
  <2>9. lro' \in [client : BOOLEAN, built : Nat] /\ UNCHANGED <<config, captured>>
    <3>1. \/ lro' = lro
          \/ lro' = [client |-> TRUE, built |-> lro.built + 1]
      BY <1>11, SubrouterStep DEF LaunchInv
    <3>2. UNCHANGED <<config, captured>>
      BY <1>11 DEF SetupSubrouter
    <3>3. lro.built + 1 \in Nat
      BY <1>2
    <3>4. CASE lro' = [client |-> TRUE, built |-> lro.built + 1]
      BY <3>2, <3>3, <3>4
    <3>5. CASE lro' = lro
      BY <1>2, <3>2, <3>5
    <3>6. QED
      BY <3>1, <3>4, <3>5
  <2>10. QED
    BY <1>1, <1>2, <2>5, <2>8, <2>9 DEF TypeInv
<1>12. QED
  BY <1>6, <1>7, <1>8, <1>9, <1>10, <1>11

\* The steps of the rest of Run.
LEMMA RunTypes ==
  ASSUME LaunchInv, TypeInv, StartServer \/ InitTelemetry \/ SelectDone \/ SelectServer \/ Shutdown
  PROVE  TypeInv'
<1> USE DEF At
<1>1. UNCHANGED <<host, config, captured, router, lro, ctxDone, open>>
  BY DEF StartServer, InitTelemetry, SelectDone, SelectServer, Shutdown, setup
<1>2. \/ \E p \in {"telemetry", "select", "shutdown"} : Step(p)
      \/ \E r \in {"panic", "telemetry", "nil", "server", "shutdown"} : Return(r)
  <2>1. CASE Shutdown
    <3>1. PICK serverErr \in ShutdownResult, telemetryErr \in {"nil", "shutdown"} :
            Return(Joined(serverErr, telemetryErr))
      BY <2>1 DEF Shutdown
    <3>2. Joined(serverErr, telemetryErr) \in {"nil", "shutdown"}
      BY <3>1 DEF Joined, ShutdownResult
    <3>3. QED
      BY <3>1, <3>2
  <2>2. QED
    BY <2>1 DEF StartServer, InitTelemetry, SelectDone, SelectServer
<1>3. /\ launch' \in Launches' /\ launch'.active = launch.active
      /\ launch'.pc \notin {"host", "sub"}
  <2>1. {"telemetry", "select", "shutdown"} \subseteq Programs
        /\ {"panic", "telemetry", "nil", "server", "shutdown"} \subseteq Results
    BY DEF Programs, Results
  <2>2. QED
    BY <1>1, <1>2, <2>1, LaunchTypes
<1>4. server' \in {"new", "starting", "listening", "failed", "closed"}
      /\ telemetry' \in {"off", "up", "down"}
  BY DEF StartServer, InitTelemetry, SelectDone, SelectServer, Shutdown, TypeInv
<1>5. /\ go' \in [pc : {"none", "serve", "send", "close", "ended"}, errs : {0, 1}]
      /\ go'.pc = "send" => go'.errs = 0
  <2>1. CASE StartServer
    BY <2>1 DEF StartServer, TypeInv
  <2>2. CASE SelectServer
    <3>1. go.errs > 0 => go.errs = 1
      BY DEF TypeInv
    <3>2. go' \in {[go EXCEPT !.errs = @ - 1], go}
          /\ (go' # go => go.errs > 0)
      BY <2>2 DEF SelectServer
    <3>3. QED
      BY <3>1, <3>2 DEF TypeInv
  <2>3. CASE go' = go
    BY <2>3 DEF TypeInv
  <2>4. QED
    BY <2>1, <2>2, <2>3 DEF InitTelemetry, SelectDone, Shutdown
<1>6. QED
  BY <1>1, <1>3, <1>4, <1>5 DEF TypeInv

\* The steps of the goroutine, the server, the clients and the host.
LEMMA OtherTypes ==
  ASSUME LaunchInv, TypeInv, Goroutine \/ ServerBreaks \/ Request \/ Cancel \/ UNCHANGED vars
  PROVE  TypeInv'
<1>1. UNCHANGED <<host, launch, config, captured, router, lro, telemetry>>
  BY DEF Goroutine, Listen, ServerClosed, SendError, CloseChannel, ServerBreaks, Request, Cancel,
         vars, setup, serving
<1>2. /\ launch' \in Launches' /\ launch'.active \subseteq Range(host'.order)
      /\ At("host")' \/ At("sub")' => launch'.todo # <<>>
  BY <1>1 DEF TypeInv, Launches, At
<1>3. open' \in 0..MaxOpen /\ ctxDone' \in BOOLEAN
  <2>1. CASE Request
    <3>1. /\ open \in 0..MaxOpen /\ ctxDone' = ctxDone
          /\ \/ open < MaxOpen /\ open' = open + 1
             \/ open > 0 /\ open' = open - 1
      BY <2>1 DEF Request, TypeInv
    <3>2. QED
      BY <3>1, WebBound DEF TypeInv
  <2>2. CASE Cancel
    BY <2>2 DEF Cancel, TypeInv
  <2>3. CASE Goroutine \/ ServerBreaks \/ UNCHANGED vars
    BY <2>3 DEF TypeInv, Goroutine, Listen, ServerClosed, SendError, CloseChannel, ServerBreaks,
                vars
  <2>4. QED
    BY <2>1, <2>2, <2>3
<1>4. server' \in {"new", "starting", "listening", "failed", "closed"}
  BY DEF TypeInv, Goroutine, Listen, ServerClosed, SendError, CloseChannel, ServerBreaks, Request,
         Cancel, vars, serving
<1>5. /\ go' \in [pc : {"none", "serve", "send", "close", "ended"}, errs : {0, 1}]
      /\ go'.pc = "send" => go'.errs = 0
  <2>1. CASE Listen \/ ServerBreaks
    <3>1. go.errs = 0
      BY <2>1 DEF Listen, ServerBreaks, LaunchInv, GoInv
    <3>2. go' \in {go, [go EXCEPT !.pc = "send"]}
      BY <2>1 DEF Listen, ServerBreaks
    <3>3. QED
      BY <3>1, <3>2 DEF TypeInv
  <2>2. CASE SendError
    BY <2>2 DEF SendError, TypeInv
  <2>3. CASE ServerClosed \/ CloseChannel
    BY <2>3 DEF ServerClosed, CloseChannel, TypeInv
  <2>4. CASE Request \/ Cancel \/ UNCHANGED vars
    BY <2>4 DEF Request, Cancel, vars, serving, TypeInv
  <2>5. QED
    BY <2>1, <2>2, <2>3, <2>4 DEF Goroutine
<1>6. QED
  BY <1>1, <1>2, <1>3, <1>4, <1>5 DEF TypeInv

\* The types, in every state.
LEMMA TypeInvariance == Spec => []TypeInv
<1>1. Init => TypeInv
  <2> SUFFICES ASSUME Init
               PROVE  TypeInv
    OBVIOUS
  <2>1. host \in Host
    BY WebHosts DEF Init
  <2>2. host.client \in BOOLEAN /\ host.executions \in Nat
    BY <2>1 DEF Host
  <2>3. launch \in Launches
    BY <2>2 DEF Init, Launches, Programs, Results
  <2>4. /\ launch.active = {} /\ ~At("host") /\ ~At("sub")
    BY DEF Init, At
  <2>5. /\ host \in Hosts /\ config \in Nat /\ captured \in Nat /\ router \in Seq(Mounts)
        /\ lro \in [client : BOOLEAN, built : Nat]
    BY <2>2 DEF Init
  <2>6. /\ server = "new" /\ go = [pc |-> "none", errs |-> 0] /\ telemetry = "off"
        /\ ctxDone = FALSE /\ open \in 0..MaxOpen
    BY WebBound DEF Init
  <2>7. QED
    BY <2>3, <2>4, <2>5, <2>6 DEF TypeInv
<1>2. LaunchInv /\ ParseInv /\ MuxInv /\ TypeInv /\ [Next]_vars => TypeInv'
  BY SetupTypes, RunTypes, OtherTypes DEF Next, Launcher
<1>3. QED
  BY <1>1, <1>2, LaunchInvariance, MuxInvariance, PTL DEF Spec

\* Every variable keeps its type: flags hold paths without a trailing slash
\* (agui/agui.go and lro/lro.go, Parse), and the channel its one error
\* (web/web.go, Run).
THEOREM TypeCorrect == Spec => []TypeOK
<1>1. MuxInv /\ TypeInv => TypeOK
  <2> SUFFICES ASSUME MuxInv, TypeInv
               PROVE  TypeOK
    OBVIOUS
  <2>1. \A i \in DOMAIN mux : mux[i].method \in {"GET", "POST", "DELETE", "OPTIONS", "ANY"}
    <3>1. \A i \in DOMAIN mux : mux[i] \in Patterns
      BY DEF MuxInv, Registers
    <3>2. QED
      BY <3>1 DEF Patterns
  <2>2. \A i \in DOMAIN router : router[i].prefix \in Paths \cup {<<"api">>}
    <3>1. \A i \in DOMAIN router : router[i] \in Mounts
      BY DEF TypeInv
    <3>2. QED
      BY <3>1 DEF Mounts
  <2>3. 0..Capacity = {0, 1}
    BY DEF Capacity
  <2>4. flags \in FlagValues /\ once \in [HostSubs -> {"new", "done", "failed"}] /\ grpc \in Nat
    BY DEF MuxInv, Services
  <2>5. QED
    BY <2>1, <2>2, <2>3, <2>4 DEF TypeInv, TypeOK, Launches, Programs, Results, FlagValues
<1>2. QED
  BY <1>1, MuxInvariance, TypeInvariance, PTL

-----------------------------------------------------------------------------
(* The command line.                                                        *)

\* WellFormed, token by token.
Fine(order, args, i) ==
  IF IsFlag(args[i])
    THEN OwnerOf(args, i) \in DOMAIN FlagsOf /\ args[i] \in FlagsOf[OwnerOf(args, i)]
    ELSE args[i] \in Range(order)
Good(order, args) ==
  /\ IsInjective(order) /\ Words(args) # {}
  /\ \A i \in DOMAIN args : Fine(order, args, i)
  /\ \A i, j \in Words(args) : args[i] = args[j] => i = j

\* Where the loop of Parse is: it has taken all tokens but the rest, they were
\* fine, their words differ and are the active sublaunchers, and the next token
\* is a word.
Consumed(order, args, rest, active) ==
  LET c == Len(args) - Len(rest)
  IN  /\ Len(rest) <= Len(args)
      /\ \A i \in 1..Len(rest) : rest[i] = args[c + i]
      /\ \A i \in 1..c : Fine(order, args, i)
      /\ \A i, j \in Words(args) : i <= c /\ j <= c /\ args[i] = args[j] => i = j
      /\ active = {args[i] : i \in {i \in Words(args) : i <= c}}
      /\ rest # <<>> => ~IsFlag(rest[1])
GrammarInv ==
  LET good == Good(host.order, launch.args)
  IN  /\ At("flags") => launch.rest = launch.args /\ launch.active = {}
      /\ At("keyword") =>
           /\ IsInjective(host.order)
           /\ Consumed(host.order, launch.args, launch.rest, launch.active)
      /\ launch.pc \in Programs \ {"idle", "flags", "keyword", "returned"} =>
           good /\ launch.active = {launch.args[i] : i \in Words(launch.args)}
      /\ At("returned") => (launch.result = "refused" <=> ~good)

\* What flags are.
LEMMA FlagFacts ==
  /\ Keywords \cup {"web"} = DOMAIN FlagsOf
  /\ \A k \in Keywords \cup {"web"} : \A token \in FlagsOf[k] : IsFlag(token)
<1>1. Keywords \cup {"web"} = DOMAIN FlagsOf
  BY DEF Keywords, FlagsOf
<1>2. QED
  BY <1>1, Zenon DEF IsFlag

\* A flag belongs to the last word before it ...
LEMMA OwnerIsWord ==
  ASSUME NEW args \in Seq(Tokens), NEW w \in DOMAIN args, ~IsFlag(args[w]),
         NEW i \in DOMAIN args, w < i, \A j \in DOMAIN args : w < j /\ j < i => IsFlag(args[j])
  PROVE  OwnerOf(args, i) = args[w]
<1> DEFINE before == {j \in Words(args) : j < i}
           m == CHOOSE j \in before : \A l \in before : l <= j
<1>1. DOMAIN args \subseteq Nat
  OBVIOUS
<1>2. before \subseteq Nat /\ w \in before
  BY <1>1 DEF Words
<1>3. \A l \in before : l <= w
  <2> TAKE l \in before
  <2>1. l \in DOMAIN args /\ ~IsFlag(args[l]) /\ l < i /\ l \in Nat /\ w \in Nat
    BY <1>1 DEF Words
  <2>2. QED
    BY <2>1
<1> HIDE DEF before
<1>4. m \in before /\ \A l \in before : l <= m
  BY <1>2, <1>3, Zenon
<1>5. m = w
  <2> HIDE DEF m
  <2>1. QED
    BY <1>2, <1>3, <1>4
<1>6. before # {}
  BY <1>2
<1>7. OwnerOf(args, i) = args[m]
  BY <1>6 DEF OwnerOf, before
<1>8. QED
  BY <1>5, <1>7

\* ... or to "web" when there is none.
LEMMA OwnerIsWeb ==
  ASSUME NEW args \in Seq(Tokens), NEW i \in DOMAIN args,
         \A j \in DOMAIN args : j < i => IsFlag(args[j])
  PROVE  OwnerOf(args, i) = "web"
<1>1. {j \in Words(args) : j < i} = {}
  BY DEF Words
<1>2. QED
  BY <1>1 DEF OwnerOf

\* The flags of "web" are taken as the grammar says.
LEMMA WebTaken ==
  ASSUME NEW order, NEW args \in Seq(Tokens)
  PROVE  /\ BadFlag("web", args) => ~Good(order, args)
         /\ ~BadFlag("web", args) => Consumed(order, args, AfterFlags("web", args), {})
<1> DEFINE n == Len(OwnFlags("web", args))
           rest == AfterFlags("web", args)
           N == Len(args)
<1>1. /\ n \in 0..N
      /\ \A i \in 1..n : args[i] \in FlagsOf["web"]
      /\ n < N => args[n + 1] \notin FlagsOf["web"]
      /\ rest \in Seq(Tokens) /\ Len(rest) = N - n
      /\ \A i \in 1..(N - n) : rest[i] = args[n + i]
  BY OwnFlagsAre
<1>2. N \in Nat /\ DOMAIN args = 1..N
  OBVIOUS
<1>3. rest # <<>> => Len(rest) # 0 /\ Head(rest) = rest[1]
  BY <1>1
<1> HIDE DEF n, rest, N
<1>4. \A i \in 1..n : IsFlag(args[i])
  BY <1>1, FlagFacts
<1>5. ASSUME NEW i \in DOMAIN args, i <= n + 1
      PROVE  OwnerOf(args, i) = "web"
  <2>1. \A j \in DOMAIN args : j < i => IsFlag(args[j])
    BY <1>1, <1>2, <1>4, <1>5
  <2>2. QED
    BY <2>1, OwnerIsWeb
<1>6. ASSUME BadFlag("web", args)
      PROVE  ~Good(order, args)
  <2>1. rest # <<>> /\ IsFlag(Head(rest))
    BY <1>6 DEF BadFlag, rest
  <2>2. n < N /\ rest[1] = args[n + 1] /\ n + 1 \in DOMAIN args
    BY <1>1, <1>2, <1>3, <2>1
  <2>3. IsFlag(args[n + 1]) /\ args[n + 1] \notin FlagsOf[OwnerOf(args, n + 1)]
    BY <1>1, <1>2, <1>3, <1>5, <2>1, <2>2
  <2>4. ~Fine(order, args, n + 1)
    BY <2>3 DEF Fine
  <2>5. QED
    BY <2>2, <2>4 DEF Good
<1>7. ASSUME ~BadFlag("web", args)
      PROVE  Consumed(order, args, rest, {})
  <2>1. N - Len(rest) = n /\ Len(rest) <= N
    BY <1>1, <1>2
  <2>2. \A i \in 1..n : Fine(order, args, i)
    <3> TAKE i \in 1..n
    <3>1. i \in DOMAIN args /\ i <= n + 1
      BY <1>1, <1>2
    <3>2. OwnerOf(args, i) = "web" /\ IsFlag(args[i]) /\ args[i] \in FlagsOf["web"]
      BY <1>1, <1>4, <1>5, <3>1
    <3>3. "web" \in DOMAIN FlagsOf
      BY FlagFacts
    <3>4. QED
      BY <3>2, <3>3 DEF Fine
  <2>3. {i \in Words(args) : i <= n} = {}
    BY <1>1, <1>2, <1>4 DEF Words
  <2>4. rest # <<>> => ~IsFlag(rest[1])
    BY <1>3, <1>7 DEF BadFlag, rest
  <2>5. \A i \in 1..Len(rest) : rest[i] = args[n + i]
    BY <1>1
  <2>6. \A i, j \in Words(args) : i <= n /\ j <= n /\ args[i] = args[j] => i = j
    BY <2>3
  <2>7. {} = {args[i] : i \in {i \in Words(args) : i <= n}}
    BY <2>3
  <2>8. QED
    BY <2>1, <2>2, <2>4, <2>5, <2>6, <2>7 DEF Consumed, N
<1>8. QED
  BY <1>6, <1>7 DEF rest

\* A turn of the loop takes a keyword and its flags as the grammar says.
LEMMA KeywordTaken ==
  ASSUME NEW order \in Seq(Keywords), NEW args \in Seq(Tokens), NEW rest \in Seq(Tokens),
         NEW active, Consumed(order, args, rest, active),
         rest # <<>>, rest[1] \in Range(order)
  PROVE  LET k == rest[1]
             s == Tail(rest)
         IN  /\ k \in active => ~Good(order, args)
             /\ BadFlag(k, s) => ~Good(order, args)
             /\ k \notin active /\ ~BadFlag(k, s) =>
                  Consumed(order, args, AfterFlags(k, s), active \cup {k})
<1> DEFINE k == rest[1]
           s == Tail(rest)
           n == Len(OwnFlags(k, s))
           after == AfterFlags(k, s)
           N == Len(args)
           c == N - Len(rest)
<1>1. /\ N \in Nat /\ DOMAIN args = 1..N /\ Len(rest) \in Nat /\ Len(rest) # 0
      /\ s \in Seq(Tokens) /\ Len(s) = Len(rest) - 1
      /\ \A i \in 1..Len(s) : s[i] = rest[i + 1]
  OBVIOUS
<1>2. /\ c \in Nat /\ c < N /\ Len(s) = N - c - 1
      /\ \A i \in 1..Len(rest) : rest[i] = args[c + i]
  BY <1>1 DEF Consumed
<1>3. /\ \A i \in 1..c : Fine(order, args, i)
      /\ \A i, j \in Words(args) : i <= c /\ j <= c /\ args[i] = args[j] => i = j
      /\ active = {args[i] : i \in {i \in Words(args) : i <= c}}
      /\ ~IsFlag(k)
  BY DEF Consumed
<1>4. /\ n \in 0..Len(s)
      /\ \A i \in 1..n : s[i] \in FlagsOf[k]
      /\ n < Len(s) => s[n + 1] \notin FlagsOf[k]
      /\ after \in Seq(Tokens) /\ Len(after) = Len(s) - n
      /\ \A i \in 1..(Len(s) - n) : after[i] = s[n + i]
  <2> HIDE DEF k, s
  <2>1. QED
    BY <1>1, OwnFlagsAre
<1>5. k \in Keywords
  BY RangeIn
<1>6. after # <<>> => Len(after) # 0 /\ Head(after) = after[1]
  BY <1>4
<1> HIDE DEF n, after
<1>7. k = args[c + 1] /\ c + 1 \in DOMAIN args
  BY <1>1, <1>2
<1>8. \A i \in 1..Len(s) : s[i] = args[c + 1 + i]
  <2> TAKE i \in 1..Len(s)
  <2>1. i + 1 \in 1..Len(rest) /\ c + (i + 1) = c + 1 + i
    BY <1>1, <1>2
  <2>2. QED
    BY <1>1, <1>2, <2>1
<1> HIDE DEF k, s, N, c
<1>9. /\ n \in Nat /\ n <= Len(s) /\ Len(s) \in Nat /\ c \in Nat /\ N \in Nat
      /\ Len(s) = N - c - 1 /\ Len(after) = Len(s) - n
  <2>1. N \in Nat /\ c \in Nat /\ c < N /\ Len(s) = N - c - 1
    BY <1>1, <1>2
  <2>2. Len(s) \in Nat
    BY <2>1
  <2>3. n \in 0..Len(s) /\ Len(after) = Len(s) - n
    BY <1>4
  <2> HIDE DEF s
  <2>4. QED
    BY <2>1, <2>2, <2>3
<1>10. \A i \in 1..n : i \in 1..Len(s)
  BY <1>9
<1>11. \A i \in 1..n : args[c + 1 + i] \in FlagsOf[k] /\ IsFlag(args[c + 1 + i])
  BY <1>4, <1>5, <1>8, <1>10, FlagFacts
<1>12. \A j \in DOMAIN args : c + 1 < j /\ j < c + n + 2 => args[j] \in FlagsOf[k] /\ IsFlag(args[j])
  <2> TAKE j \in DOMAIN args
  <2>1. c + 1 < j /\ j < c + n + 2 => j - c - 1 \in 1..n /\ c + 1 + (j - c - 1) = j
    BY <1>1, <1>9
  <2>2. QED
    BY <1>11, <2>1
<1>13. ASSUME NEW i \in DOMAIN args, c + 1 < i, i <= c + n + 2
       PROVE  OwnerOf(args, i) = k
  <2>1. \A j \in DOMAIN args : c + 1 < j /\ j < i => IsFlag(args[j])
    BY <1>1, <1>2, <1>4, <1>12, <1>13
  <2>2. ~IsFlag(args[c + 1])
    BY <1>3, <1>7
  <2>3. QED
    BY <1>7, <1>13, <2>1, <2>2, OwnerIsWord
<1>14. c + 1 \in Words(args)
  BY <1>3, <1>7 DEF Words
<1>15. ASSUME k \in active
       PROVE  ~Good(order, args)
  <2>1. PICK i \in Words(args) : i <= c /\ args[i] = k
    BY <1>3, <1>15
  <2>2. i # c + 1
    BY <1>2, <2>1
  <2>3. QED
    BY <1>7, <1>14, <2>1, <2>2 DEF Good
<1>16. ASSUME BadFlag(k, s)
       PROVE  ~Good(order, args)
  <2>1. after # <<>> /\ IsFlag(Head(after))
    BY <1>16 DEF BadFlag, after
  <2>2. n < Len(s) /\ after[1] = s[n + 1] /\ n + 1 \in 1..Len(s)
    BY <1>1, <1>4, <1>6, <2>1
  <2>3. s[n + 1] = args[c + n + 2] /\ c + n + 2 \in DOMAIN args
    <3>1. c + 1 + (n + 1) = c + n + 2 /\ c + n + 2 \in 1..N
      BY <1>1, <1>2, <1>4, <2>2
    <3>2. QED
      BY <1>1, <1>8, <2>2, <3>1
  <2>4. OwnerOf(args, c + n + 2) = k
    <3>1. c + 1 < c + n + 2 /\ c + n + 2 <= c + n + 2
      BY <1>9
    <3>2. QED
      BY <1>13, <2>3, <3>1
  <2>5. IsFlag(args[c + n + 2]) /\ args[c + n + 2] \notin FlagsOf[k]
    BY <1>4, <1>6, <2>1, <2>2, <2>3
  <2>6. ~Fine(order, args, c + n + 2)
    BY <2>4, <2>5 DEF Fine
  <2>7. QED
    BY <2>3, <2>6 DEF Good
<1>17. ASSUME k \notin active, ~BadFlag(k, s)
       PROVE  Consumed(order, args, after, active \cup {k})
  <2> DEFINE d == c + 1 + n
  <2>1. /\ N - Len(after) = d /\ Len(after) <= N /\ d \in Nat
        /\ \A i \in 1..Len(after) : after[i] = args[d + i]
    <3>1. N - Len(after) = d /\ Len(after) <= N /\ d \in Nat /\ Len(after) = Len(s) - n
      BY <1>9
    <3>2. ASSUME NEW i \in 1..Len(after)
          PROVE  after[i] = args[d + i]
      <4>1. n + i \in 1..Len(s) /\ c + 1 + (n + i) = d + i /\ i \in 1..(Len(s) - n)
        BY <1>1, <1>2, <1>4
      <4>2. QED
        BY <1>4, <1>8, <4>1
    <3>3. QED
      BY <3>1, <3>2
  <2>2. \A i \in 1..d : Fine(order, args, i)
    <3> SUFFICES ASSUME NEW i \in 1..d
                 PROVE  Fine(order, args, i)
      OBVIOUS
    <3>1. CASE i <= c
      BY <1>2, <1>3, <3>1
    <3>2. CASE i = c + 1
      BY <1>3, <1>7, <3>2 DEF Fine, k
    <3>3. CASE i > c + 1
      <4>1. i \in DOMAIN args /\ c + 1 < i /\ i <= c + n + 2 /\ i < c + n + 2
        BY <1>1, <1>9, <3>3
      <4>2. OwnerOf(args, i) = k /\ args[i] \in FlagsOf[k] /\ IsFlag(args[i])
        BY <1>12, <1>13, <4>1
      <4>3. k \in DOMAIN FlagsOf
        BY <1>5, FlagFacts
      <4>4. QED
        BY <4>2, <4>3 DEF Fine
    <3>4. QED
      BY <1>2, <1>4, <3>1, <3>2, <3>3
  <2>3. ASSUME NEW i \in Words(args)
        PROVE  i <= d <=> i <= c \/ i = c + 1
    <3>1. i \in DOMAIN args /\ i \in Nat /\ ~IsFlag(args[i])
      BY <1>1 DEF Words
    <3>2. ~(c + 1 < i /\ i < c + n + 2)
      BY <1>12, <3>1
    <3>3. QED
      BY <1>2, <1>4, <3>1, <3>2
  <2>4. \A i, j \in Words(args) : i <= d /\ j <= d /\ args[i] = args[j] => i = j
    <3>1. \A i \in Words(args) : i <= c => args[i] # args[c + 1]
      BY <1>3, <1>7, <1>17
    <3>2. QED
      BY <1>3, <2>3, <3>1
  <2>5. active \cup {k} = {args[i] : i \in {i \in Words(args) : i <= d}}
    <3>1. {i \in Words(args) : i <= d} = {i \in Words(args) : i <= c} \cup {c + 1}
      BY <1>14, <2>3
    <3>2. QED
      BY <1>3, <1>7, <3>1
  <2>6. after # <<>> => ~IsFlag(after[1])
    BY <1>6, <1>17 DEF BadFlag, after
  <2> HIDE DEF d
  <2>7. QED
    BY <2>1, <2>2, <2>4, <2>5, <2>6 DEF Consumed, N
<1>18. QED
  BY <1>15, <1>16, <1>17 DEF k, s, after

\* When the loop ends the rest decides.
LEMMA RestDecides ==
  ASSUME NEW order, NEW args \in Seq(Tokens), NEW rest \in Seq(Tokens),
         NEW active, Consumed(order, args, rest, active), IsInjective(order),
         rest = <<>> \/ rest[1] \notin Range(order)
  PROVE  /\ rest # <<>> => ~Good(order, args)
         /\ rest = <<>> => /\ active = {args[i] : i \in Words(args)}
                           /\ Good(order, args) <=> active # {}
<1> DEFINE N == Len(args)
           c == N - Len(rest)
<1>1. /\ N \in Nat /\ DOMAIN args = 1..N /\ Len(rest) \in Nat
      /\ (rest = <<>> <=> Len(rest) = 0)
  OBVIOUS
<1>2. ASSUME rest # <<>>
      PROVE  ~Good(order, args)
  <2>1. rest[1] = args[c + 1] /\ ~IsFlag(rest[1]) /\ c + 1 \in DOMAIN args
    <3>1. 1 \in 1..Len(rest) /\ c + 1 \in 1..N
      BY <1>1, <1>2 DEF Consumed
    <3>2. QED
      BY <1>1, <1>2, <3>1 DEF Consumed
  <2>2. ~Fine(order, args, c + 1)
    BY <1>2, <2>1 DEF Fine
  <2>3. QED
    BY <2>1, <2>2 DEF Good
<1>3. ASSUME rest = <<>>
      PROVE  /\ active = {args[i] : i \in Words(args)}
             /\ Good(order, args) <=> active # {}
  <2>1. c = N /\ {i \in Words(args) : i <= c} = Words(args)
    BY <1>1, <1>3 DEF Words
  <2>2. active = {args[i] : i \in Words(args)}
    BY <2>1 DEF Consumed
  <2>3. \A i \in DOMAIN args : Fine(order, args, i)
    BY <1>1, <2>1 DEF Consumed
  <2>4. \A i, j \in Words(args) : args[i] = args[j] => i = j
    BY <1>1, <2>1 DEF Consumed, Words
  <2>5. QED
    BY <2>2, <2>3, <2>4 DEF Good
<1>4. QED
  BY <1>2, <1>3

\* Parse keeps what it has taken, and refuses exactly what is not good.
LEMMA ParseKeepsGrammar ==
  ASSUME LaunchInv, ParseInv, TypeInv, GrammarInv,
         Execute \/ ParseWeb \/ ParseKeyword \/ BeginRun
  PROVE  GrammarInv'
<1> USE DEF At
<1> DEFINE order == host.order
           args == launch.args
           rest == launch.rest
           active == launch.active
<1>1. /\ IsLaunch(launch) /\ host' = host /\ order \in Seq(Keywords)
      /\ args \in Seq(Tokens) /\ rest \in Seq(Tokens)
  BY DEF LaunchInv, Records, ParseInv, Host, Execute, ParseWeb, ParseKeyword, BeginRun
<1>2. /\ launch.pc = "flags" => rest = args /\ active = {}
      /\ launch.pc = "keyword" => IsInjective(order) /\ Consumed(order, args, rest, active)
  BY DEF GrammarInv
<1>3. rest # <<>> => Head(rest) = rest[1]
  BY <1>1
<1>4. ASSUME Return("refused"), ~Good(order, args)
      PROVE  GrammarInv'
  <2>1. launch'.pc = "returned" /\ launch'.result = "refused" /\ launch'.args = args
    BY <1>1, <1>4 DEF Return, IsLaunch
  <2>2. QED
    BY <1>1, <1>4, <2>1 DEF GrammarInv
<1>5. CASE Execute
  <2>1. launch'.pc = "flags" /\ launch'.rest = launch'.args /\ launch'.active = {}
    BY <1>5 DEF Execute
  <2>2. QED
    BY <2>1 DEF GrammarInv
<1>6. CASE ParseWeb
  <2>1. launch.pc = "flags"
    BY <1>6 DEF ParseWeb
  <2>2. /\ BadFlag("web", args) => ~Good(order, args)
        /\ ~BadFlag("web", args) => Consumed(order, args, AfterFlags("web", args), {})
    BY <1>1, WebTaken
  <2>3. CASE IsInjective(order) /\ ~BadFlag("web", rest)
    <3>1. launch' = [launch EXCEPT !.pc = "keyword", !.rest = AfterFlags("web", @)]
      BY <1>6, <2>3 DEF ParseWeb
    <3>2. /\ launch'.pc = "keyword" /\ launch'.args = args /\ launch'.active = {}
          /\ launch'.rest = AfterFlags("web", args)
      BY <1>1, <1>2, <2>1, <3>1 DEF IsLaunch
    <3>3. Consumed(order, args, AfterFlags("web", args), {})
      BY <1>2, <2>1, <2>2, <2>3
    <3>4. QED
      BY <1>1, <2>3, <3>2, <3>3 DEF GrammarInv
  <2>4. CASE ~IsInjective(order) \/ BadFlag("web", rest)
    <3>1. Return("refused")
      BY <1>6, <2>4 DEF ParseWeb
    <3>2. ~Good(order, args)
      BY <1>2, <2>1, <2>2, <2>4 DEF Good
    <3>3. QED
      BY <1>4, <3>1, <3>2
  <2>5. QED
    BY <2>3, <2>4
<1>7. CASE ParseKeyword
  <2> DEFINE k == rest[1]
             s == Tail(rest)
  <2>1. launch.pc = "keyword" /\ rest # <<>> /\ k \in Range(order)
    BY <1>3, <1>7 DEF ParseKeyword, AtKeyword
  <2>2. /\ k \in active => ~Good(order, args)
        /\ BadFlag(k, s) => ~Good(order, args)
        /\ k \notin active /\ ~BadFlag(k, s) =>
             Consumed(order, args, AfterFlags(k, s), active \cup {k})
    BY <1>1, <1>2, <2>1, KeywordTaken
  <2>3. Head(rest) = k
    BY <1>3, <2>1
  <2>4. CASE k \in active \/ BadFlag(k, s)
    <3>1. Return("refused")
      BY <1>7, <2>3, <2>4 DEF ParseKeyword, Repeated
    <3>2. QED
      BY <1>4, <2>2, <2>4, <3>1
  <2>5. CASE k \notin active /\ ~BadFlag(k, s)
    <3>1. launch' = [launch EXCEPT !.rest = AfterFlags(k, s), !.active = @ \cup {k}]
      BY <1>7, <2>3, <2>5 DEF ParseKeyword, Repeated
    <3> HIDE DEF k, s
    <3>2. /\ launch'.pc = "keyword" /\ launch'.args = args
          /\ launch'.active = active \cup {k} /\ launch'.rest = AfterFlags(k, s)
      BY <1>1, <2>1, <3>1 DEF IsLaunch
    <3>3. QED
      BY <1>1, <1>2, <2>1, <2>2, <2>5, <3>2 DEF GrammarInv
  <2>6. QED
    BY <2>4, <2>5
<1>8. CASE BeginRun
  <2>1. launch.pc = "keyword" /\ (rest = <<>> \/ rest[1] \notin Range(order))
    BY <1>3, <1>8 DEF BeginRun, AtKeyword
  <2>2. /\ rest # <<>> => ~Good(order, args)
        /\ rest = <<>> => /\ active = {args[i] : i \in Words(args)}
                          /\ Good(order, args) <=> active # {}
    <3>1. /\ args \in Seq(Tokens) /\ rest \in Seq(Tokens) /\ IsInjective(order)
          /\ Consumed(order, args, rest, active)
      BY <1>1, <1>2, <2>1
    <3> HIDE DEF args, rest, order, active
    <3>2. QED
      BY <2>1, <3>1, RestDecides
  <2>3. CASE rest # <<>> \/ active = {}
    <3>1. Return("refused")
      BY <1>8, <2>3 DEF BeginRun
    <3>2. QED
      BY <1>4, <2>2, <2>3, <3>1
  <2>4. CASE rest = <<>> /\ active # {}
    <3>1. launch' = [launch EXCEPT !.pc = "host", !.todo = Kept(order, active)]
      BY <1>8, <2>4 DEF BeginRun
    <3>2. launch'.pc = "host" /\ launch'.args = args /\ launch'.active = active
      BY <1>1, <3>1 DEF IsLaunch
    <3>3. QED
      BY <1>1, <2>2, <2>4, <3>2 DEF GrammarInv
  <2>5. QED
    BY <2>3, <2>4
<1>9. QED
  BY <1>5, <1>6, <1>7, <1>8

\* The steps after Parse return with errors of their own.
LEMMA RunKeepsGrammar ==
  ASSUME LaunchInv, TypeInv, GrammarInv,
         \/ SetupHostRoutes \/ SetupSubrouter \/ StartServer \/ InitTelemetry \/ SelectDone
         \/ SelectServer \/ Shutdown
  PROVE  GrammarInv'
<1> USE DEF At
<1>1. IsLaunch(launch) /\ host' = host
  BY DEF LaunchInv, Records, SetupHostRoutes, SetupSubrouter, StartServer, InitTelemetry,
         SelectDone, SelectServer, Shutdown
<1>2. launch.pc \in {"host", "sub", "mount", "telemetry", "select", "shutdown"}
  BY DEF SetupHostRoutes, SetupSubrouter, StartServer, InitTelemetry, SelectDone, SelectServer,
         Shutdown
<1>3. /\ Good(host.order, launch.args)
      /\ launch.active = {launch.args[i] : i \in Words(launch.args)}
  BY <1>2 DEF GrammarInv, Programs
<1>4. \/ \E p \in {"sub", "telemetry", "select", "shutdown"} : Step(p)
      \/ \E r \in Results \ {"refused"} : Return(r)
      \/ \E p \in {"mount", "host"} : \E t : launch' = [launch EXCEPT !.todo = t, !.pc = p]
  <2>1. CASE Shutdown
    <3>1. PICK serverErr \in ShutdownResult, telemetryErr \in {"nil", "shutdown"} :
            Return(Joined(serverErr, telemetryErr))
      BY <2>1 DEF Shutdown
    <3>2. Joined(serverErr, telemetryErr) \in Results \ {"refused"}
      BY <3>1 DEF Joined, ShutdownResult, Results
    <3>3. QED
      BY <3>1, <3>2
  <2>2. CASE SetupSubrouter
    <3>1. \/ Return("setup")
          \/ \E p \in {"mount", "host"} : launch' = [launch EXCEPT !.todo = Tail(@), !.pc = p]
      BY <2>2 DEF SetupSubrouter, Mounted
    <3>2. QED
      BY <3>1 DEF Results
  <2>3. CASE SetupHostRoutes \/ StartServer \/ InitTelemetry \/ SelectDone \/ SelectServer
    BY <2>3 DEF SetupHostRoutes, StartServer, InitTelemetry, SelectDone, SelectServer, Results
  <2>4. QED
    BY <2>1, <2>2, <2>3
<1>5. /\ launch'.args = launch.args /\ launch'.active = launch.active
      /\ launch'.pc \in Programs \ {"idle", "flags", "keyword"}
      /\ launch'.pc = "returned" => launch'.result # "refused"
  BY <1>1, <1>4 DEF Step, Return, IsLaunch, Programs
<1>6. QED
  BY <1>1, <1>3, <1>5 DEF GrammarInv

\* Where Parse is in the command line, in every state.
LEMMA GrammarInvariance == Spec => []GrammarInv
<1>1. Init => GrammarInv
  BY DEF Init, GrammarInv, At
<1>2. LaunchInv /\ ParseInv /\ TypeInv /\ GrammarInv /\ [Next]_vars => GrammarInv'
  <2> SUFFICES ASSUME LaunchInv, ParseInv, TypeInv, GrammarInv, [Next]_vars
               PROVE  GrammarInv'
    OBVIOUS
  <2>1. CASE Execute \/ ParseWeb \/ ParseKeyword \/ BeginRun
    BY <2>1, ParseKeepsGrammar
  <2>2. CASE \/ SetupHostRoutes \/ SetupSubrouter \/ StartServer \/ InitTelemetry \/ SelectDone
             \/ SelectServer \/ Shutdown
    BY <2>2, RunKeepsGrammar
  <2>3. CASE Goroutine \/ ServerBreaks \/ Request \/ Cancel \/ UNCHANGED vars
    <3>1. UNCHANGED <<host, launch>>
      BY <2>3 DEF Goroutine, Listen, ServerClosed, SendError, CloseChannel, ServerBreaks, Request,
                  Cancel, vars
    <3>2. QED
      BY <3>1 DEF GrammarInv, At
  <2>4. QED
    BY <2>1, <2>2, <2>3 DEF Next, Launcher
<1>3. QED
  BY <1>1, <1>2, LaunchInvariance, MuxInvariance, TypeInvariance, PTL DEF Spec

\* A command line is refused exactly when it is not well formed or two
\* sublaunchers share a keyword, and the sublaunchers that run are those it
\* names (web/web.go, Parse): for command lines of any length and any set of
\* sublaunchers, the FlagSets that hand on the rest of the arguments drop and
\* steal nothing.
THEOREM GrammarIsAccepted == Spec => []AcceptsTheGrammar
<1>1. ParseInv /\ TypeInv /\ GrammarInv => AcceptsTheGrammar
  <2> SUFFICES ASSUME ParseInv, TypeInv, GrammarInv
               PROVE  AcceptsTheGrammar
    OBVIOUS
  <2> DEFINE args == launch.args
  <2>1. Good(host.order, args) <=> WellFormed(args) /\ IsInjective(host.order)
    <3>1. Words(args) \subseteq DOMAIN args
          /\ \A i \in DOMAIN args : i \in Words(args) <=> ~IsFlag(args[i])
      BY DEF Words
    <3> HIDE DEF args
    <3>2. QED
      BY <3>1 DEF Good, WellFormed, Fine
  <2>2. launch.pc \in Programs
    BY DEF TypeInv, Launches
  <2>3. QED
    BY <2>1, <2>2 DEF AcceptsTheGrammar, GrammarInv, At, Programs
<1>2. QED
  BY <1>1, MuxInvariance, TypeInvariance, GrammarInvariance, PTL

-----------------------------------------------------------------------------
(* Routing.                                                                 *)

\* A host that tries again may not move the routes of agui: they stay where the
\* Once put them.
PrefixStays == [][once["agui"] = "done" => flags'.agui = flags.agui]_vars

\* The patterns a sublauncher registers.
Targets(k) == {r \in Patterns : r.to \in {k, "cors"}}
RunSSEPattern == Pattern("POST", Append(flags.agui, "run_sse"), "agui")
SchedulerPatterns ==
  {Pattern("POST", <<"jsonrpc">>, "scheduler"), Pattern("POST", <<"cron">>, "scheduler")}

\* Where the patterns of the host mux lead, and which of them are there.
PatternsInv ==
  /\ \A r \in Range(mux) :
       /\ NameOf(r.path) \in AguiNames => r.to \in {"agui", "cors"}
       /\ NameOf(r.path) \in SchedulerNames => r.to \in {"scheduler", "cors"}
  /\ once["agui"] = "done" => RunSSEPattern \in Range(mux)
  /\ once["scheduler"] = "done" => SchedulerPatterns \subseteq Range(mux)

\* How far Run is with its sublaunchers: the host routes of those it is done
\* with are there, the router has the catch-alls of those it is done with, and
\* all are in the order of NewLauncher's arguments.
Underway == launch.pc \in {"host", "sub", "mount"} \/ Started
Gorilla == {"lro", "api"}
PrefixOf(k) == IF k = "api" THEN <<"api">> ELSE flags.lro
SetUp(k) == once[k] = "done" \/ (k \in Range(launch.todo) /\ (At("sub") => k # Head(launch.todo)))
RoutesMount ==
  /\ \A i \in DOMAIN router :
       /\ router[i].to \in Gorilla \cap launch.active
       /\ router[i].prefix = PrefixOf(router[i].to)
       /\ \A j \in DOMAIN router : i < j => Before(host.order, router[i].to, router[j].to)
       /\ \A j \in DOMAIN launch.todo : Before(host.order, router[i].to, launch.todo[j])
  /\ \A k \in Gorilla \cap launch.active :
       k \in Range(launch.todo) \/ \E i \in DOMAIN router : router[i].to = k
SetupInv ==
  Underway =>
    /\ Range(launch.todo) \subseteq launch.active
    /\ At("mount") \/ Started => launch.todo = <<>>
    /\ \A i, j \in DOMAIN launch.todo :
         i < j => Before(host.order, launch.todo[i], launch.todo[j])
    /\ \A k \in HostSubs \cap launch.active : SetUp(k)
    /\ RoutesMount

\* Sequences of targets can be put together.
LEMMA TargetsJoin ==
  ASSUME NEW k, NEW s \in Seq(Targets(k)), NEW t \in Seq(Targets(k))
  PROVE  s \o t \in Seq(Targets(k)) /\ Range(s \o t) = Range(s) \cup Range(t)
<1> DEFINE T == Targets(k)
<1>1. s \in Seq(T) /\ t \in Seq(T)
  OBVIOUS
<1> HIDE DEF T
<1>2. s \o t \in Seq(T) /\ Range(s \o t) = Range(s) \cup Range(t)
  BY <1>1, RangeConcat
<1>3. QED
  BY <1>2 DEF T

\* A route with its preflight leads to agui.
LEMMA RouteTargets ==
  ASSUME NEW path \in Seq(Segments), NEW method \in {"GET", "POST"}
  PROVE  /\ Preflight(path) \in Seq(Targets("agui"))
         /\ Preflight(path) \o <<Pattern(method, path, "agui")>> \in Seq(Targets("agui"))
         /\ Pattern(method, path, "agui") \in
              Range(Preflight(path) \o <<Pattern(method, path, "agui")>>)
<1> DEFINE q == Pattern("OPTIONS", path, "cors")
           r == Pattern(method, path, "agui")
           T == Targets("agui")
<1>1. q \in T /\ r \in T
  BY DEF Patterns, Pattern, Targets
<1> HIDE DEF q, r, T
<1>2. <<r>> \in Seq(T) /\ Range(<<r>>) = {r}
  BY <1>1 DEF Range
<1>3. Preflight(path) \in Seq(T)
  BY <1>1 DEF Preflight, q
<1> DEFINE one == <<r>>
           flight == Preflight(path)
<1> HIDE DEF one, flight
<1>4. one \in Seq(Targets("agui")) /\ flight \in Seq(Targets("agui"))
  BY <1>2, <1>3 DEF T, one, flight
<1>5. /\ flight \o one \in Seq(Targets("agui"))
      /\ Range(flight \o one) = Range(flight) \cup Range(one)
  BY <1>4, TargetsJoin
<1>6. QED
  BY <1>2, <1>4, <1>5 DEF r, one, flight

\* All routes of agui lead to agui, run_sse is one of them.
LEMMA AguiTargets ==
  ASSUME flags \in FlagValues
  PROVE  AguiRoutes \in Seq(Targets("agui")) /\ RunSSEPattern \in Range(AguiRoutes)
<1> DEFINE p == flags.agui
           threads == Append(p, "threads")
           thread == Append(threads, "{threadId}")
           run == Append(p, "run_sse")
           messages == Append(thread, "messages")
           capabilities == Append(p, "capabilities")
           Route(method, path) == Preflight(path) \o <<Pattern(method, path, "agui")>>
           pair == <<Pattern("GET", thread, "agui"), Pattern("DELETE", thread, "agui")>>
           listing == ThreadRoutes(thread) \o Route("GET", threads)
           r1 == Route("POST", run)
           r2 == Route("GET", messages)
           r3 == If(host.threads, listing)
           r4 == If(host.capabilities, Route("GET", capabilities))
           T == Targets("agui")
<1>1. p \in Seq(Segments)
  BY AguiPrefix
<1> HIDE DEF p, T
<1> DEFINE Below(q) == \A name \in AguiNames : Append(q, name) \in Seq(Segments)
<1>0. ASSUME NEW q \in Seq(Segments)
      PROVE  Below(q)
  BY AguiPrefix, BelowPrefix
<1>2. /\ threads \in Seq(Segments) /\ run \in Seq(Segments) /\ capabilities \in Seq(Segments)
  <2>1. Below(p)
    BY <1>0, <1>1
  <2>2. QED
    BY <2>1 DEF AguiNames
<1> HIDE DEF threads, run, capabilities
<1>3. thread \in Seq(Segments)
  <2>1. Below(threads)
    BY <1>0, <1>2
  <2>2. QED
    BY <2>1 DEF AguiNames
<1> HIDE DEF thread
<1>4. messages \in Seq(Segments)
  <2>1. Below(thread)
    BY <1>0, <1>3
  <2>2. QED
    BY <2>1 DEF AguiNames
<1> HIDE DEF messages
<1>5. pair \in Seq(T)
  <2> DEFINE q == Pattern("GET", thread, "agui")
             r == Pattern("DELETE", thread, "agui")
  <2>1. q \in T /\ r \in T
    BY <1>3 DEF Patterns, Pattern, Targets, T
  <2> HIDE DEF q, r
  <2>2. <<q, r>> \in Seq(T)
    BY <2>1
  <2>3. QED
    BY <2>2 DEF q, r
<1>6. listing \in Seq(T)
  <2>1. Preflight(thread) \in Seq(T) /\ Route("GET", threads) \in Seq(T)
    BY <1>2, <1>3, RouteTargets DEF T
  <2>2. ThreadRoutes(thread) = Preflight(thread) \o pair
    BY DEF ThreadRoutes
  <2> HIDE DEF Route, pair
  <2>3. ThreadRoutes(thread) \in Seq(T)
    BY <1>5, <2>1, <2>2, TargetsJoin DEF T
  <2>4. QED
    BY <2>1, <2>3, TargetsJoin DEF T
<1>7. /\ r1 \in Seq(T) /\ r2 \in Seq(T) /\ Route("GET", capabilities) \in Seq(T)
      /\ Pattern("POST", run, "agui") \in Range(r1)
  BY <1>2, <1>4, RouteTargets DEF T
<1>8. AguiRoutes = r1 \o r2 \o r3 \o r4
  BY DEF AguiRoutes, p, threads, run, capabilities, thread, messages
<1>9. RunSSEPattern \in Range(r1)
  BY <1>7 DEF RunSSEPattern, run, p
<1> HIDE DEF listing, Route, r1, r2
<1>10. r3 \in Seq(T) /\ r4 \in Seq(T)
  <2>1. <<>> \in Seq(T)
    OBVIOUS
  <2>2. QED
    BY <1>6, <1>7, <2>1 DEF If
<1> HIDE DEF r3, r4
<1>11. r1 \o r2 \in Seq(T) /\ Range(r1 \o r2) = Range(r1) \cup Range(r2)
  BY <1>7, TargetsJoin DEF T
<1> DEFINE r12 == r1 \o r2
           r123 == r12 \o r3
<1> HIDE DEF r12
<1>12a. r12 \in Seq(T)
  BY <1>11 DEF r12
<1>12. r123 \in Seq(T) /\ Range(r123) = Range(r12) \cup Range(r3)
  BY <1>10, <1>12a, TargetsJoin DEF T
<1> HIDE DEF r123
<1>13. r123 \o r4 \in Seq(T) /\ Range(r123 \o r4) = Range(r123) \cup Range(r4)
  BY <1>10, <1>12, TargetsJoin DEF T
<1>14. AguiRoutes = r123 \o r4
  BY <1>8 DEF r12, r123
<1>15. RunSSEPattern \in Range(AguiRoutes)
  BY <1>9, <1>11, <1>12, <1>13, <1>14 DEF r12
<1>16. QED
  BY <1>13, <1>14, <1>15 DEF T

\* All routes of the scheduler lead to it.
LEMMA SchedulerTargets ==
  /\ SchedulerRoutes \in Seq(Targets("scheduler"))
  /\ SchedulerPatterns \subseteq Range(SchedulerRoutes)
<1> DEFINE o == Pattern("POST", <<"jsonrpc">>, "scheduler")
           q == Pattern("OPTIONS", <<"jsonrpc">>, "cors")
           r == Pattern("POST", <<"cron">>, "scheduler")
           s == <<o, q, r>>
           T == Targets("scheduler")
<1>1. o \in T /\ q \in T /\ r \in T
  <2>1. <<"jsonrpc">> \in Seq(Segments) /\ <<"cron">> \in Seq(Segments)
    BY DEF Segments, SchedulerNames
  <2>2. QED
    BY <2>1 DEF Patterns, Pattern, Targets
<1>2. SchedulerRoutes = s /\ SchedulerPatterns = {o, r}
  BY DEF SchedulerRoutes, SchedulerPatterns
<1> HIDE DEF o, q, r, T
<1>3. s \in Seq(T) /\ Len(s) = 3 /\ s[1] = o /\ s[3] = r
  BY <1>1
<1> HIDE DEF s
<1>4. {o, r} \subseteq Range(s)
  BY <1>3 DEF Range
<1>5. QED
  BY <1>2, <1>3, <1>4 DEF T

\* A mount adds patterns that lead to the sublauncher it mounts.
LEMMA MountTargets ==
  ASSUME MuxInv, PatternsInv, SetupHostRoutes
  PROVE  PatternsInv'
<1> DEFINE k == Head(launch.todo)
           first == k \in HostSubs /\ once[k] = "new"
           mounts == first /\ ~MountFails(k)
           new == HostRoutes(k)
           names == IF k = "agui" THEN AguiNames ELSE SchedulerNames
<1>1. /\ once' = IF first THEN [once EXCEPT ![k] = Outcome(k)] ELSE once
      /\ mux' = IF mounts THEN mux \o new ELSE mux
      /\ UNCHANGED flags
  BY DEF SetupHostRoutes
<1>2. once \in [HostSubs -> {"new", "done", "failed"}] /\ flags \in FlagValues
  BY DEF MuxInv
<1>3. RunSSEPattern' = RunSSEPattern /\ SchedulerPatterns' = SchedulerPatterns
  BY <1>1 DEF RunSSEPattern, SchedulerPatterns, Pattern
<1> HIDE DEF k
<1>4. CASE ~mounts
  <2>1. mux' = mux
    BY <1>1, <1>4
  <2>2. \A s \in HostSubs : once'[s] = "done" => once[s] = "done"
    BY <1>1, <1>2, <1>4 DEF Outcome
  <2>3. QED
    BY <1>3, <2>1, <2>2 DEF PatternsInv, NameOf, HostSubs
<1>5. CASE mounts
  <2>1. k \in {"agui", "scheduler"} /\ once' = [once EXCEPT ![k] = "done"] /\ mux' = mux \o new
    BY <1>1, <1>5 DEF Outcome, HostSubs
  <2>2. /\ new \in Seq(Targets(k))
        /\ k = "agui" => RunSSEPattern \in Range(new)
        /\ k = "scheduler" => SchedulerPatterns \subseteq Range(new)
    BY <1>2, <2>1, AguiTargets, SchedulerTargets DEF HostRoutes
  <2>3. Registers(new, names)
    BY <1>2, <2>1, AguiRegisters, SchedulerRegisters DEF HostRoutes
  <2> HIDE DEF new
  <2>4. \A r \in Range(new) : NameOf(r.path) \in names /\ r.to \in {k, "cors"}
    <3>1. Range(new) \subseteq Targets(k)
      BY <2>2, RangeIn
    <3>2. \A r \in Range(new) : NameOf(r.path) \in names
      BY <2>3 DEF Registers, Range
    <3>3. QED
      BY <3>1, <3>2 DEF Targets
  <2>5. Range(mux') = Range(mux) \cup Range(new)
    <3>1. mux \in Seq(Patterns) /\ new \in Seq(Patterns)
      BY <2>3 DEF MuxInv, Registers
    <3>2. Range(mux \o new) = Range(mux) \cup Range(new)
      BY <3>1, RangeConcat
    <3>3. QED
      BY <2>1, <3>2
  <2>6. AguiNames \cap SchedulerNames = {}
    BY DEF AguiNames, SchedulerNames
  <2>7. \A r \in Range(mux') :
          /\ NameOf(r.path) \in AguiNames => r.to \in {"agui", "cors"}
          /\ NameOf(r.path) \in SchedulerNames => r.to \in {"scheduler", "cors"}
    BY <2>1, <2>4, <2>5, <2>6 DEF PatternsInv
  <2>8. \A s \in HostSubs : once'[s] = IF s = k THEN "done" ELSE once[s]
    BY <1>2, <2>1
  <2>9. /\ once'["agui"] = "done" => RunSSEPattern \in Range(mux')
        /\ once'["scheduler"] = "done" => SchedulerPatterns \subseteq Range(mux')
    BY <2>1, <2>2, <2>5, <2>8 DEF PatternsInv, HostSubs
  <2>10. QED
    BY <1>3, <2>7, <2>9 DEF PatternsInv, NameOf
<1>6. QED
  BY <1>4, <1>5

\* Every step keeps where the patterns lead, if agui's prefix stays.
LEMMA PatternsStep ==
  ASSUME MuxInv, PatternsInv, [Next]_vars, once["agui"] = "done" => flags'.agui = flags.agui
  PROVE  PatternsInv'
<1>1. SchedulerPatterns' = SchedulerPatterns
  BY DEF SchedulerPatterns, Pattern
<1>2. once["agui"] = "done" => RunSSEPattern' = RunSSEPattern
  BY DEF RunSSEPattern, Pattern
<1>3. CASE SetupHostRoutes
  BY <1>3, MountTargets
<1>4. CASE mux' = Append(mux, Root) /\ UNCHANGED once
  <2> DEFINE r == Root
  <2>1. mux' = Append(mux, r) /\ UNCHANGED once
    BY <1>4
  <2>2. r \in Patterns /\ NameOf(r.path) = "/"
    <3>1. <<>> \in Seq(Segments)
      OBVIOUS
    <3>2. QED
      BY <3>1 DEF Root, Pattern, Patterns, NameOf
  <2> HIDE DEF r
  <2>3. Range(mux') = Range(mux) \cup {r}
    <3>1. mux \in Seq(Patterns)
      BY DEF MuxInv, Registers
    <3>2. QED
      BY <2>1, <2>2, <3>1, RangeAppend
  <2>4. "/" \notin AguiNames /\ "/" \notin SchedulerNames
    BY DEF AguiNames, SchedulerNames
  <2>5. \A p \in Range(mux') :
          /\ NameOf(p.path) \in AguiNames => p.to \in {"agui", "cors"}
          /\ NameOf(p.path) \in SchedulerNames => p.to \in {"scheduler", "cors"}
    BY <2>2, <2>3, <2>4 DEF PatternsInv
  <2>6. QED
    BY <1>1, <1>2, <2>1, <2>3, <2>5 DEF PatternsInv, NameOf
<1>5. CASE UNCHANGED <<once, mux>>
  BY <1>1, <1>2, <1>5 DEF PatternsInv, NameOf
<1>6. \/ UNCHANGED <<once, mux>> \/ SetupHostRoutes
      \/ mux' = Append(mux, Root) /\ UNCHANGED once
  BY DEF Next, StartServer, Launcher, Goroutine, Execute, ParseWeb, ParseKeyword, BeginRun,
         SetupSubrouter,
         InitTelemetry, SelectDone, SelectServer, Shutdown, Listen, ServerClosed, SendError,
         CloseChannel, ServerBreaks, Request, Cancel, vars, setup
<1>7. QED
  BY <1>3, <1>4, <1>5, <1>6

\* Run begins with all it has to set up ahead, in the order of the arguments.
LEMMA BeginSetsUp ==
  ASSUME LaunchInv, ParseInv, TypeInv, BeginRun, launch'.pc = "host"
  PROVE  SetupInv'
<1> DEFINE order == host.order
           active == launch.active
           t == Kept(order, active)
<1>1. order \in Seq(Keywords) /\ active \subseteq Range(order) /\ IsLaunch(launch)
  BY DEF ParseInv, Host, TypeInv, LaunchInv, Records
<1>2. launch' = [launch EXCEPT !.pc = "host", !.todo = t] /\ router' = <<>>
  <2>1. ~Return("refused")
    BY <1>1, LaunchChanges DEF LaunchInv
  <2>2. QED
    BY <2>1 DEF BeginRun
<1>3. host' = host /\ ~Started'
  BY DEF BeginRun, Started, At
<1> HIDE DEF order, active, t
<1>4. launch'.pc = "host" /\ launch'.todo = t /\ launch'.active = active
  BY <1>1, <1>2 DEF IsLaunch, active
<1>5. t \in Seq(Keywords) /\ Range(t) = active
  <2>1. t \in Seq(Keywords) /\ Range(t) = Range(order) \cap active
    BY <1>1, KeptRange DEF t
  <2>2. QED
    BY <1>1, <2>1
<1>6. \A i, j \in DOMAIN t : i < j => Before(order, t[i], t[j])
  <2>1. DOMAIN t = 1..Len(t)
    BY <1>5
  <2>2. QED
    BY <1>1, <2>1, KeptOrder DEF t
<1>7. DOMAIN router' = {}
  BY <1>2
<1>8. RoutesMount'
  BY <1>4, <1>5, <1>7 DEF RoutesMount
<1>9. \A k \in HostSubs \cap active : SetUp(k)'
  BY <1>4, <1>5 DEF SetUp, At
<1>10. QED
  BY <1>3, <1>4, <1>5, <1>6, <1>8, <1>9 DEF SetupInv, Underway, At, order

\* The host routes of the sublauncher at hand are there when its subrouter is
\* set up.
LEMMA HostSetsUp ==
  ASSUME LaunchInv, MuxInv, TypeInv, SetupInv, SetupHostRoutes, launch'.pc = "sub"
  PROVE  SetupInv'
<1> DEFINE k == Head(launch.todo)
           first == k \in HostSubs /\ once[k] = "new"
<1>1. /\ once' = IF first THEN [once EXCEPT ![k] = Outcome(k)] ELSE once
      /\ k \in HostSubs /\ (IF first THEN MountFails(k) ELSE once[k] = "failed") => Return("setup")
      /\ Return("setup") \/ Step("sub")
      /\ launch.pc = "host"
      /\ launch'.pc = "sub" /\ ~Started'
      /\ UNCHANGED <<host, flags, router>>
  BY DEF SetupHostRoutes, At, Started
<1> HIDE DEF k
<1>2. IsLaunch(launch) /\ once \in [HostSubs -> {"new", "done", "failed"}]
  BY DEF LaunchInv, Records, MuxInv
<1>3. ~Return("setup")
  BY LaunchChanges DEF LaunchInv
<1>4. launch'.todo = launch.todo /\ launch'.active = launch.active
  BY <1>1, <1>2, <1>3 DEF Step, IsLaunch
<1>5. k \in HostSubs => once'[k] = "done"
  BY <1>1, <1>2, <1>3 DEF Outcome
<1>6. \A s \in HostSubs : once[s] = "done" => once'[s] = "done"
  BY <1>1, <1>2 DEF Outcome
<1>7. Underway
  BY <1>1 DEF Underway
<1>8. \A s \in HostSubs \cap launch.active : SetUp(s)'
  BY <1>4, <1>5, <1>6, <1>7 DEF SetupInv, SetUp, k
<1>9. RoutesMount'
  BY <1>1, <1>4, <1>7 DEF SetupInv, RoutesMount, PrefixOf
<1>10. QED
  BY <1>1, <1>4, <1>7, <1>8, <1>9 DEF SetupInv, At

\* What the setup of a subrouter takes off the list it mounts, or it has nothing
\* to mount.
LEMMA SubrouterSetsUp ==
  ASSUME LaunchInv, ParseInv, MuxInv, TypeInv, SetupInv, SetupSubrouter, launch'.pc # "returned"
  PROVE  SetupInv'
<1> DEFINE todo == launch.todo
           k == Head(launch.todo)
           t == Tail(launch.todo)
           r == [prefix |-> PrefixOf(k), to |-> k]
<1>1. /\ IsLaunch(launch) /\ launch.pc = "sub" /\ Underway
      /\ todo \in Seq(Keywords) /\ todo # <<>> /\ router \in Seq(Mounts)
      /\ UNCHANGED <<host, flags, once>>
  BY DEF SetupSubrouter, LaunchInv, Records, At, Underway, TypeInv, Launches
<1>2. /\ k = todo[1] /\ t \in Seq(Keywords) /\ Len(todo) \in Nat \ {0} /\ Len(t) = Len(todo) - 1
      /\ \A i \in 1..Len(t) : t[i] = todo[i + 1]
  BY <1>1
<1>3. ~Return("setup")
  BY LaunchChanges DEF LaunchInv
<1>4. /\ \/ k \in Gorilla /\ router' = Append(router, r)
         \/ k \in HostSubs /\ router' = router
      /\ \E p \in {"mount", "host"} :
           /\ launch' = [launch EXCEPT !.todo = t, !.pc = p]
           /\ p = "mount" <=> Len(todo) = 1
  <2>1. k \in HostSubs => k \notin Gorilla
    BY DEF HostSubs, Gorilla
  <2> HIDE DEF k, t
  <2>2. CASE k \in HostSubs
    BY <1>3, <2>1, <2>2 DEF SetupSubrouter, Mounted, k, t, Gorilla
  <2>3. CASE k = "api"
    BY <1>3, <2>3 DEF SetupSubrouter, Mounted, k, t, Gorilla, PrefixOf, HostSubs
  <2>4. CASE k = "lro"
    BY <1>3, <2>4 DEF SetupSubrouter, Mounted, k, t, Gorilla, PrefixOf, HostSubs
  <2>5. QED
    BY <2>2, <2>3, <2>4 DEF SetupSubrouter, k
<1> HIDE DEF k, t, r, todo
<1>5. /\ launch'.todo = t /\ launch'.active = launch.active
      /\ launch'.pc \in {"mount", "host"} /\ (launch'.pc = "mount" <=> Len(todo) = 1)
  BY <1>1, <1>4 DEF IsLaunch
<1>6. Range(todo) = Range(t) \cup {k}
  <2>1. DOMAIN t = 1..Len(t) /\ DOMAIN todo = 1..Len(todo)
    BY <1>1, <1>2
  <2>2. \A m \in 1..Len(todo) : m = 1 \/ (m - 1 \in 1..Len(t) /\ m = (m - 1) + 1)
    BY <1>2
  <2>3. \A i \in 1..Len(t) : i + 1 \in 1..Len(todo) /\ todo[i + 1] = t[i]
    BY <1>2
  <2>4. 1 \in 1..Len(todo)
    BY <1>2
  <2>5. \A m \in 1..Len(todo) : m = 1 \/ (m - 1 \in 1..Len(t) /\ todo[m] = t[m - 1])
    BY <2>2, <2>3
  <2>6. ASSUME NEW x \in Range(todo)
        PROVE  x \in Range(t) \cup {k}
    <3>1. PICK m \in 1..Len(todo) : x = todo[m]
      BY <2>1 DEF Range
    <3>2. m = 1 \/ (m - 1 \in DOMAIN t /\ x = t[m - 1])
      BY <2>1, <2>5, <3>1
    <3>3. QED
      BY <1>2, <3>1, <3>2 DEF Range
  <2>7. ASSUME NEW x \in Range(t)
        PROVE  x \in Range(todo)
    <3>1. PICK i \in 1..Len(t) : x = t[i]
      BY <2>1 DEF Range
    <3>2. i + 1 \in DOMAIN todo /\ x = todo[i + 1]
      BY <2>1, <2>3, <3>1
    <3>3. QED
      BY <3>2 DEF Range
  <2>8. k \in Range(todo)
    BY <1>2, <2>1, <2>4 DEF Range
  <2>9. QED
    BY <2>6, <2>7, <2>8
<1>7. /\ Range(todo) \subseteq launch.active
      /\ \A i, j \in DOMAIN todo : i < j => Before(host.order, todo[i], todo[j])
      /\ \A s \in HostSubs \cap launch.active : once[s] = "done" \/ (s \in Range(todo) /\ s # k)
      /\ RoutesMount
  BY <1>1 DEF SetupInv, SetUp, At, todo, k
<1>8. /\ \A j \in DOMAIN t : Before(host.order, k, t[j])
      /\ \A i, j \in DOMAIN t : i < j => Before(host.order, t[i], t[j])
  <2>1. DOMAIN t = 1..Len(t) /\ DOMAIN todo = 1..Len(todo)
    BY <1>1, <1>2
  <2>2. \A i \in 1..Len(t) : i + 1 \in 1..Len(todo) /\ 1 < i + 1 /\ 1 \in 1..Len(todo)
    BY <1>2
  <2>3. \A i, j \in 1..Len(t) : i < j => i + 1 < j + 1
    BY <1>2
  <2>4. QED
    BY <1>2, <1>7, <2>1, <2>2, <2>3
<1>9. \A s \in HostSubs \cap launch.active : SetUp(s)'
  BY <1>1, <1>5, <1>6, <1>7 DEF SetUp, At
<1>10. launch'.pc = "mount" => t = <<>>
  <2>1. Len(t) = 0 => t = <<>>
    BY <1>2
  <2>2. QED
    BY <1>2, <1>5, <2>1
<1>11. \A s : PrefixOf(s)' = PrefixOf(s)
  BY <1>1 DEF PrefixOf
<1>12. RoutesMount'
  <2>1. CASE k \in HostSubs /\ router' = router
    <3>1. k \notin Gorilla
      BY <2>1 DEF HostSubs, Gorilla
    <3>2. \A i \in DOMAIN router, j \in DOMAIN t : Before(host.order, router[i].to, t[j])
      <4>1. DOMAIN t = 1..Len(t) /\ DOMAIN todo = 1..Len(todo)
        BY <1>1, <1>2
      <4>2. \A j \in 1..Len(t) : j + 1 \in 1..Len(todo)
        BY <1>2
      <4>3. QED
        BY <1>2, <1>7, <4>1, <4>2 DEF RoutesMount, todo
    <3>3. QED
      BY <1>1, <1>5, <1>6, <1>7, <1>11, <2>1, <3>1, <3>2 DEF RoutesMount, todo
  <2>2. CASE k \in Gorilla /\ router' = Append(router, r)
    <3> DEFINE n == Len(router)
    <3>1. /\ n \in Nat /\ DOMAIN router = 1..n /\ DOMAIN router' = (1..n) \cup {n + 1}
          /\ \A i \in 1..n : router'[i] = router[i]
          /\ router'[n + 1] = r
      BY <1>1, <2>2
    <3>2. r.to = k /\ r.prefix = PrefixOf(k) /\ k \in launch.active
      BY <1>6, <1>7 DEF r
    <3>3. /\ 1 \in DOMAIN todo /\ todo[1] = k
          /\ \A j \in DOMAIN t : j + 1 \in DOMAIN todo /\ todo[j + 1] = t[j]
      <4>1. DOMAIN t = 1..Len(t) /\ DOMAIN todo = 1..Len(todo)
        BY <1>1, <1>2
      <4>2. QED
        BY <1>2, <4>1
    <3> HIDE DEF n
    <3>4. ASSUME NEW i \in DOMAIN router'
          PROVE  /\ router'[i].to \in Gorilla \cap launch.active
                 /\ router'[i].prefix = PrefixOf(router'[i].to)
                 /\ \A j \in DOMAIN router' :
                      i < j => Before(host.order, router'[i].to, router'[j].to)
                 /\ \A j \in DOMAIN t : Before(host.order, router'[i].to, t[j])
      <4>1. CASE i \in 1..n
        <5>1. /\ router[i].to \in Gorilla \cap launch.active
              /\ router[i].prefix = PrefixOf(router[i].to)
              /\ \A j \in 1..n : i < j => Before(host.order, router[i].to, router[j].to)
              /\ \A j \in DOMAIN todo : Before(host.order, router[i].to, todo[j])
          BY <1>7, <3>1, <4>1 DEF RoutesMount, todo
        <5>2. Before(host.order, router[i].to, k)
          BY <3>3, <5>1
        <5>3. \A j \in DOMAIN t : Before(host.order, router[i].to, t[j])
          BY <3>3, <5>1
        <5>4. QED
          BY <3>1, <3>2, <4>1, <5>1, <5>2, <5>3
      <4>2. CASE i = n + 1
        <5>1. \A j \in DOMAIN router' : ~(i < j)
          BY <3>1, <4>2
        <5>2. QED
          BY <1>8, <2>2, <3>1, <3>2, <4>2, <5>1
      <4>3. QED
        BY <3>1, <4>1, <4>2
    <3>5. ASSUME NEW s \in Gorilla \cap launch.active
          PROVE  s \in Range(t) \/ \E i \in DOMAIN router' : router'[i].to = s
      <4>1. CASE s = k
        BY <3>1, <3>2, <4>1
      <4>2. CASE s # k
        <5>1. s \in Range(todo) \/ \E i \in DOMAIN router : router[i].to = s
          BY <1>7 DEF RoutesMount, todo
        <5>2. QED
          BY <1>6, <3>1, <4>2, <5>1
      <4>3. QED
        BY <4>1, <4>2
    <3>6. QED
      BY <1>1, <1>5, <1>11, <3>4, <3>5 DEF RoutesMount
  <2>3. QED
    BY <1>4, <2>1, <2>2
<1>13. ~Started'
  BY <1>5 DEF Started, At
<1>14. QED
  BY <1>1, <1>5, <1>6, <1>7, <1>8, <1>9, <1>10, <1>12, <1>13 DEF SetupInv, At

\* Every step keeps how far Run is.
LEMMA SetupStep ==
  ASSUME LaunchInv, ParseInv, MuxInv, TypeInv, SetupInv, [Next]_vars
  PROVE  SetupInv'
<1>1. ASSUME launch'.pc \notin {"host", "sub", "mount"}, ~Started'
      PROVE  SetupInv'
  BY <1>1 DEF SetupInv, Underway
<1>2. ASSUME UNCHANGED <<host, flags, once, router>>,
             launch'.todo = launch.todo, launch'.active = launch.active,
             At("sub")' => At("sub"), Underway' => Underway,
             At("mount")' \/ Started' => At("mount") \/ Started
      PROVE  SetupInv'
  <2>1. CASE ~Underway'
    BY <2>1 DEF SetupInv
  <2>2. CASE Underway
    <3>1. RoutesMount'
      BY <1>2, <2>2 DEF SetupInv, RoutesMount, PrefixOf
    <3>2. \A k \in HostSubs \cap launch.active : SetUp(k)'
      BY <1>2, <2>2 DEF SetupInv, SetUp
    <3>3. QED
      BY <1>2, <2>2, <3>1, <3>2 DEF SetupInv
  <2>3. QED
    BY <1>2, <2>1, <2>2
<1>3. Records /\ IsLaunch(launch) /\ launch.pc \in Program
  BY DEF LaunchInv, Records
<1>4. CASE Execute
  <2>1. launch'.pc = "flags" /\ ~Started'
    BY <1>4 DEF Execute, Started, At
  <2>2. QED
    BY <1>1, <2>1
<1>5. CASE ParseWeb \/ ParseKeyword
  <2>2. \/ Return("refused")
        \/ \E s : launch' = [launch EXCEPT !.pc = "keyword", !.rest = s]
        \/ launch.pc = "keyword" /\ \E s, a : launch' = [launch EXCEPT !.rest = s, !.active = a]
    BY <1>5 DEF ParseWeb, ParseKeyword, At
  <2>3. launch'.pc = "keyword" \/ (launch'.pc = "returned" /\ launch'.result = "refused")
    BY <1>3, <2>2, LaunchChanges
  <2>4. QED
    BY <1>1, <2>3 DEF Started, At
<1>6. CASE BeginRun \/ SetupHostRoutes \/ SetupSubrouter
  <2>1. Prepared
    BY <1>3, <1>6, PrepareStep, SubrouterStep
  <2>2. CASE launch'.pc = "returned"
    <3>1. launch'.result \in {"refused", "setup"}
      BY <2>1, <2>2 DEF Prepared, Preparing
    <3>2. QED
      BY <1>1, <2>2, <3>1 DEF Started, At
  <2>3. CASE BeginRun /\ launch'.pc # "returned"
    <3>1. Return("refused") \/ \E t : launch' = [launch EXCEPT !.pc = "host", !.todo = t]
      BY <2>3 DEF BeginRun
    <3>2. launch'.pc = "host"
      BY <1>3, <2>3, <3>1, LaunchChanges
    <3>3. QED
      BY <2>3, <3>2, BeginSetsUp
  <2>4. CASE SetupHostRoutes /\ launch'.pc # "returned"
    <3>1. Return("setup") \/ Step("sub")
      BY <2>4 DEF SetupHostRoutes
    <3>2. launch'.pc = "sub"
      BY <1>3, <2>4, <3>1, LaunchChanges
    <3>3. QED
      BY <2>4, <3>2, HostSetsUp
  <2>5. CASE SetupSubrouter /\ launch'.pc # "returned"
    BY <2>5, SubrouterSetsUp
  <2>6. QED
    BY <1>6, <2>2, <2>3, <2>4, <2>5
<1>7. CASE StartServer \/ InitTelemetry \/ SelectDone \/ SelectServer \/ Shutdown
  <2>1. UNCHANGED <<host, flags, once, router>>
    BY <1>7 DEF StartServer, InitTelemetry, SelectDone, SelectServer, Shutdown, setup
  <2>2. \/ \E p \in {"telemetry", "select", "shutdown"} : Step(p)
        \/ \E r : Return(r)
    BY <1>7 DEF StartServer, InitTelemetry, SelectDone, SelectServer, Shutdown
  <2>3. /\ launch'.todo = launch.todo /\ launch'.active = launch.active
        /\ launch'.pc \in {"telemetry", "select", "shutdown", "returned"}
    BY <1>3, <2>2 DEF Step, Return, IsLaunch
  <2>4. At("mount") \/ launch.pc \in {"telemetry", "select", "shutdown"}
    BY <1>7 DEF StartServer, InitTelemetry, SelectDone, SelectServer, Shutdown, At
  <2>5. QED
    BY <1>2, <2>1, <2>3, <2>4 DEF Underway, Started, At
<1>8. CASE Goroutine \/ ServerBreaks \/ Request \/ Cancel \/ UNCHANGED vars
  <2>1. UNCHANGED <<host, launch, flags, once, router>>
    BY <1>8 DEF Goroutine, Listen, ServerClosed, SendError, CloseChannel, ServerBreaks, Request,
                Cancel, vars, setup
  <2>2. QED
    BY <1>2, <2>1 DEF Underway, Started, At
<1>9. QED
  BY <1>4, <1>5, <1>6, <1>7, <1>8 DEF Next, Launcher

\* Prefixes of a path of two segments.
LEMMA PrefixFacts ==
  ASSUME NEW S, NEW a \in S, NEW b \in S
  PROVE  /\ IsPrefix(<<>>, <<a, b>>)
         /\ \A x \in S : IsPrefix(<<x>>, <<a, b>>) <=> x = a
         /\ NameOf(<<a, b>>) = b /\ Head(<<a, b>>) = a
<1> DEFINE t == <<a, b>>
<1>1. t \in Seq(S) /\ Len(t) = 2 /\ t[1] = a /\ t[2] = b /\ Head(t) = a
  OBVIOUS
<1>2. Len(<<>>) = 0 /\ SubSeq(<<>>, 1, 0) = <<>> /\ SubSeq(t, 1, 0) = <<>>
  BY <1>1
<1> HIDE DEF t
<1>3. IsPrefix(<<>>, t)
  BY <1>1, <1>2 DEF IsPrefix
<1>4. ASSUME NEW x \in S
      PROVE  IsPrefix(<<x>>, t) <=> x = a
  <2> DEFINE s == <<x>>
             u == SubSeq(s, 1, 1)
             v == SubSeq(t, 1, 1)
  <2>1. s \in Seq(S) /\ Len(s) = 1 /\ s[1] = x
    OBVIOUS
  <2> HIDE DEF s
  <2>2. /\ u \in Seq(S) /\ Len(u) = 1 /\ u[1] = x
        /\ v \in Seq(S) /\ Len(v) = 1 /\ v[1] = a
    BY <1>1, <2>1
  <2> HIDE DEF u, v
  <2>3. u = v <=> x = a
    <3>1. u = v => x = a
      BY <2>2
    <3>2. x = a => u = v
      <4> SUFFICES ASSUME x = a
                   PROVE  u = v
        OBVIOUS
      <4>1. \A i \in 1..Len(u) : u[i] = v[i]
        BY <2>2
      <4>2. QED
        BY <2>2, <4>1, SeqEqual
    <3>3. QED
      BY <3>1, <3>2
  <2>4. IsPrefix(s, t) <=> u = v
    BY <1>1, <2>1 DEF IsPrefix, u, v
  <2>5. QED
    BY <2>3, <2>4 DEF s
<1>5. NameOf(t) = b
  BY <1>1, <1>2 DEF NameOf
<1>6. QED
  BY <1>1, <1>3, <1>4, <1>5 DEF t

\* In arguments that differ, before is a strict order.
LEMMA BeforeIsStrict ==
  ASSUME NEW s, IsInjective(s), s \in Seq(Keywords), NEW a, NEW b, Before(s, a, b)
  PROVE  /\ a # b
         /\ (CHOOSE i \in DOMAIN s : s[i] = a) < (CHOOSE i \in DOMAIN s : s[i] = b)
<1>1. PICK l \in 1..Len(s), m \in 1..Len(s) : l < m /\ s[l] = a /\ s[m] = b
  BY DEF Before
<1>2. DOMAIN s = 1..Len(s) /\ Len(s) \in Nat
  OBVIOUS
<1>3. \A i, j \in DOMAIN s : s[i] = s[j] => i = j
  BY DEF IsInjective
<1>4. a # b
  BY <1>1, <1>2, <1>3
<1>5. (CHOOSE i \in DOMAIN s : s[i] = a) = l
  BY <1>1, <1>2, <1>3
<1>6. (CHOOSE i \in DOMAIN s : s[i] = b) = m
  BY <1>1, <1>2, <1>3
<1>7. QED
  BY <1>1, <1>4, <1>5, <1>6

\* The host mux answers for the patterns of a sublauncher.
LEMMA ReachedByMux ==
  ASSUME PatternsInv, NEW k \in HostSubs, NEW r \in Range(mux), r.to = k,
         NameOf(r.path) \in IF k = "agui" THEN AguiNames ELSE SchedulerNames
  PROVE  Reached(r.path) = k
<1> DEFINE path == r.path
           patterns == {i \in DOMAIN mux : mux[i].path = path /\ mux[i].to # "cors"}
<1>1. k \in {"agui", "scheduler"}
  BY DEF HostSubs
<1>2. patterns # {}
  <2>1. PICK i \in DOMAIN mux : mux[i] = r
    BY DEF Range
  <2>2. i \in patterns
    BY <1>1, <2>1
  <2>3. QED
    BY <2>2
<1>3. \A i \in patterns : mux[i].to = k
  <2> SUFFICES ASSUME NEW i \in patterns
               PROVE  mux[i].to = k
    OBVIOUS
  <2>1. mux[i] \in Range(mux) /\ mux[i].path = path /\ mux[i].to # "cors"
    BY DEF Range
  <2>2. QED
    BY <1>1, <2>1 DEF PatternsInv
<1> HIDE DEF patterns
<1>4. mux[CHOOSE i \in patterns : TRUE].to = k
  BY <1>2, <1>3
<1>5. QED
  BY <1>2, <1>4 DEF Reached, patterns

\* Other paths go to the first gorilla route that matches.
LEMMA ReachedByRouter ==
  ASSUME MuxInv, NEW path, NameOf(path) \notin AguiNames \cup SchedulerNames \cup {"/"},
         router \in Seq(Mounts), NEW i \in Routes(path), \A j \in Routes(path) : i <= j,
         router[i].to = "lro" => Head(path) = "resume-operation"
  PROVE  Reached(path) = router[i].to
<1> DEFINE patterns == {m \in DOMAIN mux : mux[m].path = path /\ mux[m].to # "cors"}
<1>1. patterns = {}
  <2> SUFFICES ASSUME NEW m \in DOMAIN mux, mux[m].path = path
               PROVE  FALSE
    OBVIOUS
  <2>1. NameOf(mux[m].path) \in Registered
    BY DEF MuxInv, Registers
  <2>2. Registered \subseteq AguiNames \cup SchedulerNames \cup {"/"}
    BY DEF Registered
  <2>3. QED
    BY <2>1, <2>2
<1>2. Routes(path) \subseteq Int
  BY DEF Routes
<1> DEFINE first == CHOOSE m \in Routes(path) : \A j \in Routes(path) : m <= j
<1>3. first \in Routes(path) /\ \A j \in Routes(path) : first <= j
  OBVIOUS
<1>4. first = i
  <2> HIDE DEF first
  <2>1. first <= i /\ i <= first /\ first \in Int /\ i \in Int
    BY <1>2, <1>3
  <2>2. QED
    BY <2>1
<1> DEFINE r == router[first]
<1>5. Reached(path) = IF patterns # {} THEN mux[CHOOSE m \in patterns : TRUE].to
                      ELSE IF Routes(path) = {} \/ (r.to = "lro" /\ Head(path) # "resume-operation")
                        THEN "nobody"
                        ELSE r.to
  BY DEF Reached
<1> HIDE DEF patterns, first
<1>6. QED
  BY <1>1, <1>4, <1>5

\* agui and scheduler answer at their patterns.
LEMMA HostSubsServed ==
  ASSUME MuxInv, PatternsInv, NEW k \in HostSubs, once[k] = "done", NEW path \in Endpoints(k)
  PROVE  Reached(path) = k
<1>1. CASE k = "agui"
  <2>1. /\ path = Append(flags.agui, "run_sse") /\ RunSSEPattern \in Range(mux)
        /\ RunSSEPattern.path = path /\ RunSSEPattern.to = k
    BY <1>1 DEF Endpoints, PatternsInv, RunSSEPattern, Pattern
  <2>2. "run_sse" \in AguiNames
    BY DEF AguiNames
  <2>3. NameOf(path) \in AguiNames
    <3>1. flags.agui \in Seq(Segments) /\ "run_sse" \in Segments
      BY <2>2, AguiPrefix DEF MuxInv
    <3>2. NameOf(Append(flags.agui, "run_sse")) = "run_sse"
      BY <3>1, BelowPrefix
    <3>3. QED
      BY <2>1, <2>2, <3>2
  <2>4. QED
    BY <1>1, <2>1, <2>3, ReachedByMux
<1>2. CASE k = "scheduler"
  <2>1. path \in {<<"jsonrpc">>, <<"cron">>}
    BY <1>2 DEF Endpoints
  <2>2. PICK r \in SchedulerPatterns : r.path = path /\ r.to = k
    BY <1>2, <2>1 DEF SchedulerPatterns, Pattern
  <2>3. NameOf(path) \in SchedulerNames
    BY <2>1 DEF NameOf, SchedulerNames
  <2>4. r \in Range(mux)
    BY <1>2, <2>2 DEF PatternsInv
  <2>5. QED
    BY <1>2, <2>2, <2>3, <2>4, ReachedByMux
<1>3. QED
  BY <1>1, <1>2 DEF HostSubs

\* lro at the root and api answer at their paths, lro under a prefix does not,
\* nor api after it at the root.
LEMMA GorillaServed ==
  ASSUME ParseInv, MuxInv, TypeInv, RoutesMount, launch.todo = <<>>, IsInjective(host.order),
         NEW k \in Gorilla, k \in launch.active \ Shadowed, NEW path \in Endpoints(k)
  PROVE  Reached(path) = k
<1>1. /\ router \in Seq(Mounts) /\ host.order \in Seq(Keywords) /\ flags.lro \in Paths
      /\ Range(launch.todo) = {}
  BY DEF TypeInv, ParseInv, Host, MuxInv, FlagValues, Range
<1>2. PICK i \in DOMAIN router : router[i].to = k
  BY <1>1 DEF RoutesMount
<1>3. DOMAIN router = 1..Len(router) /\ Len(router) \in Nat
  BY <1>1
<1>4. \A j \in DOMAIN router : router[j].prefix = PrefixOf(router[j].to) /\ router[j].to \in Gorilla
  BY DEF RoutesMount
<1>5. \A j \in DOMAIN router : j < i => Before(host.order, router[j].to, k)
  BY <1>2 DEF RoutesMount
<1> DEFINE Names == {"resume-operation", "{operation}", "api", "run", "v1", "agui"}
           Facts(a, b) ==
             /\ IsPrefix(<<>>, <<a, b>>)
             /\ \A x \in Names : IsPrefix(<<x>>, <<a, b>>) <=> x = a
             /\ NameOf(<<a, b>>) = b /\ Head(<<a, b>>) = a
<1>6. ASSUME NEW a \in Names, NEW b \in Names
      PROVE  Facts(a, b)
  <2> HIDE DEF Names
  <2>1. QED
    BY PrefixFacts
<1>7. Facts("resume-operation", "{operation}") /\ Facts("api", "run")
  <2> HIDE DEF Facts
  <2>1. {"resume-operation", "{operation}", "api", "run"} \subseteq Names
    OBVIOUS
  <2> HIDE DEF Names
  <2>2. QED
    BY <1>6, <2>1
<1>8. CASE k = "lro"
  <2>1. flags.lro = <<>>
    BY <1>8 DEF Shadowed
  <2>2. path = <<"resume-operation", "{operation}">>
    <3>1. <<"resume-operation", "{operation}">> \in Seq(Names)
      OBVIOUS
    <3>2. path = flags.lro \o <<"resume-operation", "{operation}">>
      BY <1>8 DEF Endpoints
    <3>3. QED
      BY <2>1, <3>1, <3>2, ConcatEmptySeq
  <2>3. IsPrefix(<<>>, path) /\ ~IsPrefix(<<"api">>, path)
    <3>1. /\ IsPrefix(<<>>, path)
          /\ \A x \in Names : IsPrefix(<<x>>, path) <=> x = "resume-operation"
      BY <1>7, <2>2
    <3>2. QED
      BY <3>1
  <2>4. i \in Routes(path)
    BY <1>2, <1>4, <1>8, <2>1, <2>3 DEF Routes, PrefixOf
  <2>5. \A j \in Routes(path) : i <= j
    <3> SUFFICES ASSUME NEW j \in Routes(path)
                 PROVE  i <= j
      OBVIOUS
    <3>1. j \in DOMAIN router /\ router[j].to = "lro"
      BY <1>4, <2>3 DEF Routes, PrefixOf, Gorilla
    <3>2. ~(j < i)
      BY <1>1, <1>5, <1>8, <3>1, BeforeIsStrict
    <3>3. QED
      BY <1>3, <3>1, <3>2
  <2>6. NameOf(path) = "{operation}" /\ Head(path) = "resume-operation"
    BY <1>7, <2>2
  <2>7. "{operation}" \notin AguiNames \cup SchedulerNames \cup {"/"}
    BY DEF AguiNames, SchedulerNames
  <2>8. QED
    BY <1>1, <1>2, <2>4, <2>5, <2>6, <2>7, ReachedByRouter
<1>9. CASE k = "api"
  <2>1. path = <<"api", "run">>
    BY <1>9 DEF Endpoints
  <2>2. IsPrefix(<<"api">>, path) /\ ~IsPrefix(<<"v1">>, path) /\ ~IsPrefix(<<"agui">>, path)
    <3>1. \A x \in Names : IsPrefix(<<x>>, path) <=> x = "api"
      BY <1>7, <2>1
    <3>2. QED
      BY <3>1
  <2>3. i \in Routes(path)
    BY <1>2, <1>4, <1>9, <2>2 DEF Routes, PrefixOf
  <2>4. \A j \in Routes(path) : i <= j
    <3> SUFFICES ASSUME NEW j \in Routes(path), j < i
                 PROVE  FALSE
      BY <1>3 DEF Routes
    <3>1. j \in DOMAIN router /\ Before(host.order, router[j].to, "api")
      BY <1>5, <1>9 DEF Routes
    <3>2. router[j].to = "lro"
      <4>1. router[j].to # "api"
        BY <1>1, <3>1, BeforeIsStrict
      <4>2. QED
        BY <1>4, <3>1, <4>1 DEF Gorilla
    <3>3. flags.lro = <<>>
      <4>1. IsPrefix(flags.lro, path)
        BY <1>4, <3>1, <3>2 DEF Routes, PrefixOf
      <4>2. QED
        BY <1>1, <2>2, <4>1 DEF Paths
    <3>4. Position("lro") < Position("api")
      BY <1>1, <3>1, <3>2, BeforeIsStrict DEF Position
    <3>5. "lro" \in launch.active /\ "api" \in launch.active
      BY <1>9, <3>1, <3>2 DEF RoutesMount
    <3>6. "api" \in Shadowed
      BY <3>3, <3>4, <3>5 DEF Shadowed
    <3>7. QED
      BY <1>9, <3>6
  <2>5. NameOf(path) = "run"
    BY <1>7, <2>1
  <2>6. "run" \notin AguiNames \cup SchedulerNames \cup {"/"}
    BY DEF AguiNames, SchedulerNames
  <2>7. QED
    BY <1>1, <1>2, <1>9, <2>3, <2>4, <2>5, <2>6, ReachedByRouter
<1>10. QED
  BY <1>8, <1>9 DEF Gorilla

\* Once the server of a Run listens every sublauncher of its command line answers
\* its paths, but for those the gorilla router cannot reach (web/web.go, Run), for
\* all hosts, command lines and orders of sublaunchers, also after launches that
\* failed; if no later command line moves the prefix of agui.
THEOREM ActiveAreServed == Spec /\ PrefixStays => []ServesEverything
<1>1. Init => PatternsInv /\ SetupInv
  <2> SUFFICES ASSUME Init
               PROVE  PatternsInv /\ SetupInv
    OBVIOUS
  <2>1. Range(mux) = {} /\ once["agui"] = "new" /\ once["scheduler"] = "new"
    BY DEF Init, Range, HostSubs
  <2>2. ~Underway
    BY DEF Init, Underway, Started, At
  <2>3. QED
    BY <2>1, <2>2 DEF PatternsInv, SetupInv
<1> DEFINE PrefixStay == once["agui"] = "done" => flags'.agui = flags.agui
<1>2. LaunchInv /\ ParseInv /\ MuxInv /\ TypeInv /\ PatternsInv /\ SetupInv
        /\ [Next]_vars /\ [PrefixStay]_vars => PatternsInv' /\ SetupInv'
  <2> SUFFICES ASSUME LaunchInv, ParseInv, MuxInv, TypeInv, PatternsInv, SetupInv,
                      [Next]_vars, [PrefixStay]_vars
               PROVE  PatternsInv' /\ SetupInv'
    OBVIOUS
  <2>1. once["agui"] = "done" => flags'.agui = flags.agui
    BY DEF vars
  <2>2. QED
    BY <2>1, PatternsStep, SetupStep
<1>3. LaunchInv /\ ParseInv /\ MuxInv /\ TypeInv /\ GrammarInv /\ PatternsInv /\ SetupInv
        => ServesEverything
  <2> SUFFICES ASSUME LaunchInv, ParseInv, MuxInv, TypeInv, GrammarInv, PatternsInv, SetupInv,
                      Started, server = "listening", NEW k \in launch.active \ Shadowed,
                      NEW path \in Endpoints(k)
               PROVE  Reached(path) = k
    BY DEF ServesEverything
  <2>1. Underway /\ launch.todo = <<>> /\ RoutesMount
        /\ \A s \in HostSubs \cap launch.active : SetUp(s)
    BY DEF Underway, SetupInv
  <2>2. IsInjective(host.order)
    <3>1. /\ launch.pc \in {"telemetry", "select", "shutdown", "returned"}
          /\ launch.pc = "returned" => launch.result # "refused"
      BY DEF Started, At
    <3>2. Good(host.order, launch.args)
      BY <3>1 DEF GrammarInv, Programs, At
    <3>3. QED
      BY <3>2 DEF Good
  <2>3. CASE k \in HostSubs
    <3>1. once[k] = "done"
      <4>1. Range(launch.todo) = {}
        BY <2>1 DEF Range
      <4>2. QED
        BY <2>1, <2>3, <4>1 DEF SetUp
    <3>2. QED
      BY <2>3, <3>1, HostSubsServed
  <2>4. CASE k \in Gorilla
    BY <2>1, <2>2, <2>4, GorillaServed
  <2>5. k \in HostSubs \cup Gorilla
    BY DEF TypeInv, Launches, Keywords, HostSubs, Gorilla
  <2>6. QED
    BY <2>3, <2>4, <2>5
<1>4. QED
  BY <1>1, <1>2, <1>3, LaunchInvariance, MuxInvariance, TypeInvariance, GrammarInvariance, PTL
     DEF Spec, PrefixStays

=============================================================================
