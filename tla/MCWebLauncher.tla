--------------------------- MODULE MCWebLauncher ---------------------------
(* Instances of WebLauncher for TLC.                                        *)
EXTENDS WebLauncher

Plain == [order |-> <<"agui", "lro", "scheduler">>, commands |-> "short", executions |-> 1,
          sessions |-> TRUE, loader |-> TRUE, apps |-> HostSubs,
          threads |-> TRUE, capabilities |-> TRUE, cors |-> TRUE,
          client |-> TRUE, serviceID |-> TRUE, lroPrefix |-> <<>>,
          service |-> TRUE, identity |-> TRUE, grpc |-> "fresh"]

\* Every command line of up to three tokens; lines to retry with, among them
\* the documented one; lines that move the prefixes.
Lines ==
  [short |-> UNION {[1..n -> Tokens] : n \in 0..3},
   retry |-> {<<"agui", "lro", "scheduler">>, <<"lro", "agui">>, <<"scheduler", "-app_name=a">>,
              Documented, <<"agui", "lro", "-service_id=s", "scheduler", "-app_name=a">>},
   both |-> {<<"agui", "scheduler">>},
   prefix |-> {<<"agui", "lro", "api">>, <<"agui", Prefix.root, "lro", Prefix.root, "api">>,
               <<"agui", Prefix.v1, "lro", Prefix.v1>>},
   documented |-> {Documented}]

Parses == {[Plain EXCEPT !.order = order] :
             order \in {Plain.order, <<"api", "agui", "api">>}}
\* Setups that fail at first: no service_id, no app name, NewFromEnv.  Then one
\* that does not, and a launch that comes after it.
Retry == [Plain EXCEPT !.commands = "retry", !.executions = 3, !.sessions = FALSE,
                       !.client = FALSE, !.serviceID = FALSE, !.apps = {"agui"}]
Retries ==
  {[Retry EXCEPT !.order = order] :
     order \in {<<"agui", "lro", "scheduler">>, <<"lro", "scheduler", "agui">>}}
\* Each registrar, and options that need no flags.
Registrars ==
  {[Retry EXCEPT !.executions = 2, !.serviceID = TRUE, !.apps = HostSubs, !.grpc = g] :
     g \in {"fresh", "taken", "blind"}}
\* Setups that always fail.
Incomplete ==
  LET Twice == [Plain EXCEPT !.commands = "both", !.executions = 2]
  IN  {[Twice EXCEPT !.loader = FALSE], [Twice EXCEPT !.service = FALSE],
       [Twice EXCEPT !.identity = FALSE], [Twice EXCEPT !.apps = {"scheduler"}]}
\* Every prefix, lro before and after another gorilla route.
Prefixed ==
  {[Plain EXCEPT !.commands = "prefix", !.order = order, !.lroPrefix = prefix] :
     order \in {<<"api", "lro", "agui">>, <<"lro", "api", "agui">>},
     prefix \in {<<>>, <<"v1">>}}
AllHosts == Parses \cup Retries \cup Registrars \cup Incomplete \cup Prefixed
DocumentedHosts == {[Plain EXCEPT !.commands = "documented"]}
=============================================================================
