-------------------------------- MODULE Startup --------------------------------
(***************************************************************************)
(* crates/phantom-filler/src/main.rs: from the configuration file to the   *)
(* running API server and the shutdown.  The steps of main are sequential; *)
(* the server is a task of its own.                                        *)
(*                                                                         *)
(* Of the configuration only what can fail or is acted on is kept.  A set  *)
(* of at most one value is an Option.  The answers of the API are those of *)
(* the routes that need no fill, for main records none.                    *)
(***************************************************************************)
EXTENDS Integers, FiniteSets

CONSTANTS
    Ports,         \* TCP ports
    Files,         \* what from_file may find: no file or one that does not
                   \* parse is {}, else the set of the AppConfig it holds
    Environments,  \* values of the environment variables
    FillIds,       \* ids a client may ask for
    MaxRequests    \* bound of the requests, for TLC

Urls == {"", "url"}

\* AppConfig; fields without a value in the file have their defaults.
AppConfig ==
    [chains : SUBSET Urls,  \* the rpc_url of each chain
     databaseUrl : Urls, redisUrl : Urls, maxConnections : Nat,
     apiHost : {"127.0.0.1", "no address"}, apiPort : Ports,
     metricsEnabled : BOOLEAN, metricsPort : Ports, logLevel : STRING]

\* Serde fills in what a valid file leaves out.
Defaulted(chains, metrics) ==
    [chains |-> chains, databaseUrl |-> "url", redisUrl |-> "url",
     maxConnections |-> 10, apiHost |-> "127.0.0.1", apiPort |-> 8080,
     metricsEnabled |-> metrics, metricsPort |-> 9090, logLevel |-> "info"]

ASSUME StartupAssumption ==
    /\ {8080, 9090} \subseteq Ports
    /\ \A f \in Files : Cardinality(f) <= 1 /\ \A c \in f : c \in AppConfig
    /\ MaxRequests \in Nat

VARIABLES
    main,      \* what main does next
    config,    \* the configuration, once loaded
    filter,    \* the level that is logged
    ports,     \* who listens on each port
    registry,  \* components registered with the health registry
    api,       \* the server's task
    shown,     \* the last answer of the API
    requests,  \* number of requests, bounded
    input      \* the file and the environment

startupVars == <<main, config, filter, ports, registry, api, shown, requests, input>>

StartupInit ==
    /\ main = "load"
    /\ config = {}
    /\ filter = "none"
    /\ ports \in [Ports -> {"free", "another program"}]
    /\ registry = {}
    /\ api = "none"
    /\ shown = "none"
    /\ requests = 0
    /\ input \in [file : Files, env : Environments]

Then(step) == main' = step

\* main returns: whatever the process listens on is free again.
Returned(result) ==
    /\ main' = result
    /\ ports' = [p \in Ports |-> IF ports[p] \in {"api", "metrics"} THEN "free" ELSE ports[p]]

Overridden(option, value) == IF option = {} THEN value ELSE CHOOSE v \in option : TRUE

-----------------------------------------------------------------------------
(* The configuration                                                       *)

\* AppConfig::validate
Valid(c) ==
    /\ c.chains # {} /\ "" \notin c.chains
    /\ c.databaseUrl # "" /\ c.redisUrl # ""
    /\ c.maxConnections # 0

LoadConfig ==
    /\ main = "load"
    /\ \E c \in input.file : Valid(c) /\ config' = {c}
    /\ Then("override")
    /\ UNCHANGED <<filter, ports, registry, api, shown, requests, input>>

\* FileRead, ParseError or Validation
LoadFails ==
    /\ main = "load"
    /\ \A c \in input.file : ~Valid(c)
    /\ Returned("failed")
    /\ UNCHANGED <<config, filter, registry, api, shown, requests, input>>

\* The result is not validated again.  A port that does not parse is left as it
\* was, as if the variable were not set.
ApplyEnvOverrides ==
    /\ main = "override"
    /\ config' = {[c EXCEPT !.databaseUrl = Overridden(input.env.databaseUrl, @),
                            !.redisUrl = Overridden(input.env.redisUrl, @),
                            !.apiHost = Overridden(input.env.apiHost, @),
                            !.apiPort = Overridden(input.env.apiPort, @),
                            !.logLevel = Overridden(input.env.logLevel, @)] : c \in config}
    /\ Then("logging")
    /\ UNCHANGED <<filter, ports, registry, api, shown, requests, input>>

-----------------------------------------------------------------------------
(* Logging, metrics and components                                         *)

\* RUST_LOG goes before the configured level; the subscriber is the first one.
InitLogging ==
    /\ main = "logging"
    /\ \E c \in config : filter' = Overridden(input.env.rustLog, c.logLevel)
    /\ Then("metrics")
    /\ UNCHANGED <<config, ports, registry, api, shown, requests, input>>

InitMetrics ==
    /\ main = "metrics"
    /\ \E c \in config :
         IF c.metricsEnabled
           THEN ports[c.metricsPort] = "free" /\ ports' = [ports EXCEPT ![c.metricsPort] = "metrics"]
           ELSE UNCHANGED ports
    /\ Then("components")
    /\ UNCHANGED <<config, filter, registry, api, shown, requests, input>>

MetricsFail ==
    /\ main = "metrics"
    /\ \E c \in config : c.metricsEnabled /\ ports[c.metricsPort] # "free"
    /\ Returned("failed")
    /\ UNCHANGED <<config, filter, registry, api, shown, requests, input>>

\* All begin healthy; the settlement is not critical.
CreateComponents ==
    /\ main = "components"
    /\ registry' = {"api", "chain_connector", "order_discovery", "execution_engine", "settlement"}
    /\ Then("spawn")
    /\ UNCHANGED <<config, filter, ports, api, shown, requests, input>>

\* The API is reported healthy before its task runs.
SpawnApi ==
    /\ main = "spawn"
    /\ api' = "spawned"
    /\ Then("wait")
    /\ UNCHANGED <<config, filter, ports, registry, shown, requests, input>>

-----------------------------------------------------------------------------
(* The server                                                              *)

Bindable(c) == c.apiHost # "no address" /\ ports[c.apiPort] = "free"

StartServer ==
    /\ api = "spawned"
    /\ \E c \in config : Bindable(c) /\ ports' = [ports EXCEPT ![c.apiPort] = "api"]
    /\ api' = "serving"
    /\ UNCHANGED <<main, config, filter, registry, shown, requests, input>>

\* main only logs it, and the health registry is not told.
ServerFails ==
    /\ api = "spawned"
    /\ \E c \in config : ~Bindable(c)
    /\ api' = "failed"
    /\ UNCHANGED <<main, config, filter, ports, registry, shown, requests, input>>

\* create_router_with_config: the routes and what they answer.
Answers ==
    {"live", "system status", "no fills", "no days", "no tokens", "an empty summary", "no risk taken"}
    \union {"healthy" : r \in registry}
    \union {"not found" : f \in FillIds}

Request ==
    /\ api = "serving"
    /\ requests < MaxRequests
    /\ requests' = requests + 1
    /\ shown' \in Answers
    /\ UNCHANGED <<main, config, filter, ports, registry, api, input>>

\* Ctrl-C, or an error while waiting for it: the server's task is aborted.
Shutdown ==
    /\ main = "wait"
    /\ api' = IF api = "failed" THEN api ELSE "aborted"
    /\ Returned("ended")
    /\ UNCHANGED <<config, filter, registry, shown, requests, input>>

StartupNext ==
    \/ LoadConfig \/ LoadFails \/ ApplyEnvOverrides
    \/ InitLogging \/ InitMetrics \/ MetricsFail
    \/ CreateComponents \/ SpawnApi
    \/ StartServer \/ ServerFails \/ Request
    \/ Shutdown

StartupSpec == StartupInit /\ [][StartupNext]_startupVars
=============================================================================
