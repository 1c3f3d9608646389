------------------------------- MODULE MCFeeds -------------------------------
(***************************************************************************)
(* What tells the program and its users about the world, on small          *)
(* instances: the streams of blocks and events, the mempool monitor, the   *)
(* event bus of the API, the health registry, the chains' connections and  *)
(* a circuit breaker with a single caller, and the program's start.  They  *)
(* share nothing: a behaviour is one of the component `focus` names, the   *)
(* others stay in their first state.                                       *)
(***************************************************************************)
EXTENDS ChainFeed, MempoolMonitor, EventBus, HealthRegistry, CircuitBreaker,
        ProviderManager, Startup

\* A file with the defaults, one without chains, one whose metrics and API share a
\* port, and none.
SomeFiles ==
    {{}, {Defaulted({}, TRUE)}, {Defaulted({"url"}, FALSE)}, {Defaulted({"url"}, TRUE)},
     {[Defaulted({"url"}, TRUE) EXCEPT !.metricsPort = 8080]}}

Unset == [databaseUrl |-> {}, redisUrl |-> {}, apiHost |-> {}, apiPort |-> {},
          logLevel |-> {}, rustLog |-> {}]

SomeEnvironments ==
    {Unset, [Unset EXCEPT !.databaseUrl = {""}, !.logLevel = {"debug"}],
     [Unset EXCEPT !.apiHost = {"no address"}, !.rustLog = {"warn"}], [Unset EXCEPT !.apiPort = {9090}]}

NoInput == [file |-> {}, env |-> Unset]

VARIABLE focus

feedsVars == <<focus, feedVars, mempoolVars, busVars, healthVars, providerVars, startupVars, vars>>

FeedsInit ==
    /\ focus \in {"feed", "mempool", "bus", "health", "breaker", "providers", "startup"}
    /\ FeedInit /\ MempoolInit /\ BusInit /\ HealthInit /\ ProviderInit /\ StartupInit /\ Init
    /\ focus # "mempool" => filtering
    /\ focus # "providers" => Started
    /\ focus # "startup" => input = NoInput /\ ports = [p \in Ports |-> "free"]

FeedStep ==
    focus = "feed" /\ FeedNext /\ UNCHANGED <<focus, mempoolVars, busVars, healthVars, providerVars, startupVars, vars>>
MempoolStep ==
    focus = "mempool" /\ MempoolNext /\ UNCHANGED <<focus, feedVars, busVars, healthVars, providerVars, startupVars, vars>>
BusStep ==
    focus = "bus" /\ BusNext /\ UNCHANGED <<focus, feedVars, mempoolVars, healthVars, providerVars, startupVars, vars>>
HealthStep ==
    focus = "health" /\ HealthNext /\ UNCHANGED <<focus, feedVars, mempoolVars, busVars, providerVars, startupVars, vars>>
BreakerStep ==
    focus = "breaker" /\ Next /\ UNCHANGED <<focus, feedVars, mempoolVars, busVars, healthVars, providerVars, startupVars>>
ProvidersStep ==
    focus = "providers" /\ ProviderNext
        /\ UNCHANGED <<focus, feedVars, mempoolVars, busVars, healthVars, startupVars, vars>>
StartStep ==
    focus = "startup" /\ StartupNext
        /\ UNCHANGED <<focus, feedVars, mempoolVars, busVars, healthVars, providerVars, vars>>

FeedsNext == FeedStep \/ MempoolStep \/ BusStep \/ HealthStep \/ BreakerStep \/ ProvidersStep \/ StartStep

\* The fairness of FeedFairness and BusSpec, each for its component.
FeedsSpec ==
    /\ FeedsInit /\ [][FeedsNext]_feedsVars
    /\ WF_feedVars(focus = "feed" /\ StreamerGoesOn)
    /\ WF_feedVars(focus = "feed" /\ Grow)
    /\ SF_feedVars(focus = "feed" /\ StreamerStops)
    /\ WF_feedVars(focus = "feed" /\ EventsGoOn)
    /\ SF_feedVars(focus = "feed" /\ EventsStop)
    /\ \A c \in Clients : WF_busVars(focus = "bus" /\ SocketStep(c))
=============================================================================
