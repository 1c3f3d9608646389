---------------------------- MODULE ProviderManager ----------------------------
(***************************************************************************)
(* phantom-chain/src/provider.rs: the connections to the chains.           *)
(*                                                                         *)
(* A connection and its configuration are two DashMaps, written one after  *)
(* the other; add_chain and remove_chain of one chain may overlap.  A      *)
(* provider is identified with the endpoint it was made for.  from_configs *)
(* fills a manager nobody else has yet, one chain after the other; a bad   *)
(* endpoint makes it fail and what it connected is dropped.                *)
(***************************************************************************)
EXTENDS Integers, Sequences, FiniteSets

CONSTANTS
    ChainIds,        \* the supported chains
    Endpoints,       \* RPC endpoints
    BadEndpoints,    \* those that are not URLs
    ProviderTasks,   \* tasks that use the manager
    NoEndpoint,      \* no provider, no configuration
    MaxConnections   \* bound of the tasks' calls, for TLC

ASSUME ProviderAssumption ==
    /\ BadEndpoints \subseteq Endpoints
    /\ NoEndpoint \notin Endpoints
    /\ MaxConnections \in Nat

VARIABLES
    providers,   \* the two maps
    chainConfigs,
    startup,     \* the configurations from_configs has left
    providerTask,
    calls,       \* number of calls, bounded
    overlapped   \* history: chains two calls changed at the same time

providerVars == <<providers, chainConfigs, startup, providerTask, calls, overlapped>>

NoCall == [pc |-> "idle"]

ProviderInit ==
    /\ providers = [c \in ChainIds |-> NoEndpoint]
    /\ chainConfigs = [c \in ChainIds |-> NoEndpoint]
    /\ \E chosen \in SUBSET ChainIds : startup \in [chosen -> Endpoints]
    /\ providerTask = [t \in ProviderTasks |-> NoCall]
    /\ calls = 0
    /\ overlapped = {}

Connected == {c \in ChainIds : providers[c] # NoEndpoint}

\* get_provider
Found(c) == IF providers[c] = NoEndpoint THEN "unsupported" ELSE providers[c]

\* from_configs has returned a manager.
Started == DOMAIN startup = {}

-----------------------------------------------------------------------------
(* from_configs                                                            *)

StartupConnects ==
    /\ \E c \in DOMAIN startup :
         /\ startup[c] \notin BadEndpoints
         /\ providers' = [providers EXCEPT ![c] = startup[c]]
         /\ chainConfigs' = [chainConfigs EXCEPT ![c] = startup[c]]
         /\ startup' = [d \in DOMAIN startup \ {c} |-> startup[d]]
    /\ UNCHANGED <<providerTask, calls, overlapped>>

\* What was connected is dropped with the manager; nobody gets one.
StartupFails ==
    /\ \E c \in DOMAIN startup :
         /\ startup[c] \in BadEndpoints
         /\ startup' = [d \in {c} |-> startup[c]]
    /\ providers' = [c \in ChainIds |-> NoEndpoint]
    /\ chainConfigs' = [c \in ChainIds |-> NoEndpoint]
    /\ UNCHANGED <<providerTask, calls, overlapped>>

-----------------------------------------------------------------------------
(* The calls of a task                                                     *)

Changing(c) ==
    {t \in ProviderTasks : providerTask[t].pc \in {"adding", "removing"} /\ providerTask[t].chain = c}

Called(t) ==
    /\ Started
    /\ providerTask[t] = NoCall
    /\ calls < MaxConnections
    /\ calls' = calls + 1

Overlaps(c) == overlapped' = IF Changing(c) = {} THEN overlapped ELSE overlapped \union {c}

\* add_chain, up to the first map
AddBegins(t) ==
    /\ Called(t)
    /\ \E c \in ChainIds, e \in Endpoints \ BadEndpoints :
         /\ providers' = [providers EXCEPT ![c] = e]
         /\ providerTask' = [providerTask EXCEPT ![t] = [pc |-> "adding", chain |-> c, endpoint |-> e]]
         /\ Overlaps(c)
    /\ UNCHANGED <<chainConfigs, startup>>

\* A bad endpoint is refused before anything is stored.
AddRefuses(t) ==
    /\ Called(t)
    /\ BadEndpoints # {}
    /\ UNCHANGED <<providers, chainConfigs, startup, providerTask, overlapped>>

AddEnds(t) ==
    /\ providerTask[t].pc = "adding"
    /\ chainConfigs' = [chainConfigs EXCEPT ![providerTask[t].chain] = providerTask[t].endpoint]
    /\ providerTask' = [providerTask EXCEPT ![t] = NoCall]
    /\ UNCHANGED <<providers, startup, calls, overlapped>>

\* remove_chain
RemoveBegins(t) ==
    /\ Called(t)
    /\ \E c \in ChainIds :
         /\ providers' = [providers EXCEPT ![c] = NoEndpoint]
         /\ providerTask' = [providerTask EXCEPT ![t] = [pc |-> "removing", chain |-> c]]
         /\ Overlaps(c)
    /\ UNCHANGED <<chainConfigs, startup>>

\* Faulty: the configuration stays.
RemoveEnds_Keeps(t) ==
    /\ providerTask[t].pc = "removing"
    /\ providerTask' = [providerTask EXCEPT ![t] = NoCall]
    /\ UNCHANGED <<providers, chainConfigs, startup, calls, overlapped>>

RemoveEnds(t) ==
    /\ providerTask[t].pc = "removing"
    /\ chainConfigs' = [chainConfigs EXCEPT ![providerTask[t].chain] = NoEndpoint]
    /\ providerTask' = [providerTask EXCEPT ![t] = NoCall]
    /\ UNCHANGED <<providers, startup, calls, overlapped>>

\* check_all_health: the chains are listed once and asked one after the other.
CheckAll(t) ==
    /\ Called(t)
    /\ providerTask' = [providerTask EXCEPT ![t] =
         [pc |-> "checking", left |-> Connected, asked |-> NoEndpoint, failed |-> {}]]
    /\ UNCHANGED <<providers, chainConfigs, startup, overlapped>>

\* check_health: the provider is cloned; a chain removed since is unsupported.
CheckAsks(t) ==
    /\ providerTask[t].pc = "checking" /\ providerTask[t].asked = NoEndpoint
    /\ \E c \in providerTask[t].left :
         providerTask' = [providerTask EXCEPT
             ![t].left = @ \ {c},
             ![t].asked = IF Found(c) = "unsupported" THEN NoEndpoint ELSE c,
             ![t].failed = IF Found(c) = "unsupported" THEN @ \union {c} ELSE @]
    /\ UNCHANGED <<providers, chainConfigs, startup, calls, overlapped>>

\* get_block_number of the node returns, or fails.
CheckAnswers(t) ==
    /\ providerTask[t].pc = "checking" /\ providerTask[t].asked # NoEndpoint
    /\ \E down \in BOOLEAN :
         providerTask' = [providerTask EXCEPT
             ![t].asked = NoEndpoint,
             ![t].failed = IF down THEN @ \union {providerTask[t].asked} ELSE @]
    /\ UNCHANGED <<providers, chainConfigs, startup, calls, overlapped>>

CheckEnds(t) ==
    /\ providerTask[t].pc = "checking"
    /\ providerTask[t].left = {} /\ providerTask[t].asked = NoEndpoint
    /\ providerTask' = [providerTask EXCEPT ![t] = NoCall]
    /\ UNCHANGED <<providers, chainConfigs, startup, calls, overlapped>>

ProviderStep(t) ==
    \/ AddBegins(t) \/ AddRefuses(t) \/ AddEnds(t)
    \/ RemoveBegins(t) \/ RemoveEnds(t)
    \/ CheckAll(t) \/ CheckAsks(t) \/ CheckAnswers(t) \/ CheckEnds(t)

ProviderNext == StartupConnects \/ StartupFails \/ \E t \in ProviderTasks : ProviderStep(t)

ProviderSpec == ProviderInit /\ [][ProviderNext]_providerVars

-----------------------------------------------------------------------------
(* Properties                                                              *)

\* A chain is connected to the endpoint its configuration names, and to none
\* when it has no configuration, unless a call is between the two maps or two
\* calls for the chain overlapped: only then the maps may stay apart
\* (provider.rs:61-62, 122-123).
SameEndpoint ==
    \A c \in ChainIds :
        c \notin overlapped /\ Changing(c) = {} => providers[c] = chainConfigs[c]
=============================================================================
