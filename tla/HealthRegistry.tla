--------------------------- MODULE HealthRegistry ---------------------------
(***************************************************************************)
(* crates/phantom-metrics/src/health.rs: HealthRegistry, a map from        *)
(* component names to their health, and GET /health/ready of               *)
(* crates/phantom-api/src/handlers.rs, which asks is_ready and report.     *)
(*                                                                         *)
(* Each of the three walks over the map comes by one component after the   *)
(* other while components register, change and leave.  report walks twice: *)
(* once to list the components, once to sum them up.                       *)
(***************************************************************************)
EXTENDS Integers

CONSTANTS
    Names,      \* component names
    Probes,     \* requests of /health/ready
    MaxChanges  \* bound: changes of the map while a request is served

Health == {"Healthy", "Degraded", "Unhealthy"}
Unknown == [status |-> "none", critical |-> FALSE]

VARIABLES
    components,  \* components: the entry of each name, or Unknown
    probe,       \* each request: its walk, the names still to visit, results
    during,      \* the entries each name had while the request was served
    changes      \* how often the map changed since a request began

healthVars == <<components, probe, during, changes>>

Waiting == [walk |-> "idle", left |-> {}, ready |-> TRUE, status |-> "Healthy", listed |-> {}]

HealthInit ==
    /\ components = [n \in Names |-> Unknown]
    /\ probe = [p \in Probes |-> Waiting]
    /\ during = [p \in Probes |-> [n \in Names |-> {}]]
    /\ changes = 0

\* The entry of n is e from now on; requests under way see both.
Becomes(n, e) ==
    /\ changes < MaxChanges
    /\ changes' = changes + 1
    /\ components' = [components EXCEPT ![n] = e]
    /\ during' = [p \in Probes |-> [during[p] EXCEPT ![n] = @ \union {e}]]
    /\ UNCHANGED probe

-----------------------------------------------------------------------------
\* register: healthy, over whatever the name had.
Register(n, critical) == Becomes(n, [status |-> "Healthy", critical |-> critical])

\* update; an unknown component is ignored.
Update(n, status) ==
    /\ components[n] # Unknown
    /\ Becomes(n, [status |-> status, critical |-> components[n].critical])

Deregister(n) == components[n] # Unknown /\ Becomes(n, Unknown)

-----------------------------------------------------------------------------
(* health_ready: the walks of is_ready and of report                       *)

Down(e) == e.critical /\ e.status = "Unhealthy"

\* Faulty: a failed component that is not critical does not degrade the system.
Impaired_Degraded(e) == e.status = "Degraded"

Impaired(e) == e.status = "Degraded" \/ (e.status = "Unhealthy" /\ ~e.critical)

ProbeBegins(p) ==
    /\ probe[p].walk \in {"idle", "done"}
    /\ probe' = [probe EXCEPT ![p] = [Waiting EXCEPT !.walk = "ready", !.left = Names]]
    /\ during' = [during EXCEPT ![p] = [n \in Names |-> {components[n]}]]
    /\ changes' = 0
    /\ UNCHANGED components

\* is_ready comes by one component and stops at one that is down.
VisitReady(p, n) ==
    LET down == Down(components[n]) IN
    /\ probe[p].walk = "ready" /\ n \in probe[p].left
    /\ probe' = [probe EXCEPT ![p].left = IF down THEN {} ELSE @ \ {n},
                              ![p].ready = ~down]
    /\ UNCHANGED <<components, during, changes>>

\* The first walk of report lists the component.
VisitList(p, n) ==
    /\ probe[p].walk = "list" /\ n \in probe[p].left
    /\ probe' = [probe EXCEPT ![p].left = @ \ {n},
            ![p].listed = IF components[n] = Unknown THEN @ ELSE @ \union {<<n, components[n]>>}]
    /\ UNCHANGED <<components, during, changes>>

\* aggregate_status comes by one component and stops at one that is down.
VisitStatus(p, n) ==
    LET e == components[n] IN
    /\ probe[p].walk = "status" /\ n \in probe[p].left
    /\ probe' = [probe EXCEPT ![p].left = IF Down(e) THEN {} ELSE @ \ {n},
            ![p].status = IF Down(e) THEN "Unhealthy" ELSE IF Impaired(e) THEN "Degraded" ELSE @]
    /\ UNCHANGED <<components, during, changes>>

\* The walk is over; the next one begins at the start, or the answer is sent.
NextWalk(p) ==
    /\ probe[p].left = {} /\ probe[p].walk \in {"ready", "list", "status"}
    /\ probe' = [probe EXCEPT
            ![p].walk = CASE @ = "ready" -> "list" [] @ = "list" -> "status" [] @ = "status" -> "done",
            ![p].left = IF probe[p].walk = "status" THEN {} ELSE Names]
    /\ UNCHANGED <<components, during, changes>>

-----------------------------------------------------------------------------
HealthNext ==
    \/ \E n \in Names, critical \in BOOLEAN : Register(n, critical)
    \/ \E n \in Names, status \in Health : Update(n, status)
    \/ \E n \in Names : Deregister(n)
    \/ \E p \in Probes : ProbeBegins(p) \/ NextWalk(p)
    \/ \E p \in Probes, n \in Names : VisitReady(p, n) \/ VisitList(p, n) \/ VisitStatus(p, n)

HealthSpec == HealthInit /\ [][HealthNext]_healthVars

-----------------------------------------------------------------------------
(* Properties                                                              *)

\* What lasts as long as the request is in its answer, though the map changes
\* under its three walks: a component that stays down makes the system not
\* ready and Unhealthy, and it is so only if some component was down; one that
\* stays impaired rules out Healthy; without an impaired one the system is
\* not Degraded (health.rs:146-166, 173-192,
\* handlers.rs:25-35).
ProbeIsSound ==
    \A p \in Probes : probe[p].walk = "done" =>
        LET always(C(_)) == \E n \in Names : \A e \in during[p][n] : C(e)
            once(C(_))   == \E n \in Names : \E e \in during[p][n] : C(e)
            status == probe[p].status
        IN
        /\ always(Down) => ~probe[p].ready /\ status = "Unhealthy"
        /\ ~once(Down) => probe[p].ready /\ status # "Unhealthy"
        /\ always(LAMBDA e : Down(e) \/ e.status = "Degraded") => status # "Healthy"
        /\ always(LAMBDA e : e.status = "Unhealthy") => status # "Healthy"
        /\ status = "Degraded" => once(LAMBDA e : e.status # "Healthy" /\ e # Unknown)
=============================================================================
