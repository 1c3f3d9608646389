---------------------------- MODULE RelayManager ----------------------------
(***************************************************************************)
(* crates/phantom-execution/src/relay.rs: RelayManager broadcasts a bundle *)
(* or a private transaction to all its relays, one task for each;          *)
(* FlashbotsRelay sends the request and repeats it.  Nothing here says     *)
(* which relays are enabled: RelayConfig.enabled (relay.rs:25-26) is never *)
(* read, and a disabled relay is sent everything too.                      *)
(*                                                                         *)
(* A relay may take what it was sent although its answer does not say so:  *)
(* `took` is the truth, the answer is all the code sees.                   *)
(***************************************************************************)
EXTENDS Integers, Sequences

CONSTANTS
    NRelays,        \* relays of the manager, in the order they were added
    MaxAttempts     \* config.max_retries + 1

Relays == 1 .. NRelays

ASSUME RelayAssumption ==
    NRelays \in Nat /\ MaxAttempts \in Nat \ {0}

VARIABLES
    job,       \* the task of each relay: where it is, attempts made, outcome
    awaited,   \* the handle broadcast waits for: 0 before, NRelays + 1 after
    results,   \* the results collected so far
    isEmpty,   \* the bundle has no transaction
    took       \* the relays: how often each one took the request

relayVars == <<job, awaited, results, isEmpty, took>>

NoJob == [at |-> "none", tries |-> 0, ok |-> FALSE]

RelayInit ==
    /\ job = [r \in Relays |-> NoJob]
    /\ awaited = 0
    /\ results = << >>
    /\ isEmpty = FALSE
    /\ took = [r \in Relays |-> 0]

\* What a request can come back with: no connection or a timeout, an HTTP
\* status that is no success, an answer that is no JSON, a JSON-RPC error, a
\* null result, the hash of what was submitted.
RelayAnswers == {"unreached", "http error", "garbled", "rpc error", "null", "hash"}

\* Faulty: a null result is a success.
Verdict_Null(answer) ==
    CASE answer \in {"unreached", "http error"} -> "again"
      [] answer \in {"garbled", "rpc error"}    -> "failed"
      [] answer \in {"hash", "null"}            -> "ok"

\* rpc_call: the first two are tried again, the others are final.
Verdict(answer) ==
    CASE answer \in {"unreached", "http error"}        -> "again"
      [] answer \in {"garbled", "rpc error", "null"}   -> "failed"
      [] answer = "hash"                               -> "ok"

Finished(r) == job[r].at \in {"done", "panicked"}

-----------------------------------------------------------------------------
\* broadcast_bundle or broadcast_private_transaction; only a bundle may be
\* empty.  Every relay gets a task, a disabled one as well.
Broadcast(empty) ==
    /\ awaited \in {0, NRelays + 1}
    /\ \A r \in Relays : job[r].at # "sending"
    /\ awaited' = 1
    /\ results' = << >>
    /\ isEmpty' = empty
    /\ job' = [r \in Relays |-> [NoJob EXCEPT !.at = "sending"]]
    /\ took' = [r \in Relays |-> 0]

\* send_bundle refuses an empty bundle.
RefuseEmpty(r) ==
    /\ job[r].at = "sending" /\ isEmpty
    /\ job' = [job EXCEPT ![r].at = "done"]
    /\ UNCHANGED <<awaited, results, isEmpty, took>>

\* Faulty: after the last attempt the count begins again.
Attempt_Restarts(r, answer, taken) ==
    LET verdict == Verdict(answer) IN
    /\ job[r].at = "sending" /\ ~isEmpty
    /\ answer = "hash" => taken
    /\ answer \in {"rpc error", "null"} => ~taken
    /\ job' = [job EXCEPT ![r] = [at    |-> IF verdict = "again" THEN "sending" ELSE "done",
                                  tries |-> (@.tries + 1) % MaxAttempts,
                                  ok    |-> verdict = "ok"]]
    /\ took' = [took EXCEPT ![r] = IF taken /\ @ < MaxAttempts THEN @ + 1 ELSE @]
    /\ UNCHANGED <<awaited, results, isEmpty>>

\* One request of rpc_call and its answer.
Attempt(r, answer, taken) ==
    LET verdict == Verdict(answer)
        tries   == job[r].tries + 1
        again   == verdict = "again" /\ tries < MaxAttempts
    IN
    /\ job[r].at = "sending" /\ ~isEmpty
    /\ answer = "hash" => taken
    /\ answer \in {"rpc error", "null"} => ~taken
    /\ job' = [job EXCEPT ![r] = [at    |-> IF again THEN "sending" ELSE "done",
                                  tries |-> tries,
                                  ok    |-> verdict = "ok"]]
    /\ took' = [took EXCEPT ![r] = IF taken THEN @ + 1 ELSE @]
    /\ UNCHANGED <<awaited, results, isEmpty>>

\* The task of one relay panics.
Panics(r) ==
    /\ job[r].at = "sending"
    /\ job' = [job EXCEPT ![r].at = "panicked"]
    /\ UNCHANGED <<awaited, results, isEmpty, took>>

\* The handles are awaited in order; one that panicked leaves no result.
Collect(r) ==
    /\ awaited = r /\ Finished(r)
    /\ awaited' = r + 1
    /\ results' = IF job[r].at = "done" THEN Append(results, [relay |-> r, ok |-> job[r].ok])
                                        ELSE results
    /\ UNCHANGED <<job, isEmpty, took>>

-----------------------------------------------------------------------------
RelayTask(r) ==
    \/ RefuseEmpty(r)
    \/ \E answer \in RelayAnswers, taken \in BOOLEAN : Attempt(r, answer, taken)
    \/ Panics(r)

RelayNext ==
    \/ \E empty \in BOOLEAN : Broadcast(empty)
    \/ \E r \in Relays : RelayTask(r) \/ Collect(r)

RelaySpec == RelayInit /\ [][RelayNext]_relayVars

-----------------------------------------------------------------------------
(* Properties                                                              *)

\* When broadcast returns, what it reports is true of every relay: every relay
\* that was added, enabled or not, and whose task did not panic has exactly one
\* result, in the relays' order ("Failures on individual relays do not prevent
\* submission to others", relay.rs:420-421); a success is one the relay has
\* given; and a relay took the request at most once for each attempt, although
\* an answer that was lost after the relay took it is asked for again
\* (relay.rs:222-297).  "All configured relays" (relay.rs:418) is what the code
\* does; "all enabled relays" (relay.rs:381) it does not.
BroadcastReport ==
    /\ \A r \in Relays : took[r] <= MaxAttempts
    /\ \A i \in DOMAIN results : results[i].ok => took[results[i].relay] > 0
    /\ awaited = NRelays + 1 =>
         /\ {results[i].relay : i \in DOMAIN results} = {r \in Relays : job[r].at = "done"}
         /\ \A i, j \in DOMAIN results : i < j => results[i].relay < results[j].relay

\* A broadcast comes back whatever its relays do: every request has a timeout
\* and the attempts are counted.
BroadcastReturns == awaited \in Relays ~> awaited = NRelays + 1
=============================================================================
