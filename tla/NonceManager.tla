---------------------------- MODULE NonceManager ----------------------------
(***************************************************************************)
(* crates/phantom-execution/src/nonce.rs: NonceManager, two concurrent     *)
(* hash maps (DashMap) shared by tasks that ask for nonces, confirm them,  *)
(* re-synchronise a key from the chain, or reset it.                       *)
(*                                                                         *)
(* A step of a task is the stretch of code it runs while it holds one      *)
(* entry guard of `nonces`, or one access to a map when it holds none:     *)
(* between two steps, and during the await of fetch_nonce, every other     *)
(* task may run.  The two maps are separate: nothing makes a change of     *)
(* both atomic.                                                            *)
(***************************************************************************)
EXTENDS Integers, FiniteSets

CONSTANTS
    Keys,        \* NonceKey: an address on a chain
    Callers,     \* tasks that call get_next_nonce
    Syncers,     \* tasks that call sync_nonce
    Resetters,   \* tasks that call reset
    MaxPending,  \* config.max_pending_per_address
    FirstCounts, \* transaction counts the chain may start with
    MaxNonce,    \* bound: no call starts once the key's nonce or transaction
                 \* count has reached it
    None         \* a map has no entry for the key

Tasks == Callers \union Syncers \union Resetters

ASSUME NonceAssumption ==
    /\ MaxPending \in Nat
    /\ FirstCounts \subseteq Nat
    /\ MaxNonce \in Nat
    /\ None \notin Nat
    /\ Callers # {}
    /\ Callers \intersect Syncers = {}
    /\ Callers \intersect Resetters = {}
    /\ Syncers \intersect Resetters = {}

VARIABLES
    nonces,      \* the map `nonces`: the next nonce to hand out
    confirmed,   \* the map `confirmed`: every nonce below it is mined
    pc,          \* where each task is
    key,         \* the key of the task's call
    fetched,     \* the task's local on_chain: the answer of fetch_nonce
    refused,     \* callers whose last get_next_nonce hit the pending limit
    onChain,     \* the chain: the transaction count of the key
    outstanding, \* nonces handed out and not yet confirmed to the manager
    issued,      \* history: nonces handed out since the key's tracking was
                 \* last overwritten or removed
    grants       \* history: how many times one was handed out since then

vars == <<nonces, confirmed, pc, key, fetched, refused, onChain, outstanding,
          issued, grants>>

maps    == <<nonces, confirmed>>
chain   == <<onChain, outstanding>>
history == <<issued, grants>>

TypeOK ==
    /\ nonces \in [Keys -> Nat \union {None}]
    /\ confirmed \in [Keys -> Nat \union {None}]
    /\ pc \in [Tasks -> {"idle", "fetch", "insert", "assign", "overwrite",
                         "baseline", "clear"}]
    /\ key \in [Tasks -> Keys]
    /\ fetched \in [Tasks -> Nat]
    /\ refused \subseteq Callers
    /\ onChain \in [Keys -> Nat]
    /\ outstanding \in [Keys -> SUBSET Nat]
    /\ issued \in [Keys -> SUBSET Nat]
    /\ grants \in [Keys -> Nat]

Init ==
    /\ nonces = [k \in Keys |-> None]
    /\ confirmed = [k \in Keys |-> None]
    /\ pc = [t \in Tasks |-> "idle"]
    /\ key \in [Tasks -> Keys]
    /\ fetched = [t \in Tasks |-> 0]
    /\ refused = {}
    /\ onChain \in [Keys -> FirstCounts]
    /\ outstanding = [k \in Keys |-> {}]
    /\ issued = [k \in Keys |-> {}]
    /\ grants = [k \in Keys |-> 0]

Goto(t, label) == pc' = [pc EXCEPT ![t] = label]

\* The call is over and its locals are gone.
Return(t) == Goto(t, "idle") /\ fetched' = [fetched EXCEPT ![t] = 0]

Saturating(a, b) == IF a > b THEN a - b ELSE 0

OrZero(v) == IF v = None THEN 0 ELSE v

\* Faulty: insert instead of or_insert.
OrElse_Overwrite(v, default) == default

\* Faulty: the transaction count taken for the last nonce used.
OrElse_Next(v, default) == IF v = None THEN default + 1 ELSE v

\* entry(key).or_insert(default)
OrElse(v, default) == IF v = None THEN default ELSE v

\* Faulty: also moves back; forgets that nonce n itself is mined.
Advance_Back(v, n)  == n + 1
\* Faulty: or_insert, a mark that is there stays.
Advance_Once(v, n) == IF v = None THEN n + 1 ELSE v

\* The mark of confirm_nonce only moves forward.
Advance(v, n) == IF v = None \/ n + 1 > v THEN n + 1 ELSE v

\* pending_count: what the limit is compared with.
PendingCount(k) == Saturating(OrZero(nonces[k]), OrZero(confirmed[k]))

\* The refusal of the fast path.
LimitReached(k) == PendingCount(k) >= MaxPending

-----------------------------------------------------------------------------
(* get_next_nonce                                                          *)

\* Faulty: increments before it reads.
HandOut_Late(k) ==
    /\ nonces' = [nonces EXCEPT ![k] = @ + 1]
    /\ issued' = [issued EXCEPT ![k] = @ \union {nonces[k] + 1}]
    /\ grants' = [grants EXCEPT ![k] = @ + 1]
    /\ outstanding' = [outstanding EXCEPT ![k] = @ \union {nonces[k] + 1}]

\* A caller takes the nonce of the entry and increments it.
HandOut(k) ==
    /\ nonces' = [nonces EXCEPT ![k] = @ + 1]
    /\ issued' = [issued EXCEPT ![k] = @ \union {nonces[k]}]
    /\ grants' = [grants EXCEPT ![k] = @ + 1]
    /\ outstanding' = [outstanding EXCEPT ![k] = @ \union {nonces[k]}]

\* Fast path: the entry exists and the limit is not reached.
FastIssue(c, k) ==
    /\ pc[c] = "idle"
    /\ nonces[k] # None
    /\ ~LimitReached(k)
    /\ nonces[k] < MaxNonce
    /\ HandOut(k)
    /\ refused' = refused \ {c}
    /\ UNCHANGED <<confirmed, pc, key, fetched, onChain>>

\* Fast path: the entry exists and the limit is reached.
FastRefuse(c, k) ==
    /\ pc[c] = "idle"
    /\ nonces[k] # None
    /\ LimitReached(k)
    /\ refused' = refused \union {c}
    /\ UNCHANGED <<maps, pc, key, fetched, chain, history>>

\* Slow path: no entry; the caller asks the chain, holding no guard.
Miss(c, k) ==
    /\ pc[c] = "idle"
    /\ nonces[k] = None
    /\ onChain[k] < MaxNonce
    /\ key' = [key EXCEPT ![c] = k]
    /\ Goto(c, "fetch")
    /\ refused' = refused \ {c}
    /\ UNCHANGED <<maps, fetched, chain, history>>

\* The provider answers a pending fetch_nonce with the present count.
FetchServed(t) ==
    /\ pc[t] = "fetch"
    /\ fetched' = [fetched EXCEPT ![t] = onChain[key[t]]]
    /\ Goto(t, IF t \in Callers THEN "insert" ELSE "overwrite")
    /\ UNCHANGED <<maps, key, refused, chain, history>>

\* The provider fails: the call ends with an error.
FetchFailed(t) ==
    /\ pc[t] = "fetch"
    /\ Return(t)
    /\ UNCHANGED <<maps, key, refused, chain, history>>

\* entry(key).or_insert(on_chain): a concurrent caller may have been first.
InsertEntry(c) ==
    /\ pc[c] = "insert"
    /\ nonces' = [nonces EXCEPT ![key[c]] = OrElse(@, fetched[c])]
    /\ Goto(c, "assign")
    /\ UNCHANGED <<confirmed, key, fetched, refused, chain, history>>

\* The second access of the slow path: take the nonce, store the baseline.
\* The limit is not looked at.
Assign(c) ==
    LET k == key[c] IN
    /\ pc[c] = "assign"
    /\ nonces[k] # None
    /\ HandOut(k)
    /\ confirmed' = [confirmed EXCEPT ![k] = OrElse(@, fetched[c])]
    /\ Return(c)
    /\ UNCHANGED <<key, refused, onChain>>

\* The entry was reset between the two accesses.
AssignVanished(c) ==
    /\ pc[c] = "assign"
    /\ nonces[key[c]] = None
    /\ Return(c)
    /\ UNCHANGED <<maps, key, refused, chain, history>>

-----------------------------------------------------------------------------
(* sync_nonce, reset, confirm_nonce                                        *)

SyncStart(s, k) ==
    /\ pc[s] = "idle"
    /\ key' = [key EXCEPT ![s] = k]
    /\ Goto(s, "fetch")
    /\ UNCHANGED <<maps, fetched, refused, chain, history>>

SyncNonces(s) ==
    /\ pc[s] = "overwrite"
    /\ nonces' = [nonces EXCEPT ![key[s]] = fetched[s]]
    /\ issued' = [issued EXCEPT ![key[s]] = {}]
    /\ grants' = [grants EXCEPT ![key[s]] = 0]
    /\ Goto(s, "baseline")
    /\ UNCHANGED <<confirmed, key, fetched, refused, chain>>

SyncConfirmed(s) ==
    /\ pc[s] = "baseline"
    /\ confirmed' = [confirmed EXCEPT ![key[s]] = fetched[s]]
    /\ Return(s)
    /\ UNCHANGED <<nonces, key, refused, chain, history>>

ResetNonces(r, k) ==
    /\ pc[r] = "idle"
    /\ key' = [key EXCEPT ![r] = k]
    /\ nonces' = [nonces EXCEPT ![k] = None]
    /\ issued' = [issued EXCEPT ![k] = {}]
    /\ grants' = [grants EXCEPT ![k] = 0]
    /\ Goto(r, "clear")
    /\ UNCHANGED <<confirmed, fetched, refused, chain>>

ResetConfirmed(r) ==
    /\ pc[r] = "clear"
    /\ confirmed' = [confirmed EXCEPT ![key[r]] = None]
    /\ Return(r)
    /\ UNCHANGED <<nonces, key, refused, chain, history>>

\* confirm_nonce only moves forward; calls may come in any order.
Confirm(k, n) ==
    /\ n \in outstanding[k]
    /\ n < onChain[k]
    /\ confirmed' = [confirmed EXCEPT ![k] = Advance(@, n)]
    /\ outstanding' = [outstanding EXCEPT ![k] = @ \ {n}]
    /\ UNCHANGED <<nonces, pc, key, fetched, refused, onChain, history>>

\* The chain includes the transaction with the next nonce, if some caller
\* was given that nonce.
Mine(k) ==
    /\ onChain[k] \in outstanding[k]
    /\ onChain' = [onChain EXCEPT ![k] = @ + 1]
    /\ UNCHANGED <<maps, pc, key, fetched, refused, outstanding, history>>

-----------------------------------------------------------------------------
CallerStep(c) ==
    \/ \E k \in Keys : FastIssue(c, k) \/ FastRefuse(c, k) \/ Miss(c, k)
    \/ InsertEntry(c)
    \/ Assign(c)
    \/ AssignVanished(c)

FetchStep(t) == FetchServed(t) \/ FetchFailed(t)

SyncStep(s) == (\E k \in Keys : SyncStart(s, k)) \/ SyncNonces(s) \/ SyncConfirmed(s)

ResetStep(r) == (\E k \in Keys : ResetNonces(r, k)) \/ ResetConfirmed(r)

Next ==
    \/ \E c \in Callers : CallerStep(c)
    \/ \E t \in Callers \union Syncers : FetchStep(t)
    \/ \E s \in Syncers : SyncStep(s)
    \/ \E r \in Resetters : ResetStep(r)
    \/ \E k \in Keys : Mine(k) \/ \E n \in outstanding[k] : Confirm(k, n)

Spec == Init /\ [][Next]_vars

\* Once started, a call is run to its end by the executor, and the provider
\* answers; the chain includes what was submitted and the settlement side
\* confirms it.  Nobody is obliged to call.
Fairness ==
    /\ \A c \in Callers : WF_vars(InsertEntry(c) \/ Assign(c) \/ AssignVanished(c))
    /\ \A t \in Callers \union Syncers : WF_vars(FetchStep(t))
    /\ \A s \in Syncers : WF_vars(SyncNonces(s) \/ SyncConfirmed(s))
    /\ \A r \in Resetters : WF_vars(ResetConfirmed(r))
    /\ \A k \in Keys : WF_vars(Mine(k) \/ \E n \in outstanding[k] : Confirm(k, n))

FairSpec == Spec /\ Fairness

-----------------------------------------------------------------------------
(* Properties                                                              *)

Dispenser == INSTANCE NonceDispenser WITH given <- issued, grants <- grants

\* "no two callers receive the same nonce for the same address/chain pair"
\* (nonce.rs:40-42): between two overwrites of a key every nonce is handed
\* out at most once, whatever the interleaving of first calls, later calls,
\* sync_nonce and reset.
UniqueNonces == Dispenser!Spec

\* The nonces handed out since the key was last overwritten have no hole and
\* end just below the next nonce: a hole would leave every later transaction
\* waiting in the mempool.
HandedOutWithoutHole ==
    \A k \in Keys :
        IF nonces[k] = None THEN issued[k] = {}
        ELSE \A n \in issued[k] : n < nonces[k] /\ n .. (nonces[k] - 1) \subseteq issued[k]

\* With no sync and no reset: the next nonce is never one the chain already
\* used, although concurrent first callers may all have read the count before
\* any transaction was mined; and every nonce from the chain's count up to
\* the next one is with some caller whose transaction is not confirmed.
ChainReachesNext ==
    \A k \in Keys : nonces[k] # None =>
        /\ onChain[k] <= nonces[k]
        /\ onChain[k] .. (nonces[k] - 1) \subseteq outstanding[k]

\* With no sync and no reset: a confirmed mark covers only mined nonces, even
\* when confirmations come out of order or race the baseline of a first call.
ConfirmedIsMined ==
    \A k \in Keys : confirmed[k] # None => confirmed[k] <= onChain[k]

\* Both at once: what the manager hands out and counts stays in step with the
\* chain although it asks for the transaction count only once.
InStepWithChain == ChainReachesNext /\ ConfirmedIsMined

\* With no sync and no reset: no step moves a confirmed mark back, so a
\* pending slot that was freed is not taken back.
ConfirmedForward ==
    [][\A k \in Keys : confirmed[k] # None =>
            confirmed'[k] # None /\ confirmed'[k] >= confirmed[k]]_vars

\* "Maximum number of pending (unconfirmed) nonces per address before refusing
\* to issue more" (nonce.rs:25-26): a refusal means that that many are pending.
RefusalJustified ==
    [][\A c \in Callers, k \in Keys :
            FastRefuse(c, k) => Cardinality(outstanding[k]) >= MaxPending]_vars

\* If submitted transactions are mined and confirmed, an address that reached
\* its limit leaves it: the bookkeeping of `confirmed` loses no slot.
LimitIsLeft ==
    \A k \in Keys : LimitReached(k) ~> ~LimitReached(k)
=============================================================================
