------------------------ MODULE NonceManager_proofs ------------------------
(***************************************************************************)
(* What holds of NonceManager for every number of keys, callers, syncers   *)
(* and resetters, and every limit.                                         *)
(***************************************************************************)
EXTENDS NonceManager, TLAPS

USE DEF history

Label == {"idle", "fetch", "insert", "assign", "overwrite", "baseline", "clear"}

\* The locals of a task that moves: used by every action that changes them.
LEMMA MoveTyped ==
    ASSUME TypeOK, NEW t \in Tasks, NEW l \in Label, Goto(t, l)
    PROVE  pc' \in [Tasks -> Label]
BY DEF TypeOK, Goto, Label

\* A return keeps the types.
LEMMA ReturnTyped ==
    ASSUME TypeOK, NEW t \in Tasks, Return(t)
    PROVE  pc' \in [Tasks -> Label] /\ fetched' \in [Tasks -> Nat]
BY DEF TypeOK, Return, Goto, Label

\* A nonce handed out keeps the types.
LEMMA HandOutTyped ==
    ASSUME TypeOK, NEW k \in Keys, nonces[k] # None, HandOut(k)
    PROVE  /\ nonces' \in [Keys -> Nat \union {None}]
           /\ issued' \in [Keys -> SUBSET Nat]
           /\ grants' \in [Keys -> Nat]
           /\ outstanding' \in [Keys -> SUBSET Nat]
<1>1. nonces[k] \in Nat
  BY DEF TypeOK
<1>2. nonces[k] + 1 \in Nat
  BY <1>1
<1> QED
  BY <1>1, <1>2 DEF TypeOK, HandOut

\* Every map and local keeps its type: in particular a nonce is taken from an
\* entry that exists, whatever reset did in between.
THEOREM TypeCorrect == Spec => []TypeOK
<1>1. Init => TypeOK
  <2> SUFFICES ASSUME Init PROVE TypeOK
    OBVIOUS
  <2>1. onChain \in [Keys -> Nat]
    <3>1. onChain \in [Keys -> FirstCounts] /\ FirstCounts \subseteq Nat
      BY NonceAssumption DEF Init
    <3> QED
      BY <3>1
  <2>2. key \in [Tasks -> Keys]
    BY DEF Init
  <2>3. /\ nonces \in [Keys -> Nat \union {None}]
        /\ confirmed \in [Keys -> Nat \union {None}]
        /\ outstanding \in [Keys -> SUBSET Nat]
        /\ issued \in [Keys -> SUBSET Nat]
        /\ grants \in [Keys -> Nat]
        /\ refused \subseteq Callers
    BY DEF Init
  <2>4. /\ pc \in [Tasks -> Label]
        /\ fetched \in [Tasks -> Nat]
    BY DEF Init, Label
  <2> QED
    BY <2>1, <2>2, <2>3, <2>4 DEF TypeOK, Label
<1>2. TypeOK /\ [Next]_vars => TypeOK'
  <2> SUFFICES ASSUME TypeOK, [Next]_vars PROVE TypeOK'
    OBVIOUS
  <2> USE NonceAssumption
  <2>1. ASSUME NEW c \in Callers, NEW k \in Keys, FastIssue(c, k) PROVE TypeOK'
    BY <2>1, HandOutTyped DEF FastIssue, TypeOK
  <2>2. ASSUME NEW c \in Callers, NEW k \in Keys, FastRefuse(c, k) PROVE TypeOK'
    BY <2>2 DEF FastRefuse, TypeOK, maps, chain
  <2>3. ASSUME NEW c \in Callers, NEW k \in Keys, Miss(c, k) PROVE TypeOK'
    BY <2>3, MoveTyped DEF Miss, TypeOK, maps, chain, Tasks, Label
  <2>4. ASSUME NEW t \in Callers \union Syncers, FetchServed(t) PROVE TypeOK'
    <3>1. t \in Tasks /\ onChain[key[t]] \in Nat
      BY DEF Tasks, TypeOK
    <3> QED
      BY <2>4, <3>1, MoveTyped DEF FetchServed, TypeOK, maps, chain, Label
  <2>5. ASSUME NEW t \in Callers \union Syncers, FetchFailed(t) PROVE TypeOK'
    BY <2>5, ReturnTyped DEF FetchFailed, TypeOK, maps, chain, Tasks, Label
  <2>6. ASSUME NEW c \in Callers, InsertEntry(c) PROVE TypeOK'
    <3>1. c \in Tasks /\ fetched[c] \in Nat /\ key[c] \in Keys
      BY DEF Tasks, TypeOK
    <3>2. nonces' \in [Keys -> Nat \union {None}]
      BY <2>6, <3>1 DEF InsertEntry, OrElse, TypeOK
    <3> QED
      BY <2>6, <3>1, <3>2, MoveTyped DEF InsertEntry, TypeOK, chain, Label
  <2>7. ASSUME NEW c \in Callers, Assign(c) PROVE TypeOK'
    <3>1. c \in Tasks /\ fetched[c] \in Nat /\ key[c] \in Keys
      BY DEF Tasks, TypeOK
    <3>2. confirmed' \in [Keys -> Nat \union {None}]
      BY <2>7, <3>1 DEF Assign, OrElse, TypeOK
    <3> QED
      BY <2>7, <3>1, <3>2, HandOutTyped, ReturnTyped DEF Assign, TypeOK, Label
  <2>8. ASSUME NEW c \in Callers, AssignVanished(c) PROVE TypeOK'
    BY <2>8, ReturnTyped DEF AssignVanished, TypeOK, maps, chain, Tasks, Label
  <2>9. ASSUME NEW s \in Syncers, NEW k \in Keys, SyncStart(s, k) PROVE TypeOK'
    BY <2>9, MoveTyped DEF SyncStart, TypeOK, maps, chain, Tasks, Label
  <2>10. ASSUME NEW s \in Syncers, SyncNonces(s) PROVE TypeOK'
    BY <2>10, MoveTyped DEF SyncNonces, TypeOK, chain, Tasks, Label
  <2>11. ASSUME NEW s \in Syncers, SyncConfirmed(s) PROVE TypeOK'
    BY <2>11, ReturnTyped DEF SyncConfirmed, TypeOK, chain, Tasks, Label
  <2>12. ASSUME NEW r \in Resetters, NEW k \in Keys, ResetNonces(r, k) PROVE TypeOK'
    BY <2>12, MoveTyped DEF ResetNonces, TypeOK, chain, Tasks, Label
  <2>13. ASSUME NEW r \in Resetters, ResetConfirmed(r) PROVE TypeOK'
    BY <2>13, ReturnTyped DEF ResetConfirmed, TypeOK, chain, Tasks, Label
  <2>14. ASSUME NEW k \in Keys, Mine(k) PROVE TypeOK'
    BY <2>14 DEF Mine, TypeOK, maps
  <2>15. ASSUME NEW k \in Keys, NEW n \in outstanding[k], Confirm(k, n) PROVE TypeOK'
    <3>1. n \in Nat
      BY DEF TypeOK
    <3>2. confirmed' \in [Keys -> Nat \union {None}]
      BY <2>15, <3>1 DEF Confirm, Advance, TypeOK
    <3> QED
      BY <2>15, <3>2 DEF Confirm, TypeOK
  <2>16. CASE UNCHANGED vars
    BY <2>16 DEF vars, TypeOK
  <2> QED
    BY <2>1, <2>2, <2>3, <2>4, <2>5, <2>6, <2>7, <2>8, <2>9, <2>10, <2>11,
       <2>12, <2>13, <2>14, <2>15, <2>16
    DEF Next, CallerStep, FetchStep, SyncStep, ResetStep
<1> QED
  BY <1>1, <1>2, PTL DEF Spec

-----------------------------------------------------------------------------
\* What a step can do to the next nonces and the history: nothing, hand one
\* out, make an entry that was not there, or overwrite or remove an entry.
Opens(k) == \E n \in Nat :
    nonces[k] = None /\ nonces' = [nonces EXCEPT ![k] = n] /\ UNCHANGED history

Overwrites(k) == \E v \in Nat \union {None} :
    /\ nonces' = [nonces EXCEPT ![k] = v]
    /\ issued' = [issued EXCEPT ![k] = {}]
    /\ grants' = [grants EXCEPT ![k] = 0]

\* What a step may do to the nonces of a key.
LEMMA StepKinds ==
    ASSUME TypeOK, [Next]_vars
    PROVE  \/ UNCHANGED <<nonces, history>>
           \/ \E k \in Keys : (nonces[k] # None /\ HandOut(k)) \/ Opens(k) \/ Overwrites(k)
<1>1. ASSUME NEW c \in Callers, CallerStep(c)
      PROVE  \/ UNCHANGED <<nonces, history>>
             \/ \E k \in Keys : (nonces[k] # None /\ HandOut(k)) \/ Opens(k)
  <2>1. c \in Tasks /\ key[c] \in Keys /\ fetched[c] \in Nat
    BY DEF Tasks, TypeOK
  <2>2. ASSUME NEW k \in Keys, FastIssue(c, k) \/ FastRefuse(c, k) \/ Miss(c, k)
        PROVE  UNCHANGED <<nonces, history>> \/ (nonces[k] # None /\ HandOut(k))
    BY <2>2 DEF FastIssue, FastRefuse, Miss, maps
  <2>3. CASE InsertEntry(c)
    <3>1. CASE nonces[key[c]] = None
      BY <2>1, <2>3, <3>1 DEF InsertEntry, OrElse, Opens
    <3>2. CASE nonces[key[c]] # None
      BY <2>1, <2>3, <3>2 DEF InsertEntry, OrElse, TypeOK
    <3> QED
      BY <3>1, <3>2
  <2>4. CASE Assign(c)
    BY <2>1, <2>4 DEF Assign
  <2>5. CASE AssignVanished(c)
    BY <2>5 DEF AssignVanished, maps
  <2> QED
    BY <1>1, <2>2, <2>3, <2>4, <2>5 DEF CallerStep
<1>2. ASSUME NEW t \in Callers \union Syncers, FetchStep(t)
      PROVE  UNCHANGED <<nonces, history>>
  BY <1>2 DEF FetchStep, FetchServed, FetchFailed, maps
<1>3. ASSUME NEW s \in Syncers, SyncStep(s)
      PROVE  UNCHANGED <<nonces, history>> \/ \E k \in Keys : Overwrites(k)
  <2>1. key[s] \in Keys /\ fetched[s] \in Nat
    BY DEF Tasks, TypeOK
  <2> QED
    BY <1>3, <2>1 DEF SyncStep, SyncStart, SyncNonces, SyncConfirmed, Overwrites, maps
<1>4. ASSUME NEW r \in Resetters, ResetStep(r)
      PROVE  UNCHANGED <<nonces, history>> \/ \E k \in Keys : Overwrites(k)
  BY <1>4 DEF ResetStep, ResetNonces, ResetConfirmed, Overwrites
<1>5. ASSUME NEW k \in Keys, Mine(k) \/ \E n \in outstanding[k] : Confirm(k, n)
      PROVE  UNCHANGED <<nonces, history>>
  BY <1>5 DEF Mine, Confirm, maps
<1>6. CASE UNCHANGED vars
  BY <1>6 DEF vars
<1> QED
  BY <1>1, <1>2, <1>3, <1>4, <1>5, <1>6 DEF Next

\* Every step keeps the run of handed-out nonces without hole.
LEMMA HandedOutStep ==
    ASSUME TypeOK, TypeOK', HandedOutWithoutHole, [Next]_vars
    PROVE  HandedOutWithoutHole'
<1> SUFFICES ASSUME NEW j \in Keys
             PROVE  IF nonces'[j] = None THEN issued'[j] = {}
                    ELSE \A n \in issued'[j] : /\ n < nonces'[j]
                                               /\ n .. (nonces'[j] - 1) \subseteq issued'[j]
  BY DEF HandedOutWithoutHole
<1>1. CASE UNCHANGED <<nonces, history>>
  BY <1>1 DEF HandedOutWithoutHole
<1>2. ASSUME NEW k \in Keys, nonces[k] # None, HandOut(k)
      PROVE  IF nonces'[j] = None THEN issued'[j] = {}
             ELSE \A n \in issued'[j] : /\ n < nonces'[j]
                                        /\ n .. (nonces'[j] - 1) \subseteq issued'[j]
  <2>1. CASE j # k
    BY <1>2, <2>1 DEF HandOut, TypeOK, HandedOutWithoutHole
  <2>2. CASE j = k
    <3>1. /\ nonces[k] \in Nat /\ nonces'[k] = nonces[k] + 1
          /\ issued[k] \subseteq Nat /\ issued'[k] = issued[k] \union {nonces[k]}
      BY <1>2 DEF HandOut, TypeOK
    <3>2. nonces'[k] # None
      BY <3>1, NonceAssumption
    <3>3. \A n \in issued[k] : n < nonces[k] /\ n .. (nonces[k] - 1) \subseteq issued[k]
      BY <1>2 DEF HandedOutWithoutHole
    <3>4. ASSUME NEW n \in issued'[k]
          PROVE  n < nonces'[k] /\ n .. (nonces'[k] - 1) \subseteq issued'[k]
      <4>1. n \in Nat /\ n < nonces[k] + 1
        BY <3>1, <3>3
      <4>2. ASSUME NEW m \in n .. nonces[k]
            PROVE  m \in issued'[k]
        BY <3>1, <3>3, <4>1
      <4> QED
        BY <3>1, <4>1, <4>2
    <3> QED
      BY <2>2, <3>2, <3>4
  <2> QED
    BY <2>1, <2>2
<1>3. ASSUME NEW k \in Keys, Opens(k)
      PROVE  IF nonces'[j] = None THEN issued'[j] = {}
             ELSE \A n \in issued'[j] : /\ n < nonces'[j]
                                        /\ n .. (nonces'[j] - 1) \subseteq issued'[j]
  BY <1>3 DEF Opens, TypeOK, HandedOutWithoutHole
<1>4. ASSUME NEW k \in Keys, Overwrites(k)
      PROVE  IF nonces'[j] = None THEN issued'[j] = {}
             ELSE \A n \in issued'[j] : /\ n < nonces'[j]
                                        /\ n .. (nonces'[j] - 1) \subseteq issued'[j]
  BY <1>4 DEF Overwrites, TypeOK, HandedOutWithoutHole
<1> QED
  BY <1>1, <1>2, <1>3, <1>4, StepKinds

\* Since the last overwrite of a key the nonces handed out are an interval
\* that ends just below the next one, with any number of concurrent first
\* calls, syncs and resets.
THEOREM HandedOut == Spec => []HandedOutWithoutHole
<1>1. Init => HandedOutWithoutHole
  BY DEF Init, HandedOutWithoutHole
<1>2. TypeOK /\ TypeOK' /\ HandedOutWithoutHole /\ [Next]_vars => HandedOutWithoutHole'
  BY HandedOutStep
<1> QED
  BY <1>1, <1>2, TypeCorrect, PTL DEF Spec

\* NonceManager implements NonceDispenser: no nonce is handed out twice
\* between two overwrites of its key.
THEOREM Refinement == Spec => UniqueNonces
<1>1. Init => Dispenser!Init
  BY DEF Init, Dispenser!Init
<1>2. TypeOK /\ HandedOutWithoutHole /\ [Next]_vars => [Dispenser!Next]_(Dispenser!vars)
  <2> SUFFICES ASSUME TypeOK, HandedOutWithoutHole, [Next]_vars
               PROVE  [Dispenser!Next]_(Dispenser!vars)
    OBVIOUS
  <2>1. ASSUME NEW k \in Keys, nonces[k] # None, HandOut(k)
        PROVE  Dispenser!Give(k)
    <3>1. nonces[k] \in Nat /\ nonces[k] \notin issued[k]
      BY <2>1 DEF HandedOutWithoutHole, TypeOK
    <3>2. nonces[k] \in issued'[k]
      BY <2>1 DEF HandOut, TypeOK
    <3>3. /\ issued' = [issued EXCEPT ![k] = @ \union {nonces[k]}]
          /\ grants' = [grants EXCEPT ![k] = @ + 1]
      BY <2>1 DEF HandOut
    <3> QED
      BY <3>1, <3>2, <3>3 DEF Dispenser!Give
  <2>2. ASSUME NEW k \in Keys, Overwrites(k)
        PROVE  Dispenser!Restart(k)
    BY <2>2 DEF Overwrites, Dispenser!Restart
  <2> QED
    BY <2>1, <2>2, StepKinds DEF Opens, Dispenser!Next, Dispenser!vars
<1> QED
  BY <1>1, <1>2, TypeCorrect, HandedOut, PTL DEF Spec, UniqueNonces, Dispenser!Spec

-----------------------------------------------------------------------------
(* With no syncers and no resetters: the invariant that connects the maps,  *)
(* the chain and the callers on the slow path.                              *)

\* Before the entry appears nobody holds a nonce, so the chain stands still
\* and every count fetched so far is still the chain's.
CallerInv ==
    \A c \in Callers : pc[c] \in {"insert", "assign"} =>
        /\ fetched[c] <= onChain[key[c]]
        /\ nonces[key[c]] = None => pc[c] = "insert" /\ fetched[c] = onChain[key[c]]

OutstandingInv ==
    \A k \in Keys :
        IF nonces[k] = None THEN outstanding[k] = {}
        ELSE \A n \in outstanding[k] : n < nonces[k]

IInv == CallerInv /\ OutstandingInv /\ ChainReachesNext /\ ConfirmedIsMined

\* The same, for one caller or one key.
CallerInvOf(c) == pc[c] \in {"insert", "assign"} =>
    /\ fetched[c] <= onChain[key[c]]
    /\ nonces[key[c]] = None => pc[c] = "insert" /\ fetched[c] = onChain[key[c]]

KeyInvOf(k) ==
    /\ IF nonces[k] = None THEN outstanding[k] = {}
       ELSE /\ \A n \in outstanding[k] : n < nonces[k]
            /\ onChain[k] <= nonces[k]
            /\ onChain[k] .. (nonces[k] - 1) \subseteq outstanding[k]
    /\ confirmed[k] # None => confirmed[k] <= onChain[k]

\* The invariant, caller by caller and key by key.
LEMMA InvOf == IInv <=> (\A c \in Callers : CallerInvOf(c)) /\ (\A k \in Keys : KeyInvOf(k))
BY DEF IInv, CallerInv, OutstandingInv, ChainReachesNext, ConfirmedIsMined, CallerInvOf, KeyInvOf

\* A nonce handed out keeps the invariant of its key.
LEMMA HandOutKeyInv ==
    ASSUME TypeOK, NEW k \in Keys, nonces[k] # None, HandOut(k), IInv,
           UNCHANGED onChain, confirmed'[k] # None => confirmed'[k] <= onChain[k]
    PROVE  KeyInvOf(k)' /\ nonces'[k] # None
<1>1. /\ nonces[k] \in Nat /\ nonces'[k] = nonces[k] + 1 /\ onChain[k] \in Nat
      /\ outstanding[k] \subseteq Nat
      /\ outstanding'[k] = outstanding[k] \union {nonces[k]}
  BY DEF HandOut, TypeOK
<1>2. KeyInvOf(k)
  BY InvOf
<1>3. nonces'[k] # None
  BY <1>1, NonceAssumption
<1>4. \A n \in outstanding'[k] : n < nonces'[k]
  BY <1>1, <1>2 DEF KeyInvOf
<1>5. onChain[k] <= nonces'[k]
  BY <1>1, <1>2 DEF KeyInvOf
<1>6. ASSUME NEW m \in onChain[k] .. (nonces'[k] - 1) PROVE m \in outstanding'[k]
  BY <1>1, <1>2 DEF KeyInvOf
<1> QED
  BY <1>3, <1>4, <1>5, <1>6 DEF KeyInvOf

\* Every step keeps the invariant of first callers.
LEMMA IInvStep ==
    ASSUME Syncers = {}, Resetters = {}, TypeOK, IInv, [Next]_vars
    PROVE  IInv'
<1> USE NonceAssumption
<1> SUFFICES ASSUME NEW d \in Callers, NEW j \in Keys
             PROVE  CallerInvOf(d)' /\ KeyInvOf(j)'
  <2> SUFFICES (\A d \in Callers : CallerInvOf(d)') /\ (\A j \in Keys : KeyInvOf(j)')
    BY DEF IInv, CallerInv, OutstandingInv, ChainReachesNext, ConfirmedIsMined, CallerInvOf, KeyInvOf
  <2> QED
    <3>1. \A d \in Callers : key[d] \in Keys
      BY DEF TypeOK, Tasks
    <3> QED
      BY <3>1
<1>0. /\ CallerInvOf(d) /\ KeyInvOf(j) /\ KeyInvOf(key[d])
      /\ d \in Tasks /\ key[d] \in Keys /\ fetched[d] \in Nat
      /\ onChain[j] \in Nat /\ onChain[key[d]] \in Nat
  BY InvOf DEF TypeOK, Tasks
<1>1. ASSUME NEW c \in Callers, NEW k \in Keys, FastIssue(c, k)
      PROVE  CallerInvOf(d)' /\ KeyInvOf(j)'
  <2>1. KeyInvOf(k)' /\ nonces'[k] # None
    BY <1>1, HandOutKeyInv, InvOf DEF FastIssue, KeyInvOf
  <2>2. KeyInvOf(j)'
    BY <1>0, <1>1, <2>1 DEF FastIssue, HandOut, KeyInvOf, TypeOK
  <2> QED
    BY <1>0, <1>1, <2>1, <2>2 DEF FastIssue, HandOut, CallerInvOf, TypeOK
<1>2. ASSUME NEW c \in Callers, NEW k \in Keys, FastRefuse(c, k) \/ Miss(c, k)
      PROVE  CallerInvOf(d)' /\ KeyInvOf(j)'
  BY <1>0, <1>2 DEF FastRefuse, Miss, Goto, maps, chain, CallerInvOf, KeyInvOf, TypeOK, Tasks
<1>3. ASSUME NEW c \in Callers, FetchServed(c)
      PROVE  CallerInvOf(d)' /\ KeyInvOf(j)'
  BY <1>0, <1>3, InvOf DEF FetchServed, Goto, maps, chain, CallerInvOf, KeyInvOf, TypeOK, Tasks
<1>4. ASSUME NEW c \in Callers, FetchFailed(c) \/ AssignVanished(c)
      PROVE  CallerInvOf(d)' /\ KeyInvOf(j)'
  BY <1>0, <1>4 DEF FetchFailed, AssignVanished, Return, Goto, maps, chain, CallerInvOf, KeyInvOf, TypeOK, Tasks
<1>5. ASSUME NEW c \in Callers, InsertEntry(c)
      PROVE  CallerInvOf(d)' /\ KeyInvOf(j)'
  <2>1. /\ c \in Tasks /\ key[c] \in Keys /\ fetched[c] \in Nat /\ onChain[key[c]] \in Nat
        /\ CallerInvOf(c) /\ KeyInvOf(key[c])
    BY InvOf DEF Tasks, TypeOK
  <2>2. nonces'[key[c]] # None
    BY <1>5, <2>1 DEF InsertEntry, OrElse, TypeOK
  <2>3. CASE nonces[key[c]] = None
    <3>1. nonces' = [nonces EXCEPT ![key[c]] = onChain[key[c]]] /\ outstanding[key[c]] = {}
      BY <1>5, <2>1, <2>3 DEF InsertEntry, OrElse, CallerInvOf, KeyInvOf
    <3>2. KeyInvOf(j)'
      BY <1>0, <1>5, <2>1, <2>2, <3>1 DEF InsertEntry, KeyInvOf, chain, TypeOK
    <3> QED
      BY <1>0, <1>5, <2>1, <2>2, <3>1, <3>2 DEF InsertEntry, Goto, CallerInvOf, chain, TypeOK
  <2>4. CASE nonces[key[c]] # None
    <3>1. nonces' = nonces
      BY <1>5, <2>1, <2>4 DEF InsertEntry, OrElse, TypeOK
    <3> QED
      BY <1>0, <1>5, <2>1, <2>2, <3>1 DEF InsertEntry, Goto, CallerInvOf, KeyInvOf, chain, TypeOK
  <2> QED
    BY <2>3, <2>4
<1>6. ASSUME NEW c \in Callers, Assign(c)
      PROVE  CallerInvOf(d)' /\ KeyInvOf(j)'
  <2> DEFINE k == key[c]
  <2>1. /\ c \in Tasks /\ k \in Keys /\ fetched[c] \in Nat
        /\ CallerInvOf(c) /\ KeyInvOf(k)
    BY InvOf DEF Tasks, TypeOK
  <2>2. confirmed'[k] # None => confirmed'[k] <= onChain[k]
    BY <1>6, <2>1 DEF Assign, OrElse, CallerInvOf, KeyInvOf, TypeOK
  <2>3. KeyInvOf(k)' /\ nonces'[k] # None
    BY <1>6, <2>1, <2>2, HandOutKeyInv DEF Assign
  <2>4. KeyInvOf(j)'
    BY <1>0, <1>6, <2>1, <2>3 DEF Assign, HandOut, KeyInvOf, TypeOK
  <2> QED
    BY <1>0, <1>6, <2>1, <2>3, <2>4 DEF Assign, HandOut, Return, Goto, CallerInvOf, TypeOK
<1>7. ASSUME NEW k \in Keys, Mine(k)
      PROVE  CallerInvOf(d)' /\ KeyInvOf(j)'
  <2>1. KeyInvOf(k) /\ onChain[k] \in Nat /\ outstanding[k] \subseteq Nat
    BY InvOf DEF TypeOK
  <2>2. nonces[k] \in Nat /\ onChain[k] < nonces[k]
    BY <1>7, <2>1 DEF Mine, KeyInvOf, TypeOK
  <2>3. onChain'[k] = onChain[k] + 1
    BY <1>7 DEF Mine, TypeOK
  <2>4. confirmed[k] \in Nat \union {None}
    BY DEF TypeOK
  <2>5. KeyInvOf(k)'
    BY <1>7, <2>1, <2>2, <2>3, <2>4 DEF Mine, KeyInvOf, maps
  <2>6. KeyInvOf(j)'
    BY <1>0, <1>7, <2>5 DEF Mine, KeyInvOf, maps, TypeOK
  <2> QED
    BY <1>0, <1>7, <2>2, <2>3, <2>6 DEF Mine, CallerInvOf, maps, TypeOK
<1>8. ASSUME NEW k \in Keys, NEW n \in outstanding[k], Confirm(k, n)
      PROVE  CallerInvOf(d)' /\ KeyInvOf(j)'
  <2>1. n \in Nat /\ KeyInvOf(k) /\ onChain[k] \in Nat
    BY InvOf DEF TypeOK
  <2>2. KeyInvOf(k)'
    BY <1>8, <2>1 DEF Confirm, Advance, KeyInvOf, TypeOK
  <2>3. KeyInvOf(j)'
    BY <1>0, <1>8, <2>2 DEF Confirm, KeyInvOf, TypeOK
  <2> QED
    BY <1>0, <1>8, <2>3 DEF Confirm, CallerInvOf
<1>9. CASE UNCHANGED vars
  BY <1>0, <1>9 DEF vars, CallerInvOf, KeyInvOf
<1> QED
  BY <1>1, <1>2, <1>3, <1>4, <1>5, <1>6, <1>7, <1>8, <1>9
  DEF Next, CallerStep, FetchStep

\* As long as nobody syncs or resets: a caller never receives a nonce the
\* chain already used, every nonce from the chain's count on is with a caller,
\* and a confirmed mark covers only mined nonces.  The counts the concurrent
\* first callers fetched may be stale when they are used.
THEOREM FirstCallsFresh ==
    ASSUME Syncers = {}, Resetters = {}
    PROVE  Spec => []InStepWithChain
<1>1. Init => IInv
  BY DEF Init, IInv, CallerInv, OutstandingInv, ChainReachesNext, ConfirmedIsMined, Tasks
<1>2. TypeOK /\ IInv /\ [Next]_vars => IInv'
  BY IInvStep
<1>3. IInv => InStepWithChain
  BY DEF IInv, InStepWithChain
<1> QED
  BY <1>1, <1>2, <1>3, TypeCorrect, PTL DEF Spec

\* As long as nobody syncs or resets no step takes a confirmed mark back.
THEOREM NeverTakenBack ==
    ASSUME Syncers = {}, Resetters = {}
    PROVE  Spec => ConfirmedForward
<1>1. ASSUME TypeOK, [Next]_vars
      PROVE  [\A k \in Keys : confirmed[k] # None =>
                  confirmed'[k] # None /\ confirmed'[k] >= confirmed[k]]_vars
  <2> SUFFICES ASSUME NEW j \in Keys, confirmed[j] # None, Next
               PROVE  confirmed'[j] # None /\ confirmed'[j] >= confirmed[j]
    BY <1>1
  <2>0. confirmed[j] \in Nat
    BY <1>1 DEF TypeOK
  <2>1. CASE UNCHANGED confirmed
    BY <2>0, <2>1
  <2>2. ASSUME NEW c \in Callers, Assign(c)
        PROVE  confirmed'[j] # None /\ confirmed'[j] >= confirmed[j]
    BY <1>1, <2>0, <2>2 DEF Assign, OrElse, TypeOK
  <2>3. ASSUME NEW k \in Keys, NEW n \in outstanding[k], Confirm(k, n)
        PROVE  confirmed'[j] # None /\ confirmed'[j] >= confirmed[j]
    <3>1. n + 1 \in Nat /\ n + 1 # None
      BY <1>1, NonceAssumption DEF TypeOK
    <3> QED
      BY <1>1, <2>0, <2>3, <3>1 DEF Confirm, Advance, TypeOK
  <2> QED
    BY <2>1, <2>2, <2>3
    DEF Next, CallerStep, FetchStep, FastIssue, FastRefuse, Miss, FetchServed,
        FetchFailed, InsertEntry, AssignVanished, Mine, maps
<1> QED
  BY <1>1, TypeCorrect, PTL DEF Spec, ConfirmedForward
=============================================================================
