----------------------------- MODULE PhantomFiller -----------------------------
(***************************************************************************)
(* contracts/src/PhantomFiller.sol: authorized accounts have whitelisted   *)
(* reactors fill orders; the owner appoints both and holds the funds.      *)
(*                                                                         *)
(* A call that gives control to another contract is a frame: what that     *)
(* contract does before it returns are steps of their own, calls into this *)
(* contract among them, and a call that reverts puts back the storage and  *)
(* the funds it began with.  Calls that run no foreign code are one step,  *)
(* and one that reverts is no step.  One token stands for all, and only    *)
(* reactors are approved.                                                  *)
(***************************************************************************)
EXTENDS Integers, Sequences, FiniteSets

CONSTANTS
    FillerAccounts,  \* addresses of people and contracts
    Reactors,        \* those of reactors
    ZeroAddress,     \* address(0)
    BatchSizes,      \* lengths of the batches, 0 and more than MaxBatch among them
    MaxBatch,        \* 256
    MaxFunds,        \* bound of the funds, for TLC
    MaxDepth,        \* bound of the calls' depth, for TLC
    MaxFillerCalls   \* bound of the number of calls, for TLC

ASSUME FillerAssumption ==
    /\ Reactors \subseteq FillerAccounts
    /\ ZeroAddress \notin FillerAccounts
    /\ BatchSizes \subseteq Nat
    /\ MaxBatch \in Nat /\ MaxFunds \in Nat /\ MaxDepth \in Nat /\ MaxFillerCalls \in Nat

VARIABLES
    filler,  \* storage and funds of the contract
    frames,  \* calls that are being executed, the outermost first
    made     \* number of calls, bounded

fillerVars == <<filler, frames, made>>

\* The constructor authorizes the owner; OpenZeppelin's lock is open.
FillerInit ==
    /\ \E o \in FillerAccounts \ Reactors :
         filler = [owner |-> o, whitelistedReactors |-> {}, authorizedFillers |-> {o},
                   locked |-> FALSE, tokens |-> 0, ether |-> 0,
                   allowance |-> [r \in Reactors |-> 0]]
    /\ frames = << >>
    /\ made = 0

Top == frames[Len(frames)]

\* Control passes to other code, which may call the contract in turn.
Push(call, callee) ==
    /\ Len(frames) < MaxDepth
    /\ frames' = Append(frames, [call |-> call, callee |-> callee, answered |-> FALSE, before |-> filler])

Pop == frames # << >> /\ frames' = SubSeq(frames, 1, Len(frames) - 1)

-----------------------------------------------------------------------------
(* The owner                                                               *)

AddReactor(sender, reactor) ==
    /\ sender = filler.owner /\ reactor # ZeroAddress
    /\ filler' = [filler EXCEPT !.whitelistedReactors = @ \union {reactor}]
    /\ UNCHANGED frames

RemoveReactor(sender, reactor) ==
    /\ sender = filler.owner
    /\ filler' = [filler EXCEPT !.whitelistedReactors = @ \ {reactor}]
    /\ UNCHANGED frames

AuthorizeFiller(sender, account) ==
    /\ sender = filler.owner /\ account # ZeroAddress
    /\ filler' = [filler EXCEPT !.authorizedFillers = @ \union {account}]
    /\ UNCHANGED frames

DeauthorizeFiller(sender, account) ==
    /\ sender = filler.owner
    /\ filler' = [filler EXCEPT !.authorizedFillers = @ \ {account}]
    /\ UNCHANGED frames

\* What a reactor was approved for it keeps when it is taken off the list.
ApproveToken(sender, spender, amount) ==
    /\ sender = filler.owner /\ spender \in Reactors
    /\ filler' = [filler EXCEPT !.allowance[spender] = amount]
    /\ UNCHANGED frames

WithdrawToken(sender, to, amount) ==
    /\ sender = filler.owner /\ to # ZeroAddress /\ amount <= filler.tokens
    /\ filler' = [filler EXCEPT !.tokens = @ - amount]
    /\ UNCHANGED frames

\* The recipient runs with the ether it was sent.
WithdrawEth(sender, to, amount) ==
    /\ sender = filler.owner /\ to # ZeroAddress
    /\ amount # 0 /\ amount <= filler.ether
    /\ filler' = [filler EXCEPT !.ether = @ - amount]
    /\ Push("ether", to)

\* The transfer succeeded.
EthWithdrawn ==
    /\ Pop /\ Top.call = "ether"
    /\ UNCHANGED filler

OwnerCalls(sender) ==
    \/ \E r \in Reactors \union {ZeroAddress} :
         \/ AddReactor(sender, r) \/ RemoveReactor(sender, r)
         \/ \E n \in 0..MaxFunds : ApproveToken(sender, r, n)
    \/ \E a \in FillerAccounts \union {ZeroAddress} :
         \/ AuthorizeFiller(sender, a) \/ DeauthorizeFiller(sender, a)
         \/ \E n \in 0..MaxFunds : WithdrawToken(sender, a, n) \/ WithdrawEth(sender, a, n)

-----------------------------------------------------------------------------
(* Fills                                                                   *)

\* Faulty: a fill is not nonReentrant.
Enter_Reentrant(sender, reactor, call) ==
    /\ sender \in filler.authorizedFillers
    /\ reactor \in filler.whitelistedReactors
    /\ filler' = [filler EXCEPT !.locked = TRUE]
    /\ Push(call, reactor)

\* onlyAuthorizedFiller, nonReentrant and the whitelist, then the reactor.
Enter(sender, reactor, call) ==
    /\ sender \in filler.authorizedFillers
    /\ ~filler.locked
    /\ reactor \in filler.whitelistedReactors
    /\ filler' = [filler EXCEPT !.locked = TRUE]
    /\ Push(call, reactor)

Fill(sender, reactor) == Enter(sender, reactor, "fill")

FillWithCallback(sender, reactor) == Enter(sender, reactor, "callback")

FillBatch(sender, reactor, size) ==
    /\ size # 0 /\ size <= MaxBatch
    /\ Enter(sender, reactor, "batch")

\* The reactor of a callback fill may call back, if it is still on the list; the
\* contract does nothing then.
ReactorCallback(reactor) ==
    /\ frames # << >> /\ Top.call = "callback" /\ Top.callee = reactor
    /\ reactor \in filler.whitelistedReactors
    /\ frames' = [frames EXCEPT ![Len(frames)].answered = TRUE]
    /\ UNCHANGED filler

\* The reactor returns: the lock opens.
FillExecuted ==
    /\ Pop /\ Top.call # "ether"
    /\ filler' = [filler EXCEPT !.locked = FALSE]

\* The callee reverts, a reactor because its callback did for instance, and
\* with it the call of the contract.
Reverts ==
    /\ Pop
    /\ filler' = Top.before

FillerCalls(sender) ==
    \E r \in Reactors :
        \/ Fill(sender, r) \/ FillWithCallback(sender, r)
        \/ \E n \in BatchSizes : FillBatch(sender, r, n)

-----------------------------------------------------------------------------
(* The token and the ether                                                 *)

\* transferFrom by who was approved.
Pull(spender) ==
    /\ filler.allowance[spender] > 0 /\ filler.tokens > 0
    /\ filler' = [filler EXCEPT !.tokens = @ - 1, !.allowance[spender] = @ - 1]
    /\ UNCHANGED frames

Fund ==
    /\ \/ filler.tokens < MaxFunds /\ filler' = [filler EXCEPT !.tokens = @ + 1]
       \/ filler.ether < MaxFunds /\ filler' = [filler EXCEPT !.ether = @ + 1]
    /\ UNCHANGED frames

FillerNext ==
    \/ /\ made < MaxFillerCalls /\ made' = made + 1
       /\ Fund \/ \E a \in FillerAccounts : OwnerCalls(a) \/ FillerCalls(a)
    \/ /\ \/ \E r \in Reactors : ReactorCallback(r) \/ Pull(r)
          \/ EthWithdrawn \/ FillExecuted \/ Reverts
       /\ UNCHANGED made

FillerSpec == FillerInit /\ [][FillerNext]_fillerVars

-----------------------------------------------------------------------------
(* Properties                                                              *)

\* However calls of the owner, of fillers and of what they run are nested, at
\* most one fill is open, and the contract is locked exactly while one is, after
\* an inner or an outer call reverted as well (PhantomFiller.sol:157-217).
FillsDoNotNest ==
    Cardinality({i \in DOMAIN frames : frames[i].call # "ether"}) = IF filler.locked THEN 1 ELSE 0
=============================================================================
