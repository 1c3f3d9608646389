----------------------------- MODULE MCSubmission -----------------------------
(***************************************************************************)
(* What a fill goes through once it is decided, on small instances: the    *)
(* wallet that signs it, the relays it is sent to, the monitor that waits  *)
(* for its confirmation, the retries after a failure and the contracts.    *)
(* They share nothing: a behaviour is one of the component `focus` names,  *)
(* the others stay in their first state.                                   *)
(***************************************************************************)
EXTENDS RetryManager, RelayManager, WalletManager, ConfirmationMonitor,
        PhantomSettlement, PhantomFiller

VARIABLE focus

submissionVars ==
    <<focus, vars, relayVars, walletVars, confirmVars, settlementVars, fillerVars>>

SubmissionInit ==
    /\ focus \in {"retry", "relay", "wallet", "confirm", "settlement", "filler"}
    /\ Init /\ RelayInit /\ WalletInit /\ ConfirmInit /\ SettlementInit /\ FillerInit
    /\ owner = CHOOSE a \in Accounts : TRUE
    /\ \A t, u \in Trackers \union Checkers : target[t] = target[u]

RetryStep ==
    /\ focus = "retry" /\ Next
    /\ UNCHANGED <<focus, relayVars, walletVars, confirmVars, settlementVars, fillerVars>>
RelayStep ==
    /\ focus = "relay" /\ RelayNext
    /\ UNCHANGED <<focus, vars, walletVars, confirmVars, settlementVars, fillerVars>>
WalletStep ==
    /\ focus = "wallet" /\ WalletNext
    /\ UNCHANGED <<focus, vars, relayVars, confirmVars, settlementVars, fillerVars>>
ConfirmStep ==
    /\ focus = "confirm" /\ ConfirmNext
    /\ UNCHANGED <<focus, vars, relayVars, walletVars, settlementVars, fillerVars>>
SettlementStep ==
    /\ focus = "settlement" /\ SettlementNext
    /\ UNCHANGED <<focus, vars, relayVars, walletVars, confirmVars, fillerVars>>
FillerStep ==
    /\ focus = "filler" /\ FillerNext
    /\ UNCHANGED <<focus, vars, relayVars, walletVars, confirmVars, settlementVars>>

SubmissionNext ==
    RetryStep \/ RelayStep \/ WalletStep \/ ConfirmStep \/ SettlementStep \/ FillerStep

\* Every retrying task, every relay's task and the one that collects go on; the
\* clock runs, and a transaction that has timed out is polled.
SubmissionSpec ==
    /\ SubmissionInit /\ [][SubmissionNext]_submissionVars
    /\ \A t \in Txs : WF_vars(focus = "retry" /\ TxStep(t))
    /\ \A r \in Relays :
         /\ WF_relayVars(focus = "relay" /\ RelayTask(r))
         /\ WF_relayVars(focus = "relay" /\ Collect(r))
    /\ WF_confirmVars(focus = "confirm" /\ Tick)
    /\ \A x \in Hashes :
         WF_confirmVars(focus = "confirm" /\ \E c \in Checkers : CheckDrops(c, x))

\* A plain revert, two with a permanent reason inside, a gas error, a price
\* move, and one nobody knows.
SomeMessages ==
    {{}, {"revert"}, {"revert", "filled"}, {"slippage", "expired"}, {"gas", "revert"}}
=============================================================================
