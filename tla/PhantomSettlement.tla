-------------------------- MODULE PhantomSettlement --------------------------
(***************************************************************************)
(* contracts/src/PhantomSettlement.sol: recorders enter the results of     *)
(* fills, the owner appoints recorders and flags disputes.                 *)
(*                                                                         *)
(* An action is a transaction that succeeds; one that reverts changes      *)
(* nothing and is no step.  As in the contract a settlement that does not  *)
(* exist is a record of zeros.  The owner may hand the contract over or    *)
(* give it up (OpenZeppelin's Ownable).                                    *)
(***************************************************************************)
EXTENDS Integers, FiniteSets

CONSTANTS
    Accounts,     \* addresses
    NoAccount,    \* address(0)
    OrderHashes,  \* order hashes
    Amounts,      \* input and output amounts, 0 among them
    MaxTimestamp  \* bound of block.timestamp, for TLC

ASSUME SettlementAssumption ==
    /\ NoAccount \notin Accounts
    /\ Amounts \subseteq Nat /\ 0 \in Amounts
    /\ MaxTimestamp \in Nat
    /\ IsFiniteSet(OrderHashes)

VARIABLES
    owner,                \* Ownable
    authorizedRecorders,
    settlements,          \* _settlements
    totalSettlements,
    timestamp             \* block.timestamp

settlementVars == <<owner, authorizedRecorders, settlements, totalSettlements, timestamp>>

Addresses0 == Accounts \union {NoAccount}

NoSettlement == [filler |-> NoAccount, inputAmount |-> 0, outputAmount |-> 0,
                 settledAt |-> 0, disputed |-> FALSE]

SettlementType ==
    /\ owner \in Addresses0
    /\ authorizedRecorders \subseteq Accounts
    /\ settlements \in [OrderHashes ->
           [filler : Addresses0, inputAmount : Amounts, outputAmount : Amounts,
            settledAt : Nat, disputed : BOOLEAN]]
    /\ totalSettlements \in Nat
    /\ timestamp \in Nat \ {0}

\* The constructor; the deployed block has a time.
SettlementInit ==
    /\ owner \in Accounts
    /\ authorizedRecorders = {owner}
    /\ settlements = [h \in OrderHashes |-> NoSettlement]
    /\ totalSettlements = 0
    /\ timestamp = 1

\* isFilled
IsFilled(h) == settlements[h].settledAt # 0

-----------------------------------------------------------------------------
(* Actions: the sender comes first.                                        *)

RecordFill(sender, h, filler, input, output) ==
    /\ sender \in authorizedRecorders
    /\ ~IsFilled(h)
    /\ filler # NoAccount /\ input # 0 /\ output # 0
    /\ settlements' = [settlements EXCEPT ![h] =
         [filler |-> filler, inputAmount |-> input, outputAmount |-> output,
          settledAt |-> timestamp, disputed |-> FALSE]]
    /\ totalSettlements' = totalSettlements + 1
    /\ UNCHANGED <<owner, authorizedRecorders, timestamp>>

AddRecorder(sender, recorder) ==
    /\ sender = owner /\ recorder # NoAccount
    /\ authorizedRecorders' = authorizedRecorders \union {recorder}
    /\ UNCHANGED <<owner, settlements, totalSettlements, timestamp>>

RemoveRecorder(sender, recorder) ==
    /\ sender = owner
    /\ authorizedRecorders' = authorizedRecorders \ {recorder}
    /\ UNCHANGED <<owner, settlements, totalSettlements, timestamp>>

DisputeFill(sender, h) ==
    /\ sender = owner /\ IsFilled(h)
    /\ settlements' = [settlements EXCEPT ![h].disputed = TRUE]
    /\ UNCHANGED <<owner, authorizedRecorders, totalSettlements, timestamp>>

\* Faulty: the dispute is resolved by taking the settlement back.
ResolveDispute_Withdraws(sender, h) ==
    /\ sender = owner /\ IsFilled(h)
    /\ settlements' = [settlements EXCEPT ![h] = NoSettlement]
    /\ UNCHANGED <<owner, authorizedRecorders, totalSettlements, timestamp>>

ResolveDispute(sender, h) ==
    /\ sender = owner /\ IsFilled(h)
    /\ settlements' = [settlements EXCEPT ![h].disputed = FALSE]
    /\ UNCHANGED <<owner, authorizedRecorders, totalSettlements, timestamp>>

\* transferOwnership and renounceOwnership: the recorders stay as they are.
TransferOwnership(sender, heir) ==
    /\ sender = owner
    /\ owner' = heir
    /\ UNCHANGED <<authorizedRecorders, settlements, totalSettlements, timestamp>>

BlockTime ==
    /\ timestamp < MaxTimestamp
    /\ timestamp' = timestamp + 1
    /\ UNCHANGED <<owner, authorizedRecorders, settlements, totalSettlements>>

Transaction(sender) ==
    \/ \E h \in OrderHashes, filler \in Addresses0, input, output \in Amounts :
           RecordFill(sender, h, filler, input, output)
    \/ \E recorder \in Addresses0 :
           AddRecorder(sender, recorder) \/ RemoveRecorder(sender, recorder)
    \/ \E h \in OrderHashes : DisputeFill(sender, h) \/ ResolveDispute(sender, h)
    \/ \E heir \in Addresses0 : TransferOwnership(sender, heir)

SettlementNext == BlockTime \/ \E sender \in Accounts : Transaction(sender)

SettlementSpec == SettlementInit /\ [][SettlementNext]_settlementVars

-----------------------------------------------------------------------------
(* Properties                                                              *)

\* What of a settlement is meant to be final.
Entry(s) == [filler |-> s.filler, inputAmount |-> s.inputAmount,
             outputAmount |-> s.outputAmount, settledAt |-> s.settledAt]

FinalFills == [filler : Accounts, inputAmount : Amounts \ {0},
               outputAmount : Amounts \ {0}, settledAt : Nat \ {0}]

Ledger == INSTANCE SettlementLedger WITH
    Hashes <- OrderHashes, Fills <- FinalFills, total <- totalSettlements,
    entered <- [h \in OrderHashes |-> IF IsFilled(h) THEN {Entry(settlements[h])} ELSE {}]

\* Whatever recorders, owners and disputes do in whatever order, a fill is
\* entered once and what is entered stays (PhantomSettlement.sol:112-132,
\* 161-177).
SettledOnce == Ledger!LedgerSpec

\* totalSettlements is the number of settled orders (PhantomSettlement.sol:68).
TotalCounts == totalSettlements = Cardinality({h \in OrderHashes : IsFilled(h)})
=============================================================================
