--------------------------- MODULE WalletManager ---------------------------
(***************************************************************************)
(* crates/phantom-execution/src/wallet.rs: WalletManager, a map of signers *)
(* that operators import and remove while fillers sign with them.          *)
(***************************************************************************)
EXTENDS Integers, FiniteSets

CONSTANTS
    Operators,   \* tasks that import and remove wallets
    Signers,     \* tasks that sign
    Addresses,   \* wallet addresses, one for each private key
    MaxWallets   \* config.max_wallets

ASSUME WalletAssumption ==
    /\ IsFiniteSet(Operators) /\ Operators # {} /\ MaxWallets \in Nat

VARIABLES
    wallets,    \* wallets: the addresses with a signer
    importing,  \* operators that found room and are about to insert
    signer      \* the signer each signing task holds, by its address

walletVars == <<wallets, importing, signer>>

WalletInit ==
    /\ wallets = {}
    /\ importing = {}
    /\ signer = [t \in Signers |-> {}]

\* Faulty: one wallet too many.
RoomForWallet_OffByOne == Cardinality(wallets) <= MaxWallets

RoomForWallet == Cardinality(wallets) < MaxWallets

\* import_wallet reads the size of the map; without room it fails.
ImportChecks(o) ==
    /\ o \notin importing
    /\ RoomForWallet
    /\ importing' = importing \union {o}
    /\ UNCHANGED <<wallets, signer>>

\* Then the key is parsed, which may fail, and the signer inserted, over one of
\* the same address.
ImportEnds(o, parsed) ==
    /\ o \in importing
    /\ importing' = importing \ {o}
    /\ wallets' = wallets \union parsed
    /\ UNCHANGED signer

RemoveWallet(a) ==
    /\ a \in wallets
    /\ wallets' = wallets \ {a}
    /\ UNCHANGED <<importing, signer>>

\* get_signer, get_ethereum_wallet, prepare_signing: a copy of the signer.
PrepareSigning(t, a) ==
    /\ signer[t] = {} /\ a \in wallets
    /\ signer' = [signer EXCEPT ![t] = {a}]
    /\ UNCHANGED <<wallets, importing>>

\* The task signs with its copy, even if the wallet was removed meanwhile.
Sign(t) ==
    /\ signer[t] # {}
    /\ signer' = [signer EXCEPT ![t] = {}]
    /\ UNCHANGED <<wallets, importing>>

WalletNext ==
    \/ \E o \in Operators : ImportChecks(o)
    \/ \E o \in Operators, a \in Addresses : ImportEnds(o, {a})
    \/ \E o \in Operators : ImportEnds(o, {})
    \/ \E a \in Addresses : RemoveWallet(a)
    \/ \E t \in Signers, a \in Addresses : PrepareSigning(t, a)
    \/ \E t \in Signers : Sign(t)

WalletSpec == WalletInit /\ [][WalletNext]_walletVars

-----------------------------------------------------------------------------
(* Properties                                                              *)

\* How far "Maximum number of wallets allowed" (wallet.rs:13-14) is exceeded:
\* by the operators that found the last room together, all but one.
WalletsBounded ==
    Cardinality(wallets) <= MaxWallets + Cardinality(Operators) - 1
=============================================================================
