----------------------------- MODULE PriceSources -----------------------------
(***************************************************************************)
(* crates/phantom-pricing/src/sources.rs: what the adapters of the         *)
(* exchanges may answer the aggregator.  An answer is a set of at most one *)
(* price: an eth_call may fail, or return what cannot be decoded.          *)
(***************************************************************************)
EXTENDS Integers

CONSTANTS
    Pairs,      \* base, quote and chain of a request
    Prices,     \* what an exchange may quote
    Sources,    \* the registered sources, with their kind and chain
    CurveCoins, \* the coins of a Curve pool
    TiersMax    \* number of fee tiers a quoter is asked for: ALL_FEE_TIERS

ASSUME SourcesAssumption ==
    /\ Prices \subseteq Nat
    /\ TiersMax \in Nat \ {0}
    /\ \A p \in Pairs : DOMAIN p = {"base", "quote", "chain"}
    /\ \A s \in Sources :
         /\ DOMAIN s = {"kind", "chain"}
         /\ s.kind \in {"uniswap_v3", "curve", "balancer_v2"}

\* eth_call and the decoding of what it returns
EthCall == {{}} \union {{p} : p \in Prices}

\* The first of the highest quotes; tiers that failed are passed over.
BestQuote(tiers) ==
    LET quoted == UNION {tiers[i] : i \in DOMAIN tiers}
    IN  {p \in quoted : \A q \in quoted : q <= p}

\* The fee tiers are asked one after the other, and the call may be cut off by
\* the aggregator's timeout before the last.
UniswapAnswers == {{}} \union {BestQuote(tiers) : tiers \in [1..TiersMax -> EthCall]}

\* coin_index: both coins are in the pool, or there is no price.
CurveAnswers(pair) ==
    IF {pair.base, pair.quote} \subseteq CurveCoins THEN EthCall ELSE {{}}

BalancerAnswers == EthCall

\* PriceSource::get_price: an adapter answers for its own chain only.
SourceAnswers(s, pair) ==
    IF s.chain # pair.chain THEN {{}}
    ELSE CASE s.kind = "uniswap_v3"  -> UniswapAnswers
           [] s.kind = "curve"       -> CurveAnswers(pair)
           [] s.kind = "balancer_v2" -> BalancerAnswers
=============================================================================
