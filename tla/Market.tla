------------------------------- MODULE Market -------------------------------
(***************************************************************************)
(* contracts/market and contracts/funding-settlement: which markets are    *)
(* active, the price each is marked at, and the funding index, which moves *)
(* by proved settlements from one value to the next.                       *)
(*                                                                         *)
(* The oracle is the environment: what a market reads from it (after the   *)
(* checks of age and sign, the average and the scaling) is a price, or     *)
(* nothing, and either may change at any moment.  Of a market's            *)
(* configuration only what other contracts read is kept.                   *)
(***************************************************************************)
EXTENDS ProofGate, Integers, FiniteSets

CONSTANTS
    Markets,         \* configured markets
    Prices,          \* what the oracle may say, scaled
    NoPrice,         \* it says nothing, or nothing fresh and positive
    FundingIndices,  \* values of a funding index
    FirstIndex,      \* the index a market is configured with
    FundingCircuit

\* The public inputs of a funding proof.
FundingStatement ==
    [market : Markets, old : FundingIndices, new : FundingIndices, mark : Prices,
     elapsed : Nat, interval : Nat, maxDelta : Int, capped : BOOLEAN]

ASSUME MarketAssumption ==
    /\ Prices \subseteq Int /\ NoPrice \notin Int
    /\ FirstIndex \in FundingIndices
    /\ FundingIndices \subseteq Int /\ IsFiniteSet(FundingIndices)
    /\ Provable[FundingCircuit] \subseteq FundingStatement

VARIABLES
    activeMarkets,   \* markets whose configuration says active
    fundingIndex,    \* market -> funding_index
    fundings,        \* Funding: settled steps [market, old, new]
    updaterEnabled,  \* FundingUpdater of the funding-settlement contract
    markPrice,       \* environment: market -> what the oracle says
    reindexed        \* history: markets whose index an upsert replaced

marketVars ==
    <<activeMarkets, fundingIndex, fundings, updaterEnabled, markPrice, reindexed>>

FundingStep == [market : Markets, old : FundingIndices, new : FundingIndices]

MarketTypeOK ==
    /\ activeMarkets \subseteq Markets
    /\ fundingIndex \in [Markets -> FundingIndices]
    /\ fundings \subseteq FundingStep
    /\ updaterEnabled \in BOOLEAN
    /\ markPrice \in [Markets -> Prices \cup {NoPrice}]
    /\ reindexed \subseteq Markets

\* validate_oracle_mark_price of every consumer: the caller's price is positive
\* and is the one market.mark_price returns now, which fails on a market that
\* is inactive or has no good price.
MarkedAt(m, price) ==
    /\ price > 0
    /\ m \in activeMarkets
    /\ markPrice[m] = price

-----------------------------------------------------------------------------

\* Variant of AdvanceFunding: the index may have moved since the proof.
AdvanceFunding_Stale(m, old, new) ==
    /\ updaterEnabled
    /\ new # old
    /\ m \in activeMarkets
    /\ fundingIndex' = [fundingIndex EXCEPT ![m] = new]

\* market.advance_funding, called by the funding-settlement contract.
AdvanceFunding(m, old, new) ==
    /\ updaterEnabled
    /\ new # old
    /\ m \in activeMarkets
    /\ fundingIndex[m] = old
    /\ fundingIndex' = [fundingIndex EXCEPT ![m] = new]

ValidFundingParams(s) ==
    /\ s.maxDelta >= 0 /\ s.elapsed # 0 /\ s.interval # 0
    /\ s.capped => s.maxDelta # 0

\* funding_settlement.settle: a step of a market's index is settled once, also
\* when the index comes back to where the step began.
SettleFunding(s) ==
    LET step == [market |-> s.market, old |-> s.old, new |-> s.new] IN
    /\ s.new # s.old
    /\ ValidFundingParams(s)
    /\ MarkedAt(s.market, s.mark)
    /\ ProofAccepted(FundingCircuit, s)
    /\ step \notin fundings
    /\ AdvanceFunding(s.market, s.old, s.new)
    /\ fundings' = fundings \cup {step}
    /\ UNCHANGED <<activeMarkets, updaterEnabled, markPrice, reindexed>>

\* market.upsert, by the administrator: the whole configuration is replaced,
\* the funding index with it.  An active market must have a readable price.
Upsert(m, active, index) ==
    /\ ~paused
    /\ active => markPrice[m] # NoPrice
    /\ activeMarkets' = IF active THEN activeMarkets \cup {m} ELSE activeMarkets \ {m}
    /\ fundingIndex' = [fundingIndex EXCEPT ![m] = index]
    /\ reindexed' = IF index = fundingIndex[m] THEN reindexed ELSE reindexed \cup {m}
    /\ UNCHANGED <<fundings, updaterEnabled, markPrice>>

\* market.set_funding_updater, by the administrator.
SetFundingUpdater(enabled) ==
    /\ ~paused
    /\ updaterEnabled' = enabled
    /\ UNCHANGED <<activeMarkets, fundingIndex, fundings, markPrice, reindexed>>

\* The oracle's price moves, becomes too old, or is there again.
OracleMoves(m, price) ==
    /\ markPrice' = [markPrice EXCEPT ![m] = price]
    /\ UNCHANGED <<activeMarkets, fundingIndex, fundings, updaterEnabled, reindexed>>

MarketInit ==
    /\ activeMarkets = Markets
    /\ fundingIndex = [m \in Markets |-> FirstIndex]
    /\ fundings = {}
    /\ updaterEnabled = TRUE
    /\ markPrice \in [Markets -> Prices]
    /\ reindexed = {}

MarketNext ==
    \/ \E s \in Provable[FundingCircuit] : SettleFunding(s)
    \/ \E m \in Markets, price \in Prices \cup {NoPrice} : OracleMoves(m, price)
    \/ /\ "setup" \in Administration
       /\ \/ \E m \in Markets, active \in BOOLEAN, index \in FundingIndices :
                Upsert(m, active, index)
          \/ \E enabled \in BOOLEAN : SetFundingUpdater(enabled)

-----------------------------------------------------------------------------

\* The market's settled steps out of, and into, an index.
StepsFrom(m, i) == {f \in fundings : f.market = m /\ f.old = i}
StepsInto(m, i) == {f \in fundings : f.market = m /\ f.new = i}
Once(b) == IF b THEN 1 ELSE 0

\* The settled funding of a market is one walk from the index it was configured
\* with to the index it has: every index is left as often as it is reached, but
\* for the two ends.  A step that was proved from an index the market has left,
\* or whose record is written without the index moving (or the reverse), breaks
\* the count for good, and positions would be charged along a path the market
\* never took.  A market whose index an upsert replaced is excepted.
FundingIsOneWalk ==
    \A m \in Markets \ reindexed : \A i \in FundingIndices :
        Cardinality(StepsFrom(m, i)) + Once(i = fundingIndex[m])
            = Cardinality(StepsInto(m, i)) + Once(i = FirstIndex)
=============================================================================
