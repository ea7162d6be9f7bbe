--------------------------- MODULE FundingEngine ---------------------------
(***************************************************************************)
(* The server's funding engine and its market records, over the market and *)
(* funding-settlement contracts (Market).                                  *)
(*                                                                         *)
(* Every interval the engine prices the time since a market's last update, *)
(* proves the step of the funding index, relays proof and settlement, and  *)
(* then moves its own record of the market.  A relay blocks the process;   *)
(* its answer may be lost, and a transaction whose answer was lost may     *)
(* still land until the next one is sent from the same account.  Beside    *)
(* it the server lists markets and refreshes their prices with awaits      *)
(* between what it reads and what it writes.                               *)
(*                                                                         *)
(* Prices come from the market contract (ORACLE_PRICE_SOURCE               *)
(* onchain-market) and settlements have to be on chain, as in production.  *)
(* The orderbook behind a premium sample is abstracted to its rate.        *)
(***************************************************************************)
EXTENDS Market, FiniteSetsExt

CONSTANTS
    Interval,         \* config.intervalMs
    SampleInterval,   \* config.sampleIntervalMs
    MinimumSamples,   \* config.minimumSamples
    SampleRetention,  \* FUNDING_PREMIUM_SAMPLE_RETENTION
    RateCap,          \* config.premiumRateCap
    RateScale,        \* RATE_SCALE
    FixedRates,       \* premium rates an operator's run may state
    NoRate,           \* the run states none: the samples decide
    SampledRates,     \* premium rates the orderbook may show
    MaxTime,          \* bound of the clock
    MaxListings,      \* bound of the list() calls of a market under way
    AnswersAreLost,   \* whether relays fail
    Operator          \* which of the operator's calls happen:
                      \* a subset of {"run", "advance", "update", "contracts"}

ASSUME FundingEngineAssumption ==
    /\ Interval \in Nat \ {0} /\ SampleInterval \in Nat \ {0}
    /\ RateScale \in Nat \ {0} /\ RateCap \in Nat \ {0}
    /\ \A p \in Prices : p > 0  \* validate_price_freshness and assertValidMarketConfig
    /\ MinimumSamples \in Nat /\ SampleRetention \in Nat /\ MaxTime \in Nat /\ MaxListings \in Nat
    /\ NoRate \notin Int /\ FixedRates \subseteq Int /\ SampledRates \subseteq Int
    /\ AnswersAreLost \in BOOLEAN

VARIABLES
    now,
    records,   \* store.markets: market -> [price, index], or Unknown
    samples,   \* store.fundingPremiumSamples: [market, at, rate]
    updates,   \* store.fundingUpdates: [market, at, old, new]
    cycle,     \* the running call of runOnce
    refresh,   \* the call of refreshFromOracle that is under way
    listing,   \* calls of list() that wait for a missing market's price
    late,      \* settlements whose answer was lost and that may still land
    charged,   \* history: periods that settled steps charged
    adjusted   \* history: markets an operator moved by hand

serverVars == <<now, records, samples, updates, cycle, refresh, listing, late, charged, adjusted>>
vars == <<gateVars, marketVars, serverVars>>

Unknown == [price |-> 0, index |-> 0]
Known(m) == records[m] # Unknown
NoCycle == [todo |-> {}, at |-> 0, rate |-> NoRate, sent |-> {}]
NoRefresh == [stage |-> "none"]

\* The event loop is free: relays are synchronous.
Free == cycle = NoCycle

-----------------------------------------------------------------------------
\* What a cycle computes.

Clamp(value, cap) == IF value > cap THEN cap ELSE IF value < -cap THEN -cap ELSE value

\* BigInt division, towards zero.
Quotient(a, b) == IF a >= 0 THEN a \div b ELSE -((-a) \div b)

Bucket(t) == (t \div SampleInterval) * SampleInterval

UpdatesOf(m) == {u \in updates : u.market = m}

\* Variant of LastUpdate: the list is sorted the other way.
LastUpdate_First(m) == CHOOSE u \in UpdatesOf(m) : \A v \in UpdatesOf(m) : v.at >= u.at

LastUpdate(m) == CHOOSE u \in UpdatesOf(m) : \A v \in UpdatesOf(m) : v.at <= u.at

Elapsed(m, at) == IF UpdatesOf(m) = {} THEN Interval ELSE at - LastUpdate(m).at

\* currentFundingPremium: the stated rate, or the mean of the samples of the
\* last interval if they are enough.
WindowOf(m, at) == {s \in samples : s.market = m /\ s.at > at - Interval /\ s.at <= at}

Premium(m, at, rate) ==
    IF rate # NoRate THEN Clamp(rate, RateCap)
    ELSE IF Cardinality(WindowOf(m, at)) < MinimumSamples THEN 0
    ELSE Clamp(Quotient(MapThenSumSet(LAMBDA s : s.rate, WindowOf(m, at)),
                        Cardinality(WindowOf(m, at))), RateCap)

\* fundingIndexDelta, without a maximum.
FundingDelta(m, at, rate) ==
    Quotient(records[m].price * Premium(m, at, rate) * Elapsed(m, at), RateScale * Interval)

\* What is proved of a market's step: the public inputs.
Statement(m, at, rate) ==
    [market |-> m, old |-> records[m].index,
     new |-> records[m].index + FundingDelta(m, at, rate), mark |-> records[m].price,
     elapsed |-> Elapsed(m, at), interval |-> Interval, maxDelta |-> 0, capped |-> FALSE]

-----------------------------------------------------------------------------
\* The engine.

\* sampleOnce: one sample for each time bucket, the newest SampleRetention kept.
Sample(m, rate) ==
    /\ Free /\ Known(m)
    /\ LET sample == [market |-> m, at |-> Bucket(now), rate |-> rate]
           all == {s \in samples : s.market # m \/ s.at # sample.at} \cup {sample}
       IN samples' = {s \in all :
                        Cardinality({t \in all : t.market = s.market /\ t.at > s.at})
                            < SampleRetention}
    /\ UNCHANGED <<gateVars, marketVars, now, records, updates, cycle, refresh, listing, late,
                   charged, adjusted>>

\* runOnce of every known market, by the timer (NoRate) or by the operator.
StartCycle(rate) ==
    /\ Free
    /\ \E m \in Markets : Known(m)
    /\ rate # NoRate => "run" \in Operator
    /\ cycle' = [NoCycle EXCEPT !.todo = {m \in Markets : Known(m)}, !.at = now, !.rate = rate]
    /\ UNCHANGED <<gateVars, marketVars, now, records, samples, updates, refresh, listing, late,
                   charged, adjusted>>

\* A market with nothing to charge is passed over.
Skip(m) ==
    /\ m \in cycle.todo /\ cycle.sent = {}
    /\ Elapsed(m, cycle.at) <= 0 \/ FundingDelta(m, cycle.at, cycle.rate) = 0
    /\ cycle' = IF cycle.todo = {m} THEN NoCycle ELSE [cycle EXCEPT !.todo = @ \ {m}]
    /\ UNCHANGED <<gateVars, marketVars, now, records, samples, updates, refresh, listing, late,
                   charged, adjusted>>

\* proveFundingSettlement, and the first relay of settleFunding records the
\* proof.  Sending uses up the account's sequence number: an earlier transaction
\* that has not landed never will.  Steps beyond FundingIndices are cut.
RecordFundingProof(m) ==
    LET s == Statement(m, cycle.at, cycle.rate) IN
    /\ m \in cycle.todo /\ cycle.sent = {}
    /\ s.elapsed > 0 /\ s.new # s.old
    /\ \E v \in Verifiers : CircuitOf[v] = FundingCircuit /\ VerifyAndRecord(v, s)
    /\ cycle' = [cycle EXCEPT !.sent = {[stmt |-> s, to |-> cycle.at]}]
    /\ late' = {}
    /\ UNCHANGED <<marketVars, now, records, samples, updates, refresh, listing, charged, adjusted>>

Period(d) == [market |-> d.stmt.market, from |-> d.to - d.stmt.elapsed, to |-> d.to]

\* The settlement lands, the answer arrives, and applyFunding follows.
Settle ==
    \E d \in cycle.sent :
        LET m == d.stmt.market
            rest == cycle.todo \ {m}
        IN
        /\ SettleFunding(d.stmt)
        /\ charged' = charged \cup {Period(d)}
        /\ records' = [records EXCEPT ![m].index = d.stmt.new]
        /\ updates' = updates \cup
                        {[market |-> m, at |-> d.to, old |-> d.stmt.old, new |-> d.stmt.new]}
        /\ cycle' = IF rest = {} THEN NoCycle
                    ELSE [cycle EXCEPT !.todo = rest, !.sent = {}]
        /\ UNCHANGED <<gateVars, now, samples, refresh, listing, late, adjusted>>

\* A relay fails or its answer is lost: the exception leaves runOnce, and the
\* markets after this one are not funded in this cycle either.
CycleFails ==
    /\ AnswersAreLost
    /\ ~Free
    /\ late' = cycle.sent
    /\ cycle' = NoCycle
    /\ UNCHANGED <<gateVars, marketVars, now, records, samples, updates, refresh, listing,
                   charged, adjusted>>

\* A settlement that was given up lands after all.
LateSettle ==
    \E d \in late :
        /\ SettleFunding(d.stmt)
        /\ charged' = charged \cup {Period(d)}
        /\ late' = {}
        /\ UNCHANGED <<gateVars, now, records, samples, updates, cycle, refresh, listing, adjusted>>

-----------------------------------------------------------------------------
\* The market records of MarketsService.

\* list finds a supported market missing and asks for its price ...
StartList(m) ==
    /\ Free /\ ~Known(m)
    /\ listing[m] < MaxListings
    /\ listing' = [listing EXCEPT ![m] = @ + 1]
    /\ UNCHANGED <<gateVars, marketVars, now, records, samples, updates, cycle, refresh, late,
                   charged, adjusted>>

\* ... and writes the record with index 0, also over one that is there by now.
FinishList(m, price) ==
    /\ Free /\ listing[m] > 0
    /\ listing' = [listing EXCEPT ![m] = @ - 1]
    /\ records' = [records EXCEPT ![m] = [price |-> price, index |-> FirstIndex]]
    /\ UNCHANGED <<gateVars, marketVars, now, samples, updates, cycle, refresh, late, charged,
                   adjusted>>

\* refreshFromOracle reads the record and the market's price and checks both
\* (an index below zero is refused), then asks whether the market is active.
StartRefresh(m) ==
    /\ Free /\ refresh = NoRefresh /\ Known(m)
    /\ m \in activeMarkets /\ markPrice[m] # NoPrice
    /\ records[m].index >= 0
    /\ refresh' = [stage |-> "asked", market |-> m,
                   record |-> [records[m] EXCEPT !.price = markPrice[m]]]
    /\ UNCHANGED <<gateVars, marketVars, now, records, samples, updates, cycle, listing, late,
                   charged, adjusted>>

\* The contract answers; if the call fails, so does the refresh.
AnswerRefresh(ok) ==
    /\ refresh.stage = "asked"
    /\ refresh' = IF ~ok THEN NoRefresh
                  ELSE [refresh EXCEPT !.stage = IF refresh.market \in activeMarkets
                                                 THEN "apply" ELSE "upsert"]
    /\ UNCHANGED <<gateVars, marketVars, now, records, samples, updates, cycle, listing, late,
                   charged, adjusted>>

\* An inactive market is written anew with what was read, index included.
RefreshUpserts(ok) ==
    /\ refresh.stage = "upsert"
    /\ IF ok THEN Upsert(refresh.market, TRUE, refresh.record.index)
             ELSE UNCHANGED marketVars
    /\ refresh' = IF ok THEN [refresh EXCEPT !.stage = "apply"] ELSE NoRefresh
    /\ UNCHANGED <<gateVars, now, records, samples, updates, cycle, listing, late, charged,
                   adjusted>>

\* Variant of AppliedRecord: the index is the one the store has now.
AppliedRecord_Current ==
    [refresh.record EXCEPT !.index = records[refresh.market].index]

AppliedRecord == refresh.record

\* updateMarket with the record read at the start.
FinishRefresh ==
    /\ Free /\ refresh.stage = "apply"
    /\ records' = [records EXCEPT ![refresh.market] = AppliedRecord]
    /\ refresh' = NoRefresh
    /\ UNCHANGED <<gateVars, marketVars, now, samples, updates, cycle, listing, late, charged,
                   adjusted>>

\* MarketsService.update, by the operator: the chain's configuration is written
\* and then the record; if the answer is lost only the first happens.
OperatorUpdates(m, index, answered) ==
    /\ "update" \in Operator
    /\ Free /\ Known(m) /\ index >= 0
    /\ Upsert(m, TRUE, index)
    /\ records' = IF answered THEN [records EXCEPT ![m].index = index] ELSE records
    /\ adjusted' = adjusted \cup {m}
    /\ UNCHANGED <<gateVars, now, samples, updates, cycle, refresh, listing, late, charged>>

\* FundingService.advance, by the operator: the record only.
OperatorAdvances(m, delta) ==
    /\ "advance" \in Operator
    /\ Free /\ Known(m) /\ delta # 0
    /\ records[m].index + delta \in FundingIndices
    /\ records' = [records EXCEPT ![m].index = @ + delta]
    /\ updates' = updates \cup
                    {[market |-> m, at |-> now, old |-> records[m].index,
                      new |-> records[m].index + delta]}
    /\ adjusted' = adjusted \cup {m}
    /\ UNCHANGED <<gateVars, marketVars, now, samples, cycle, refresh, listing, late, charged>>

\* The calls under way end before the clock's next unit: a unit stands for many
\* seconds and each of them waits for single requests.
TimePasses ==
    /\ now < MaxTime
    /\ refresh = NoRefresh /\ \A m \in Markets : listing[m] = 0
    /\ now' = now + 1
    /\ UNCHANGED <<gateVars, marketVars, records, samples, updates, cycle, refresh, listing, late,
                   charged, adjusted>>

\* The contracts' own operations, beside the engine.
ContractStep ==
    /\ \/ \E m \in Markets, price \in Prices \cup {NoPrice} : OracleMoves(m, price)
       \/ /\ "contracts" \in Operator
          /\ \/ \E m \in Markets, active \in BOOLEAN : Upsert(m, active, fundingIndex[m])
             \/ \E enabled \in BOOLEAN : SetFundingUpdater(enabled)
    /\ UNCHANGED <<gateVars, serverVars>>

Init ==
    /\ GateInit /\ MarketInit
    /\ now = 0
    /\ records = [m \in Markets |-> Unknown]
    /\ samples = {} /\ updates = {}
    /\ cycle = NoCycle /\ refresh = NoRefresh
    /\ listing = [m \in Markets |-> 0]
    /\ late = {} /\ charged = {} /\ adjusted = {}

EngineStep ==
    \/ \E m \in Markets, rate \in SampledRates : Sample(m, rate)
    \/ \E rate \in FixedRates \cup {NoRate} : StartCycle(rate)
    \/ \E m \in Markets : Skip(m) \/ RecordFundingProof(m)
    \/ Settle \/ CycleFails \/ LateSettle

RecordStep ==
    \/ \E m \in Markets : StartList(m) \/ StartRefresh(m)
    \/ \E m \in Markets, price \in Prices : FinishList(m, price)
    \/ \E ok \in BOOLEAN : AnswerRefresh(ok) \/ RefreshUpserts(ok)
    \/ FinishRefresh
    \/ \E m \in Markets, index \in FundingIndices, answered \in BOOLEAN :
          OperatorUpdates(m, index, answered)
    \/ \E m \in Markets, delta \in {-1, 1} : OperatorAdvances(m, delta)

Next == EngineStep \/ RecordStep \/ ContractStep \/ TimePasses

Spec == Init /\ [][Next]_vars

-----------------------------------------------------------------------------

\* No stretch of time is charged twice: the periods of a market's settled steps
\* do not overlap, although answers are lost, given-up settlements land late,
\* and the server's record goes back to an index it had.  A market an operator
\* moved by hand is excepted: a repaired index comes without the time it stands
\* for.  So is one whose index an upsert replaced, which undoes the charge.
PeriodsChargedOnce ==
    \A a, b \in charged :
        a.market = b.market /\ a.market \notin adjusted \cup reindexed =>
            a = b \/ a.to <= b.from \/ b.to <= a.from

\* The server's funding index of a market is the contract's, whenever no call is
\* under way.  market.advance_funding refuses any other as a stale funding index
\* (contracts/market/src/lib.rs:109), and the proofs of closes and liquidations
\* are made with it.
IndexFollowsChain ==
    Free /\ late = {} =>
        \A m \in Markets : Known(m) => records[m].index = fundingIndex[m]
=============================================================================
