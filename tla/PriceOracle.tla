----------------------------- MODULE PriceOracle -----------------------------
(***************************************************************************)
(* contracts/price-oracle for one asset, and how contracts/market reads    *)
(* it.  Publishers quote a price for a round; the quote that completes the *)
(* round publishes the median.  The administrator appoints publishers,     *)
(* sets the committee's rules between any two quotes, and can write prices *)
(* himself.  Assets share publishers and rules and nothing else.           *)
(***************************************************************************)
EXTENDS Integers, Sequences, FiniteSets

CONSTANTS
    Publishers, Admin,   \* addresses; the administrator is one of them
    Times,               \* ledger timestamps
    Feed,                \* [price, timestamp] pairs that are quoted or written
    Rounds,              \* rounds that publishers quote for
    Committees,          \* arguments of configure_committee
    MaxRecords,          \* MAX_RECORDS
    MaxSubmissions,      \* MAX_COMMITTEE_SUBMISSIONS
    MaxAge, TwapRecords, \* the market's oracle_max_age and oracle_twap_records
    OracleUnit, MarketUnit  \* ten to the decimals of the oracle and of the market

Committee == [threshold : Nat, deviation : Nat, age : Nat]

ASSUME PriceOracleAssumption ==
    /\ Admin \in Publishers
    /\ Times \subseteq Nat
    /\ Feed \subseteq [price : Int, timestamp : Nat]
    /\ Rounds \subseteq Nat
    /\ Committees \subseteq Committee
    /\ MaxRecords \in Nat /\ MaxSubmissions \in Nat
    /\ MaxAge \in Nat \ {0} /\ TwapRecords \in Nat
    /\ OracleUnit \in Nat \ {0} /\ MarketUnit \in Nat \ {0}

VARIABLES
    now,           \* environment: the ledger's timestamp
    committee,     \* CommitteeConfig
    publishers,    \* Publisher flags that are set
    latestRound,   \* LatestRound
    quotes,        \* RoundSubmissions, with the publisher from the Submission key
    prices         \* Prices, oldest first; the last is Price

oracleVars == <<now, committee, publishers, latestRound, quotes, prices>>

Quote == [publisher : Publishers, price : Int, timestamp : Nat]

\* round and basis are history: the round that was published (0: the
\* administrator wrote the price) and the quotes it was made from.
PriceRecord == [price : Int, timestamp : Nat, round : Nat, basis : Seq(Quote)]

OracleTypeOK ==
    /\ now \in Times
    /\ committee \in Committee
    /\ publishers \subseteq Publishers
    /\ latestRound \in Nat
    /\ quotes \in [Rounds -> Seq(Quote)]
    /\ prices \in Seq(PriceRecord)

-----------------------------------------------------------------------------

\* append_price: the newest MAX_RECORDS are kept.
AppendPrice(record) ==
    LET longer == Append(prices, record) IN
    prices' = IF Len(longer) > MaxRecords THEN Tail(longer) ELSE longer

\* set_other_price and set_stellar_price: at any timestamp, also a future one.
WritePrice(f) ==
    /\ f.price > 0
    /\ AppendPrice([price |-> f.price, timestamp |-> f.timestamp, round |-> 0,
                    basis |-> <<[publisher |-> Admin, price |-> f.price,
                                 timestamp |-> f.timestamp]>>])
    /\ UNCHANGED <<now, committee, publishers, latestRound, quotes>>

\* Variant of MedianPrice: off by one in the second comparison.
MedianPrice_OffByOne(qs) ==
    CHOOSE x \in {qs[k].price : k \in DOMAIN qs} :
        LET lower == Cardinality({k \in DOMAIN qs : qs[k].price < x})
            equal == Cardinality({k \in DOMAIN qs : qs[k].price = x})
        IN  lower <= Len(qs) \div 2 /\ Len(qs) \div 2 <= lower + equal

\* median_price: of an even number the higher of the two in the middle.
MedianPrice(qs) ==
    CHOOSE x \in {qs[k].price : k \in DOMAIN qs} :
        LET lower == Cardinality({k \in DOMAIN qs : qs[k].price < x})
            equal == Cardinality({k \in DOMAIN qs : qs[k].price = x})
        IN  lower <= Len(qs) \div 2 /\ Len(qs) \div 2 < lower + equal

\* Variant of QuotedSince: the time of the newest quote.
QuotedSince_Newest(qs) ==
    CHOOSE t \in {qs[k].timestamp : k \in DOMAIN qs} :
        \A k \in DOMAIN qs : qs[k].timestamp <= t

\* min_timestamp: the time of the oldest quote (no quote is later than now).
QuotedSince(qs) ==
    CHOOSE t \in {qs[k].timestamp : k \in DOMAIN qs} :
        \A k \in DOMAIN qs : t <= qs[k].timestamp

BPS_SCALE == 10000

\* validate_deviation, in basis points of the median.
WithinDeviation(qs, median) ==
    \A k \in DOMAIN qs :
        LET diff == IF qs[k].price >= median THEN qs[k].price - median
                                             ELSE median - qs[k].price
        IN  diff * BPS_SCALE <= median * committee.deviation

\* The quote completes the round: median, age of the oldest quote, and the
\* round is over.
Publish(r, qs) ==
    /\ WithinDeviation(qs, MedianPrice(qs))
    /\ latestRound' = r
    /\ AppendPrice([price |-> MedianPrice(qs), timestamp |-> QuotedSince(qs),
                    round |-> r, basis |-> qs])

\* Variant of RoundIsOpen: the round published last still takes quotes.
RoundIsOpen_Last(r) == r >= latestRound

RoundIsOpen(r) == r > latestRound

HasQuoted(p, r) == \E k \in DOMAIN quotes[r] : quotes[r][k].publisher = p

\* submit_other_price and submit_stellar_price.  A quote whose round it would
\* complete beyond the allowed deviation is refused as a whole.
SubmitPrice(p, r, f) ==
    LET qs == Append(quotes[r], [publisher |-> p, price |-> f.price,
                                 timestamp |-> f.timestamp])
    IN  /\ f.price > 0
        /\ p \in publishers
        /\ f.timestamp <= now /\ now - f.timestamp <= committee.age
        /\ RoundIsOpen(r)
        /\ ~HasQuoted(p, r)
        /\ Len(quotes[r]) < MaxSubmissions
        /\ quotes' = [quotes EXCEPT ![r] = qs]
        /\ IF Len(qs) >= committee.threshold
           THEN Publish(r, qs)
           ELSE UNCHANGED <<latestRound, prices>>
        /\ UNCHANGED <<now, committee, publishers>>

\* configure_committee, also while rounds are open.
ConfigureCommittee(c) ==
    /\ c.threshold \in 1..MaxSubmissions
    /\ c.age # 0
    /\ c.deviation \in 1..BPS_SCALE
    /\ committee' = c
    /\ UNCHANGED <<now, publishers, latestRound, quotes, prices>>

\* set_publisher: the quotes that a dismissed publisher made stay.
SetPublisher(p, enabled) ==
    /\ publishers' = IF enabled THEN publishers \cup {p} ELSE publishers \ {p}
    /\ UNCHANGED <<now, committee, latestRound, quotes, prices>>

\* Ledgers close.
TimePasses ==
    /\ now' \in {t \in Times : t > now}
    /\ UNCHANGED <<committee, publishers, latestRound, quotes, prices>>

\* init
OracleInit ==
    /\ now \in Times /\ \A t \in Times : now <= t
    /\ committee = [threshold |-> 1, deviation |-> 100, age |-> 300]
    /\ publishers = {Admin}
    /\ latestRound = 0
    /\ quotes = [r \in Rounds |-> <<>>]
    /\ prices = <<>>

OracleNext ==
    \/ \E f \in Feed : WritePrice(f)
    \/ \E p \in Publishers, r \in Rounds, f \in Feed : SubmitPrice(p, r, f)
    \/ \E c \in Committees : ConfigureCommittee(c)
    \/ \E p \in Publishers, enabled \in BOOLEAN : SetPublisher(p, enabled)
    \/ TimePasses

OracleSpec == OracleInit /\ [][OracleNext]_oracleVars

-----------------------------------------------------------------------------
(* What a market reads (an oracle of kind sep40): market.mark_price.       *)

RecordsRead == IF TwapRecords < 2 THEN 1 ELSE TwapRecords

\* lastprice, or prices(records): the newest ones, or nothing.
Read == IF Len(prices) < RecordsRead THEN <<>>
        ELSE SubSeq(prices, Len(prices) - RecordsRead + 1, Len(prices))

\* validate_price_freshness
IsFresh(record) ==
    record.price > 0 /\ record.timestamp <= now /\ now - record.timestamp <= MaxAge

HasMark == Read # <<>> /\ \A k \in DOMAIN Read : IsFresh(Read[k])

\* scale_price: of the two units one is a multiple of the other.
Scaled(price) == (price * MarketUnit) \div OracleUnit

SumOf(records) ==
    LET sum[k \in 0..Len(records)] == IF k = 0 THEN 0 ELSE sum[k - 1] + records[k].price
    IN  sum[Len(records)]

\* read_oracle_price and oracle_twap.
Mark == Scaled(SumOf(Read) \div Len(Read))

-----------------------------------------------------------------------------

\* The quotes behind what the market reads now.
QuotesRead == UNION {{Read[k].basis[j] : j \in DOMAIN Read[k].basis} : k \in DOMAIN Read}

\* A mark price rests on fresh quotes only: the market looks at the time of a
\* record, the record may have been completed long after its first quotes, and
\* the rules may have changed meanwhile; still no quote behind a mark price is
\* older than the market allows, and the price is no higher and no lower than
\* all of them, through median, average and scaling.
MarkRestsOnFreshQuotes ==
    HasMark =>
        /\ \A q \in QuotesRead : q.timestamp <= now /\ now - q.timestamp <= MaxAge
        /\ \E q \in QuotesRead : Scaled(q.price) <= Mark
        /\ \E q \in QuotesRead : Mark <= Scaled(q.price)

\* Whoever has the majority of a published round has its price: it lies between
\* two of their prices, whatever the others quoted, and in whichever order.
MajorityDecides ==
    \A k \in DOMAIN prices :
        LET qs == prices[k].basis IN
        \A majority \in {S \in SUBSET DOMAIN qs : 2 * Cardinality(S) > Len(qs)} :
            /\ \E i \in majority : qs[i].price <= prices[k].price
            /\ \E i \in majority : prices[k].price <= qs[i].price

\* A round is published once, with one quote of each publisher, and never after
\* a later round: quotes that arrive afterwards, or that complete a round again
\* under new rules, change nothing.
RoundsPublishOnce ==
    \A k \in DOMAIN prices :
        /\ \A i, j \in DOMAIN prices[k].basis :
              prices[k].basis[i].publisher = prices[k].basis[j].publisher => i = j
        /\ prices[k].round # 0 =>
              /\ prices[k].round <= latestRound
              /\ quotes[prices[k].round] = prices[k].basis
              /\ \A l \in 1..(k - 1) : prices[l].round < prices[k].round

\* RoundsDecide: a published price is the majority's of its own round, and no
\* other round's, quote's or rule's.
RoundsDecide == MajorityDecides /\ RoundsPublishOnce
=============================================================================
