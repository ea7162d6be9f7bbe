----------------------------- MODULE PriceChart -----------------------------
(***************************************************************************)
(* The price chart of a market in the browser, useMarketCandles             *)
(* (client/src/lib/use-market-candles.ts), and the candles of the server    *)
(* behind it (MarketDataService.candles).  Three sources write one chart:   *)
(* the event stream of prices, whose ticks are coalesced by a timer; the    *)
(* price asked for while the stream is down; and a snapshot of the candles, *)
(* asked for at the start and every ten seconds, which replaces what it     *)
(* covers and onto which the ticks that came during its request are         *)
(* replayed.                                                                *)
(*                                                                          *)
(* A tick is the time of its publication.  The chart is the closing tick of *)
(* each candle, 0 where there is none; a candle is Width ticks long.        *)
(***************************************************************************)
EXTENDS Integers, Sequences

CONSTANTS
  Width,      \* ticks of a candle
  MaxTick,    \* bound: ticks published
  Limit,      \* candles of a snapshot
  MaxQueued   \* bound: ticks that come during one snapshot request

ASSUME PriceChartAssumption == Width \in Nat \ {0} /\ MaxTick \in Nat /\ MaxTick >= Width

VARIABLES
  newestTick,   \* the newest tick the provider published
  candleCache,  \* the tick the server's cached candles reach to, 0: none
  cacheFresh,   \* expiresAt is ahead
  chart,        \* candles
  pendingTick,  \* pendingUpdate, 0: none
  coalescing,   \* coalesceTimer is armed
  settled,      \* initialSnapshotSettled
  snapshot,     \* the request under way, by its phase, and the answer
  snapshotTicks, \* snapshotUpdates
  lastApplied,  \* lastAppliedTickAt
  tickFloor,    \* snapshotTickFloor
  lastAccepted, \* lastAcceptedSignature
  streamOpen, streamFailed,
  fallbackTimer,
  fallbackPolls, \* requests of the fallback under way
  due, dueSince  \* ghosts: the newest tick that was not overtaken when it came,
                 \* since the request of the last applied snapshot began, and
                 \* since the one under way began

tickVars == <<pendingTick, coalescing, settled, lastApplied, lastAccepted>>
candleVars == <<newestTick, candleCache, cacheFresh>>
streamVars == <<streamOpen, streamFailed, fallbackTimer, fallbackPolls>>
chartVars == <<candleVars, chart, tickVars, snapshot, snapshotTicks, tickFloor, streamVars,
               due, dueSince>>

-----------------------------------------------------------------------------
Ticks == Width .. MaxTick
CandleBucket(t) == t \div Width
Buckets == 1 .. CandleBucket(MaxTick)
Larger(a, b) == IF a >= b THEN a ELSE b

\* market-data.service.ts:184-259, 664-750  fetchPythProCandles,
\* fetchHyperliquidCandles: the last candles up to a tick.
CandlesAt(t) ==
  [b \in Buckets |->
     IF b <= CandleBucket(t) /\ b + Limit > CandleBucket(t)
     THEN IF b = CandleBucket(t) THEN t ELSE b * Width + Width - 1
     ELSE 0]

Drawn(candles) == {b \in Buckets : candles[b] # 0}
FirstDrawn(candles) == CHOOSE b \in Drawn(candles) : \A c \in Drawn(candles) : b <= c
Latest(S) == CHOOSE b \in S : \A c \in S : b >= c
LastDrawn(candles) == Latest(Drawn(candles))
Newest(candles) == IF Drawn(candles) = {} THEN 0 ELSE candles[LastDrawn(candles)]

\* use-market-candles.ts:553-556  latestValidCandleTimestamp
CandleFloor(candles) == IF Drawn(candles) = {} THEN 0 ELSE LastDrawn(candles) * Width

\* use-market-candles.ts:471-513  mergeSnapshotCandles: a stale snapshot fills
\* gaps; a fresh one replaces all but what is older than it and the live
\* candle after it.
MergeSnapshot(candles, current, live, stale) ==
  IF Drawn(candles) = {} THEN current
  ELSE [b \in Buckets |->
          IF stale
          THEN IF current[b] # 0 THEN current[b] ELSE candles[b]
          ELSE IF b < FirstDrawn(candles) \/ (b > LastDrawn(candles) /\ live > 0 /\ b = CandleBucket(live))
               THEN current[b] ELSE candles[b]]

\* use-market-candles.ts:400-440  upsertPrice
UpsertCandle(candles, t) == [candles EXCEPT ![CandleBucket(t)] = t]

\* use-market-candles.ts:388-398  replayPriceUpdates: of the ticks that are
\* replayed, each candle closes with the last of its own.
Replay(candles, ticks, replayed) ==
  [b \in Buckets |->
     LET own == {i \in replayed : CandleBucket(ticks[i]) = b}
     IN  IF own = {} THEN candles[b] ELSE ticks[Latest(own)]]

\* use-market-candles.ts:375-386  bufferMonotonicTick
BufferTick(ticks, t, floor) ==
  LET newest == IF ticks = <<>> THEN floor ELSE Larger(floor, ticks[Len(ticks)])
  IN  IF t >= newest THEN Append(ticks, t) ELSE ticks

\* use-market-candles.ts:350-360  chooseLatestTick
LatestTick(current, t, floor) == IF t >= floor /\ t >= current THEN t ELSE current

Floor == Larger(lastApplied, tickFloor)

-----------------------------------------------------------------------------
(* Ticks.                                                                   *)

TickPublished ==
  /\ newestTick < MaxTick
  /\ newestTick' = IF newestTick = 0 THEN Width ELSE newestTick + 1
  /\ UNCHANGED <<candleCache, cacheFresh, chart, tickVars, snapshot, snapshotTicks, tickFloor,
                 streamVars, due, dueSince>>

\* use-market-candles.ts:119-139  queuePrice: a tick other than the one taken
\* before is buffered for the snapshot under way and becomes the pending one.
QueueTick(t) ==
  /\ lastAccepted' = t
  /\ IF t = lastAccepted
     THEN UNCHANGED <<snapshotTicks, pendingTick, coalescing, due, dueSince>>
     ELSE /\ snapshotTicks' = IF snapshot.phase = "none" THEN snapshotTicks
                                                   ELSE BufferTick(snapshotTicks, t, Floor)
          /\ pendingTick' = LatestTick(pendingTick, t, Floor)
          /\ coalescing' = (coalescing \/ pendingTick' # 0)
          /\ IF t >= Floor THEN due' = Larger(due, t) /\ dueSince' = Larger(dueSince, t)
                           ELSE UNCHANGED <<due, dueSince>>
  /\ UNCHANGED <<settled, lastApplied>>

\* use-market-candles.ts:263-270  A price of the stream.
StreamTick(t) ==
  /\ streamOpen /\ t <= newestTick /\ Len(snapshotTicks) < MaxQueued
  /\ QueueTick(t)
  /\ UNCHANGED <<candleVars, chart, snapshot, tickFloor, streamVars>>

\* use-market-candles.ts:99-117, 362-373  flushPendingUpdate
CoalesceFires ==
  /\ coalescing /\ coalescing' = FALSE
  /\ pendingTick' = IF settled THEN 0 ELSE pendingTick
  /\ IF settled /\ pendingTick # 0 /\ pendingTick >= Floor
     THEN chart' = UpsertCandle(chart, pendingTick) /\ lastApplied' = pendingTick
     ELSE UNCHANGED <<chart, lastApplied>>
  /\ UNCHANGED <<candleVars, settled, lastAccepted, snapshot, snapshotTicks, tickFloor, streamVars,
                 due, dueSince>>

-----------------------------------------------------------------------------
(* The snapshot.                                                            *)

Request(phase) == [phase |-> phase, to |-> 0, stale |-> FALSE]
Answer(t, stale) == [phase |-> "answered", to |-> t, stale |-> stale]

\* Variant for the mutation check: the tick pending when the request starts is
\* left out of what is replayed.
AskSnapshot_Empty ==
  /\ snapshot.phase = "none" /\ snapshot' = Request("asked")
  /\ snapshotTicks' = <<>> /\ dueSince' = IF pendingTick >= Floor THEN pendingTick ELSE 0
  /\ UNCHANGED <<candleVars, chart, tickVars, tickFloor, streamVars, due>>

\* use-market-candles.ts:141-150, 240-244  loadSnapshot starts: at the start
\* and whenever the interval comes round; a request under way is enough.
AskSnapshot ==
  /\ snapshot.phase = "none" /\ snapshot' = Request("asked")
  /\ snapshotTicks' = IF pendingTick = 0 THEN <<>> ELSE BufferTick(<<>>, pendingTick, Floor)
  /\ dueSince' = IF pendingTick >= Floor THEN pendingTick ELSE 0
  /\ UNCHANGED <<candleVars, chart, tickVars, tickFloor, streamVars, due>>

\* market-data.service.ts:82-100, 153-182  candles, refreshCandles: the cached
\* candles while they are fresh, the provider's if it answers, and the old
\* ones otherwise.
ServeCandles ==
  /\ snapshot.phase = "asked"
  /\ \/ /\ candleCache # 0 /\ cacheFresh
        /\ snapshot' = Answer(candleCache, FALSE) /\ UNCHANGED <<candleCache, cacheFresh>>
     \/ /\ candleCache = 0 \/ ~cacheFresh
        /\ \E t \in {newestTick, newestTick - 1} \cap Ticks :
             snapshot' = Answer(t, FALSE) /\ candleCache' = t
        /\ cacheFresh' = TRUE
     \/ /\ candleCache = 0 \/ ~cacheFresh
        /\ snapshot' = IF candleCache = 0 THEN Request("failed") ELSE Answer(candleCache, TRUE)
        /\ UNCHANGED <<candleCache, cacheFresh>>
  /\ UNCHANGED <<newestTick, chart, tickVars, snapshotTicks, tickFloor, streamVars, due, dueSince>>

\* CANDLE_CACHE_TTL_MS passes.
CacheExpires ==
  /\ cacheFresh /\ cacheFresh' = FALSE
  /\ UNCHANGED <<newestTick, candleCache, chart, tickVars, snapshot, snapshotTicks, tickFloor,
                 streamVars, due, dueSince>>

\* use-market-candles.ts:198-207  The end of every request: the first one that
\* ends, with an answer or without, lets the ticks through.
SettleTicks(pending) ==
  /\ snapshot' = Request("none") /\ snapshotTicks' = <<>> /\ settled' = TRUE
  /\ pendingTick' = pending
  /\ coalescing' = (coalescing \/ (~settled /\ pending # 0))

\* use-market-candles.ts:154-190  The snapshot is applied and the ticks of the
\* meantime are replayed on it.
SnapshotArrives ==
  /\ snapshot.phase = "answered"
  /\ LET candles == CandlesAt(snapshot.to)
         floor == CandleFloor(candles)
         replayed == {i \in DOMAIN snapshotTicks : snapshotTicks[i] >= floor}
     IN  /\ chart' = Replay(MergeSnapshot(candles, chart, lastApplied, snapshot.stale),
                            snapshotTicks, replayed)
         /\ lastApplied' = IF replayed = {} THEN lastApplied
                           ELSE Larger(lastApplied, snapshotTicks[Latest(replayed)])
         /\ tickFloor' = Larger(tickFloor, floor)
  /\ SettleTicks(IF settled THEN pendingTick ELSE 0)
  /\ due' = dueSince
  /\ UNCHANGED <<candleVars, lastAccepted, streamVars, dueSince>>

\* use-market-candles.ts:191-197  The request failed, or got no answer.
SnapshotFails ==
  /\ snapshot.phase # "none"
  /\ SettleTicks(pendingTick)
  /\ UNCHANGED <<candleVars, chart, lastApplied, lastAccepted, tickFloor, streamVars, due, dueSince>>

-----------------------------------------------------------------------------
(* The stream and the price asked for without it.                           *)

TicksUnchanged ==
  UNCHANGED <<candleVars, chart, tickVars, snapshot, snapshotTicks, tickFloor, due, dueSince>>

\* use-market-candles.ts:252-262  open
StreamOpens ==
  /\ ~streamOpen /\ streamOpen' = TRUE
  /\ streamFailed' = FALSE /\ fallbackTimer' = FALSE
  /\ TicksUnchanged /\ UNCHANGED fallbackPolls

\* use-market-candles.ts:210-216, 272-277  error, scheduleFallback
StreamFails ==
  /\ streamOpen' = FALSE /\ streamFailed' = TRUE
  /\ fallbackTimer' = TRUE
  /\ TicksUnchanged /\ UNCHANGED fallbackPolls

\* use-market-candles.ts:212-223  The timer fires: the price is asked for.
FallbackFires ==
  /\ fallbackTimer /\ fallbackTimer' = FALSE
  /\ fallbackPolls < 2 /\ fallbackPolls' = fallbackPolls + 1
  /\ TicksUnchanged /\ UNCHANGED <<streamOpen, streamFailed>>

\* use-market-candles.ts:224-239  The answer, or none; the next request is
\* scheduled unless the stream is back.
FallbackAnswers ==
  /\ fallbackPolls > 0 /\ fallbackPolls' = fallbackPolls - 1
  /\ fallbackTimer' = (fallbackTimer \/ ~streamOpen)
  /\ \/ /\ ~streamOpen /\ Len(snapshotTicks) < MaxQueued
        /\ \E t \in Width .. newestTick : QueueTick(t)
     \/ UNCHANGED <<tickVars, snapshotTicks, due, dueSince>>
  /\ UNCHANGED <<candleVars, chart, snapshot, tickFloor, streamOpen, streamFailed>>

-----------------------------------------------------------------------------
\* use-market-candles.ts:83-97, 232-249  A market is chosen: everything starts
\* anew and the first snapshot is asked for.
Choose ==
  /\ chart' = [b \in Buckets |-> 0]
  /\ pendingTick' = 0 /\ coalescing' = FALSE /\ settled' = FALSE
  /\ snapshot' = Request("asked") /\ snapshotTicks' = <<>>
  /\ lastApplied' = 0 /\ tickFloor' = 0 /\ lastAccepted' = 0
  /\ streamOpen' = FALSE /\ streamFailed' = FALSE /\ fallbackTimer' = FALSE /\ fallbackPolls' = 0
  /\ due' = 0 /\ dueSince' = 0
  /\ UNCHANGED candleVars

ChartInit ==
  /\ newestTick = 0 /\ candleCache = 0 /\ cacheFresh = FALSE
  /\ chart = [b \in Buckets |-> 0]
  /\ pendingTick = 0 /\ coalescing = FALSE /\ settled = FALSE
  /\ snapshot = Request("asked") /\ snapshotTicks = <<>>
  /\ lastApplied = 0 /\ tickFloor = 0 /\ lastAccepted = 0
  /\ streamOpen = FALSE /\ streamFailed = FALSE /\ fallbackTimer = FALSE /\ fallbackPolls = 0
  /\ due = 0 /\ dueSince = 0

ChartNext ==
  \/ TickPublished \/ CoalesceFires
  \/ \E t \in Ticks : StreamTick(t)
  \/ AskSnapshot \/ ServeCandles \/ CacheExpires \/ SnapshotArrives \/ SnapshotFails
  \/ StreamOpens \/ StreamFails \/ FallbackFires \/ FallbackAnswers
  \/ Choose

ChartSpec == ChartInit /\ [][ChartNext]_chartVars

-----------------------------------------------------------------------------
\* No tick is lost between the timer, the snapshot and the stream: every tick
\* that was not overtaken when it came, since the last applied snapshot was
\* asked for, is on the chart, behind a newer one there, or pending and not
\* overtaken since; what is pending has its timer armed; and without a stream
\* the price is asked for again (use-market-candles.ts:99-239).
ChartKeepsUp ==
  /\ Newest(chart) >= due \/ (pendingTick >= due /\ pendingTick >= Floor)
  /\ (settled /\ pendingTick # 0) => coalescing
  /\ streamFailed => fallbackTimer \/ fallbackPolls > 0
=============================================================================
