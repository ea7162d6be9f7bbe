----------------------------- MODULE PriceFeeds -----------------------------
(***************************************************************************)
(* The live prices of the server: MarketDataService (server/src/features/   *)
(* markets/market-data.service.ts).  Browsers join and leave an event       *)
(* stream per market; while any is there one upstream connection is kept,   *)
(* Hermes when an API key is configured and Hyperliquid's socket otherwise, *)
(* and one more request answers GET /markets/prices/latest.  Every update   *)
(* goes through one cache and, when the cache takes it, to the browsers.    *)
(*                                                                          *)
(* A price is the number of its publication.  Hermes says when a price was  *)
(* published; an update of Hyperliquid is stamped when it arrives.          *)
(***************************************************************************)
EXTENDS Naturals, FiniteSets

CONSTANTS
  FeedMarkets, \* markets with a feed
  Browsers,    \* clients of the event stream
  NoMarket,
  MaxPrice     \* bound: publications of a market

ASSUME FeedsAssumption == NoMarket \notin FeedMarkets

VARIABLES
  keyed,      \* PYTH_HERMES_API_KEY is configured
  published,  \* the provider's newest price of each market
  latest,     \* latestPrices, 0: none
  recent,     \* markets whose price was fetched within PRICE_CACHE_TTL_MS
  asked,      \* latestPriceInflight: markets with a request under way
  wire,       \* prices the connection carries: market -> price, 0: none
  watches,    \* the market each browser's stream is of, or NoMarket
  shown,      \* the newest price each browser was sent, 0: none
  hermes,     \* the Hermes task: "off", "connect", "read" or "wait"
  aborted,    \* its abort signal
  stopTimer,  \* streamStopTimer is armed
  socket,     \* the Hyperliquid socket: "none", "opening", "open", "closing"
  subscribed, \* markets the socket is subscribed to
  reconnect,  \* hyperliquidReconnectTimer is armed
  fallback    \* markets the fallback request under way asks for

upstreamVars == <<hermes, aborted, stopTimer, socket, subscribed, reconnect>>
priceVars == <<latest, recent, shown>>
feedVars == <<keyed, published, asked, wire, watches, fallback, priceVars, upstreamVars>>

-----------------------------------------------------------------------------
Watching == {b \in Browsers : watches[b] # NoMarket}
Wanted(w) == {w[b] : b \in Browsers} \ {NoMarket}

\* Variant for the mutation check: the order of publication is not compared.
Newer_Always(m, price) == TRUE

\* market-data.service.ts:545-551  cachePrice.  An update of Hyperliquid
\* carries the time of its arrival and is never older than the cached one.
Newer(m, price) == ~keyed \/ price >= latest[m]

\* market-data.service.ts:545-563  cachePrice, broadcast: the cache takes the
\* updates that are not older, and their browsers are sent them.
TakeUpdates(update) ==
  LET taken == {m \in DOMAIN update : Newer(m, update[m])}
  IN  /\ latest' = [m \in FeedMarkets |-> IF m \in taken THEN update[m] ELSE latest[m]]
      /\ recent' = recent \cup taken
      /\ shown' = [b \in Browsers |-> IF watches[b] \in taken THEN update[watches[b]]
                                                              ELSE shown[b]]

\* The provider publishes.
PublishPrice(m) ==
  /\ published[m] < MaxPrice
  /\ published' = [published EXCEPT ![m] = @ + 1]
  /\ UNCHANGED <<keyed, asked, wire, watches, fallback, priceVars, upstreamVars>>

-----------------------------------------------------------------------------
(* What the two providers' connections have in common.                      *)

\* market-data.service.ts:417-420  refreshHyperliquidFallback: one request at
\* a time asks for the watched markets.
Fallback(w) == IF fallback = {} THEN Wanted(w) ELSE fallback

\* market-data.service.ts:330-349, 382-407  ensureHyperliquidPriceStream for the
\* browsers w: an open socket gets its subscriptions; a missing one is opened
\* unless the reconnection waits, or cannot be made.
EnsureSocket(w, waits) ==
  /\ subscribed' = IF socket = "open" THEN Wanted(w) ELSE subscribed
  /\ IF socket = "none" /\ ~waits /\ Wanted(w) # {}
     THEN \/ socket' = "opening" /\ reconnect' = FALSE /\ UNCHANGED fallback
          \/ reconnect' = TRUE /\ fallback' = Fallback(w) /\ UNCHANGED socket
     ELSE reconnect' = waits /\ UNCHANGED <<socket, fallback>>

\* market-data.service.ts:330-334, 459-471  The stop timer is cleared; what
\* runs is kept, what does not is started.
Ensure(w) ==
  /\ stopTimer' = FALSE
  /\ IF keyed
     THEN /\ hermes' = IF hermes = "off" THEN "connect" ELSE hermes
          /\ aborted' = (aborted /\ hermes # "off")
          /\ UNCHANGED <<socket, subscribed, reconnect, fallback>>
     ELSE EnsureSocket(w, reconnect) /\ UNCHANGED <<hermes, aborted>>

\* market-data.service.ts:102-137  A browser opens the stream of a market: it
\* is sent the cached price at once.
Join(b, m) ==
  /\ watches[b] = NoMarket
  /\ watches' = [watches EXCEPT ![b] = m]
  /\ shown' = [shown EXCEPT ![b] = latest[m]]
  /\ Ensure(watches')
  /\ UNCHANGED <<keyed, published, latest, recent, asked, wire>>

\* market-data.service.ts:579-596  removeClient: the last one to leave arms
\* the stop timer.
Leave(b) ==
  /\ watches[b] # NoMarket
  /\ watches' = [watches EXCEPT ![b] = NoMarket]
  /\ shown' = [shown EXCEPT ![b] = 0]
  /\ subscribed' = IF socket = "open" /\ Wanted(watches') # {} THEN Wanted(watches')
                                                              ELSE subscribed
  /\ stopTimer' = (stopTimer \/ Wanted(watches') = {})
  /\ UNCHANGED <<keyed, published, latest, recent, asked, wire, fallback, hermes,
                 aborted, socket, reconnect>>

\* market-data.service.ts:588-594, 447-457  STREAM_IDLE_GRACE_MS after the
\* last browser left: both upstreams are stopped.
StopTimerFires ==
  /\ stopTimer /\ stopTimer' = FALSE
  /\ IF Watching # {}
     THEN UNCHANGED <<hermes, aborted, socket, subscribed, reconnect>>
     ELSE /\ aborted' = (hermes # "off")
          /\ socket' = "none" /\ subscribed' = {} /\ reconnect' = FALSE
          /\ UNCHANGED hermes
  /\ UNCHANGED <<keyed, published, asked, watches, fallback, priceVars>>
  /\ wire' = [m \in FeedMarkets |-> 0]

\* The connection carries the newest price of a market.
Carry(m) ==
  /\ IF keyed THEN hermes = "read" ELSE socket = "open" /\ m \in subscribed
  /\ wire[m] < published[m]
  /\ wire' = [wire EXCEPT ![m] = published[m]]
  /\ UNCHANGED <<keyed, published, asked, watches, fallback, priceVars, upstreamVars>>

\* market-data.service.ts:355-366, 517-538  A message arrives.
Arrive(m) ==
  /\ wire[m] # 0
  /\ IF keyed THEN hermes = "read" /\ ~aborted ELSE socket \in {"open", "closing"}
  /\ wire' = [wire EXCEPT ![m] = 0]
  /\ IF keyed \/ m \in Wanted(watches)
     THEN TakeUpdates([x \in {m} |-> wire[m]])
     ELSE UNCHANGED priceVars
  /\ UNCHANGED <<keyed, published, asked, watches, fallback, upstreamVars>>

\* The cached price grows older than PRICE_CACHE_TTL_MS.
Expire(m) ==
  /\ m \in recent /\ recent' = recent \ {m}
  /\ UNCHANGED <<keyed, published, asked, wire, watches, fallback, latest, shown, upstreamVars>>

-----------------------------------------------------------------------------
(* GET /markets/prices/latest                                               *)

\* market-data.service.ts:139-151  latestPrice: callers share one request.
Ask(m) ==
  /\ m \notin recent /\ m \notin {a[1] : a \in asked}
  /\ \E price \in {published[m]} \ {0} : asked' = asked \cup {<<m, price>>}
  /\ UNCHANGED <<keyed, published, wire, watches, fallback, priceVars, upstreamVars>>

\* market-data.service.ts:261-290  fetchLatestPrice: the answer goes to the
\* cache only; an older one counts as a fetch of the cached price.
Answered(a) ==
  /\ a \in asked /\ asked' = asked \ {a}
  /\ latest' = IF Newer(a[1], a[2]) THEN [latest EXCEPT ![a[1]] = a[2]] ELSE latest
  /\ recent' = recent \cup {a[1]}
  /\ UNCHANGED <<keyed, published, wire, watches, fallback, shown, upstreamVars>>

\* Both attempts of fetchJsonWithRetry failed.
AskFails(a) ==
  /\ a \in asked /\ asked' = asked \ {a}
  /\ UNCHANGED <<keyed, published, wire, watches, fallback, priceVars, upstreamVars>>

-----------------------------------------------------------------------------
(* Hermes.                                                                  *)

HermesMoves(from, to) ==
  /\ hermes = from /\ hermes' = to
  /\ wire' = [m \in FeedMarkets |-> 0]
  /\ UNCHANGED <<keyed, published, asked, watches, fallback, priceVars, stopTimer,
                 socket, subscribed, reconnect>>

HermesConnects == ~aborted /\ HermesMoves("connect", "read") /\ UNCHANGED aborted

\* market-data.service.ts:473-486  The connection fails, is refused or ends:
\* the task waits and tries again.
HermesBreaks ==
  /\ ~aborted /\ UNCHANGED aborted
  /\ \E from \in {"connect", "read"} : HermesMoves(from, "wait")

HermesRetries ==
  /\ ~aborted /\ Watching # {}
  /\ HermesMoves("wait", "connect") /\ UNCHANGED aborted

\* market-data.service.ts:466-470  The task ends when it is aborted or nobody
\* is left, and is started again when somebody came in the meantime.
HermesEnds ==
  /\ aborted \/ (hermes = "wait" /\ Watching = {})
  /\ \E from \in {"connect", "read", "wait"} :
       HermesMoves(from, IF Watching = {} THEN "off" ELSE "connect")
  /\ aborted' = FALSE

-----------------------------------------------------------------------------
(* Hyperliquid.                                                             *)

SocketUnchanged == UNCHANGED <<keyed, published, asked, watches, priceVars, hermes, aborted>>

\* market-data.service.ts:350-354  onopen: subscribe to what is
\* wanted.
SocketOpens ==
  /\ socket = "opening" /\ socket' = "open" /\ subscribed' = Wanted(watches)
  /\ SocketUnchanged /\ UNCHANGED <<wire, fallback, stopTimer, reconnect>>

\* market-data.service.ts:367-369, 409-415  An error or
\* HYPERLIQUID_STREAM_IDLE_MS without an update: close.
SocketGivesUp ==
  /\ socket \in {"opening", "open"} /\ socket' = "closing"
  /\ SocketUnchanged /\ UNCHANGED <<wire, fallback, subscribed, stopTimer, reconnect>>

\* Variant for the mutation check: a reconnection is not scheduled while the
\* fallback request runs.
SocketCloses_FallbackOnly ==
  /\ socket \in {"opening", "open", "closing"} /\ socket' = "none" /\ subscribed' = {}
  /\ wire' = [m \in FeedMarkets |-> 0]
  /\ fallback' = Fallback(watches)
  /\ reconnect' = (reconnect \/ (Watching # {} /\ fallback = {}))
  /\ SocketUnchanged /\ UNCHANGED stopTimer

\* market-data.service.ts:370-379, 433-445  onclose: the prices are
\* asked for once, and a reconnection is scheduled, while anybody is there.
SocketCloses ==
  /\ socket \in {"opening", "open", "closing"} /\ socket' = "none" /\ subscribed' = {}
  /\ wire' = [m \in FeedMarkets |-> 0]
  /\ fallback' = Fallback(watches)
  /\ reconnect' = (reconnect \/ Watching # {})
  /\ SocketUnchanged /\ UNCHANGED stopTimer

\* market-data.service.ts:440-443  The reconnection ensures the stream.
ReconnectFires ==
  /\ reconnect /\ stopTimer' = FALSE
  /\ EnsureSocket(watches, FALSE)
  /\ SocketUnchanged /\ UNCHANGED wire

\* market-data.service.ts:417-431  The fallback's answer goes to the browsers
\* as well.
FallbackEnds ==
  /\ fallback # {} /\ fallback' = {}
  /\ \/ TakeUpdates([m \in {x \in fallback : published[x] > 0} |-> published[m]])
     \/ UNCHANGED priceVars
  /\ UNCHANGED <<keyed, published, asked, wire, watches, upstreamVars>>

-----------------------------------------------------------------------------
FeedsInit ==
  /\ keyed \in BOOLEAN
  /\ published = [m \in FeedMarkets |-> 0] /\ latest = [m \in FeedMarkets |-> 0]
  /\ recent = {} /\ asked = {} /\ wire = [m \in FeedMarkets |-> 0]
  /\ watches = [b \in Browsers |-> NoMarket] /\ shown = [b \in Browsers |-> 0]
  /\ hermes = "off" /\ aborted = FALSE /\ stopTimer = FALSE
  /\ socket = "none" /\ subscribed = {} /\ reconnect = FALSE /\ fallback = {}

FeedsNext ==
  \/ \E m \in FeedMarkets :
       \/ PublishPrice(m) \/ Carry(m) \/ Arrive(m) \/ Expire(m) \/ Ask(m)
       \/ \E b \in Browsers : Join(b, m)
  \/ \E b \in Browsers : Leave(b)
  \/ \E a \in asked : Answered(a) \/ AskFails(a)
  \/ StopTimerFires
  \/ HermesConnects \/ HermesBreaks \/ HermesRetries \/ HermesEnds
  \/ SocketOpens \/ SocketGivesUp \/ SocketCloses \/ ReconnectFires \/ FallbackEnds

FeedsSpec == FeedsInit /\ [][FeedsNext]_feedVars

-----------------------------------------------------------------------------
\* While a browser is there, something keeps the stream going: no order of
\* joins, leaves, closes and timers leaves a browser without a connection, a
\* pending one or a timer that makes one, or with a subscription missing; and
\* an upstream nobody watches is on its way to be stopped
\* (market-data.service.ts:330-471, 579-596).
StreamIsKept ==
  /\ Watching # {} =>
       /\ ~stopTimer
       /\ IF keyed THEN hermes # "off" ELSE socket # "none" \/ reconnect
       /\ socket = "open" => subscribed = Wanted(watches)
  /\ (Watching = {} /\ ~stopTimer) =>
       /\ hermes = "off" \/ aborted
       /\ socket = "none"

\* With Hermes no stream ever shows a browser a price and later an older one,
\* whichever of the connection, its reconnections and the requests of other
\* callers brings the newer one first (market-data.service.ts:545-563).
ShownInOrder ==
  [][keyed => \A b \in Browsers : watches'[b] = watches[b] => shown'[b] >= shown[b]]_feedVars
=============================================================================
