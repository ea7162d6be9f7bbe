---------------------------- MODULE ServerProofs ----------------------------
(***************************************************************************)
(* Theorems about parts of the server, and of the browsers it serves, that *)
(* work on their own: the proof artifacts, the live price streams, the     *)
(* history of the vault, the batch executor, the snapshots of its store,   *)
(* what the prover lets through, the marks that a browser is shown, and    *)
(* the account's keys.  They hold for any number of processes, browsers,   *)
(* tabs, markets, orders, positions, statements, ledgers, transfers and    *)
(* snapshots, for every page size, price and amount, and whatever the      *)
(* batch matcher makes of its orders.                                      *)
(***************************************************************************)
EXTENDS ProofArtifacts, PriceFeeds, VaultHistory, BatchPipeline, ProtocolSnapshots,
        ProofRequests, MarkStream, AccountKeys, FiniteSetTheorems, WellFoundedInduction,
        TLAPS

-----------------------------------------------------------------------------
(* Proof artifacts.                                                        *)

\* What is on its way to the chain was bound: the files named by the record are
\* of the statement it makes.  Nothing is said of where the files are by now.
RelayIsBound == relay.record.proof = relay.record.claims

ArtifactsInv == RelayIsBound /\ AcceptedIsProved

LEMMA ArtifactsInvInit == ArtifactsInit => ArtifactsInv
  BY DEF ArtifactsInit, ArtifactsInv, RelayIsBound, AcceptedIsProved, NoRelay, NoRecord

LEMMA ArtifactsInvNext == ArtifactsInv /\ [ArtifactsNext]_artifactVars => ArtifactsInv'
<1> SUFFICES ASSUME ArtifactsInv, [ArtifactsNext]_artifactVars PROVE ArtifactsInv'  OBVIOUS
<1> USE DEF ArtifactsInv, RelayIsBound, AcceptedIsProved
<1>1. ASSUME NEW p \in Processes, NEW s \in Statements, Prepare(p, s) PROVE ArtifactsInv'
  BY <1>1 DEF Prepare
<1>2. ASSUME NEW p \in Processes, Prove(p) PROVE ArtifactsInv'
  BY <1>2 DEF Prove
<1>3. ASSUME NEW p \in Processes, Complete(p) PROVE ArtifactsInv'
  BY <1>3 DEF Complete
<1>4. ASSUME NEW p \in Processes, Restart(p) PROVE ArtifactsInv'
  BY <1>4 DEF Restart, NoRelay, NoRecord
<1>5. ASSUME NEW r \in records, NEW bytes \in Statements, Upload(r, bytes) PROVE ArtifactsInv'
  BY <1>5 DEF Upload
<1>6. ASSUME NEW r \in records, PostProof(r) PROVE ArtifactsInv'
  BY <1>6 DEF PostProof, IsBound
<1>7. ASSUME RelayProof PROVE ArtifactsInv'
  BY <1>7 DEF RelayProof, VerifierTakes, NoRelay, NoRecord
<1>8. ASSUME UNCHANGED artifactVars PROVE ArtifactsInv'
  BY <1>8 DEF artifactVars
<1> QED  BY <1>1, <1>2, <1>3, <1>4, <1>5, <1>6, <1>7, <1>8 DEF ArtifactsNext

\* AcceptedIsProved: however builds, uploads, restarts and relays of any number of
\* processes overlap, a record is accepted only for files that prove its statement.
THEOREM AcceptedRecordsAreProved == ArtifactsSpec => []AcceptedIsProved
<1>1. ArtifactsInv => AcceptedIsProved  BY DEF ArtifactsInv
<1> QED  BY <1>1, ArtifactsInvInit, ArtifactsInvNext, PTL DEF ArtifactsSpec

-----------------------------------------------------------------------------
(* Price streams.                                                          *)

\* Each upstream is used under its own configuration only.
OneUpstream ==
  /\ keyed => socket = "none" /\ ~reconnect
  /\ ~keyed => hermes = "off" /\ ~aborted

\* A reconnection waits only while there is no socket.
ReconnectWaits == reconnect => socket = "none"

FeedsTypeOK ==
  /\ keyed \in BOOLEAN /\ aborted \in BOOLEAN /\ stopTimer \in BOOLEAN /\ reconnect \in BOOLEAN
  /\ watches \in [Browsers -> FeedMarkets \cup {NoMarket}]
  /\ hermes \in {"off", "connect", "read", "wait"}
  /\ socket \in {"none", "opening", "open", "closing"}

FeedsInv == FeedsTypeOK /\ OneUpstream /\ ReconnectWaits /\ StreamIsKept

\* Markets are wanted while somebody watches.
LEMMA WantedIsWatched ==
    ASSUME NEW w
    PROVE  Wanted(w) = {} <=> {b \in Browsers : w[b] # NoMarket} = {}
  BY DEF Wanted

LEMMA FeedsInvInit == FeedsInit => FeedsInv
<1> SUFFICES ASSUME FeedsInit PROVE FeedsInv  OBVIOUS
<1>1. Watching = {}  BY DEF FeedsInit, Watching
<1> QED
  BY <1>1 DEF FeedsInit, FeedsInv, FeedsTypeOK, OneUpstream, ReconnectWaits, StreamIsKept

\* What the invariant speaks of.
streamVars == <<keyed, watches, hermes, aborted, stopTimer, socket, subscribed, reconnect>>

LEMMA StreamUnchanged == FeedsInv /\ UNCHANGED streamVars => FeedsInv'
  BY DEF FeedsInv, FeedsTypeOK, OneUpstream, ReconnectWaits, StreamIsKept, Watching, Wanted,
         streamVars

LEMMA FeedsInvNext == FeedsInv /\ [FeedsNext]_feedVars => FeedsInv'
<1> SUFFICES ASSUME FeedsInv, [FeedsNext]_feedVars PROVE FeedsInv'  OBVIOUS
<1>0. FeedsTypeOK /\ OneUpstream /\ ReconnectWaits /\ StreamIsKept  BY DEF FeedsInv
<1> DEFINE Goal == FeedsInv'
<1>w. Wanted(watches) = {} <=> Watching = {}  BY WantedIsWatched DEF Watching
<1>v. Wanted(watches') = {} <=> Watching' = {}  BY WantedIsWatched DEF Watching
<1> USE DEF FeedsInv, FeedsTypeOK, OneUpstream, ReconnectWaits, StreamIsKept
<1>1. ASSUME NEW m \in FeedMarkets,
             PublishPrice(m) \/ Carry(m) \/ Arrive(m) \/ Expire(m) \/ Ask(m)
      PROVE  Goal
  <2>1. UNCHANGED streamVars
    BY <1>1 DEF PublishPrice, Carry, Arrive, Expire, Ask, streamVars, upstreamVars
  <2> QED  BY <2>1, StreamUnchanged
<1>2. ASSUME NEW a \in asked, Answered(a) \/ AskFails(a) PROVE Goal
  <2>1. UNCHANGED streamVars
    BY <1>2 DEF Answered, AskFails, streamVars, upstreamVars
  <2> QED  BY <2>1, StreamUnchanged
<1>3. ASSUME FallbackEnds PROVE Goal
  <2>1. UNCHANGED streamVars  BY <1>3 DEF FallbackEnds, streamVars, upstreamVars
  <2> QED  BY <2>1, StreamUnchanged
<1>4. ASSUME NEW m \in FeedMarkets, NEW b \in Browsers, Join(b, m) PROVE Goal
  <2>1. /\ watches' \in [Browsers -> FeedMarkets \cup {NoMarket}]
        /\ Watching' # {} /\ stopTimer' = FALSE /\ keyed' = keyed
    BY <1>0, <1>4, FeedsAssumption DEF Join, Ensure, Watching
  <2>2. CASE keyed
    <3>1. /\ hermes' = IF hermes = "off" THEN "connect" ELSE hermes
          /\ aborted' = (aborted /\ hermes # "off")
          /\ UNCHANGED <<socket, subscribed, reconnect, fallback>>
      BY <1>4, <2>2 DEF Join, Ensure
    <3>2. hermes' \in {"connect", "read", "wait"} /\ aborted' \in BOOLEAN
      BY <1>0, <3>1
    <3> QED  BY <1>0, <2>1, <2>2, <3>1, <3>2
  <2>3. CASE ~keyed
    <3>1. EnsureSocket(watches', reconnect) /\ UNCHANGED <<hermes, aborted>>
      BY <1>4, <2>3 DEF Join, Ensure
    <3>2. CASE socket = "none" /\ ~reconnect
      BY <1>0, <1>v, <2>1, <2>3, <3>1, <3>2 DEF EnsureSocket
    <3>3. CASE ~(socket = "none" /\ ~reconnect)
      BY <1>0, <2>1, <2>3, <3>1, <3>3 DEF EnsureSocket
    <3> QED  BY <3>2, <3>3
  <2> QED  BY <2>2, <2>3
<1>5. ASSUME NEW b \in Browsers, Leave(b) PROVE Goal
  <2>1. /\ watches' \in [Browsers -> FeedMarkets \cup {NoMarket}]
        /\ UNCHANGED <<keyed, hermes, aborted, socket, reconnect>>
        /\ Watching' \subseteq Watching
        /\ stopTimer' = (stopTimer \/ Wanted(watches') = {})
    BY <1>0, <1>5 DEF Leave, Watching
  <2>2. CASE Watching' = {}
    BY <1>0, <1>v, <2>1, <2>2
  <2>3. CASE Watching' # {}
    <3>1. socket = "open" => subscribed' = Wanted(watches')
      BY <1>5, <1>v, <2>3 DEF Leave
    <3> QED  BY <1>0, <1>v, <2>1, <2>3, <3>1
  <2> QED  BY <2>2, <2>3
<1>6. ASSUME StopTimerFires PROVE Goal
  <2>1. Watching = {} /\ Watching' = Watching  BY <1>0, <1>6 DEF StopTimerFires, Watching
  <2> QED  BY <1>0, <1>6, <2>1 DEF StopTimerFires
<1>7. ASSUME HermesConnects \/ HermesBreaks \/ HermesRetries \/ HermesEnds PROVE Goal
  <2>1. /\ UNCHANGED <<keyed, watches, stopTimer, socket, subscribed, reconnect>>
        /\ hermes # "off"
    BY <1>7 DEF HermesConnects, HermesBreaks, HermesRetries, HermesEnds, HermesMoves
  <2>2. Watching' = Watching /\ Wanted(watches') = Wanted(watches)
    BY <2>1 DEF Watching, Wanted
  <2>3. CASE HermesEnds
    BY <1>0, <2>1, <2>2, <2>3 DEF HermesEnds, HermesMoves
  <2>4. CASE HermesConnects \/ HermesBreaks \/ HermesRetries
    BY <1>0, <2>1, <2>2, <2>4 DEF HermesConnects, HermesBreaks, HermesRetries, HermesMoves
  <2> QED  BY <1>7, <2>3, <2>4
<1>8. ASSUME SocketOpens \/ SocketGivesUp \/ SocketCloses PROVE Goal
  <2>1. /\ UNCHANGED <<keyed, watches, hermes, aborted, stopTimer>>
        /\ socket # "none"
    BY <1>8 DEF SocketOpens, SocketGivesUp, SocketCloses, SocketUnchanged
  <2>2. Watching' = Watching /\ Wanted(watches') = Wanted(watches)
    BY <2>1 DEF Watching, Wanted
  <2>3. CASE SocketOpens
    BY <1>0, <2>1, <2>2, <2>3 DEF SocketOpens
  <2>4. CASE SocketGivesUp
    BY <1>0, <2>1, <2>2, <2>4 DEF SocketGivesUp
  <2>5. CASE SocketCloses
    <3>1. socket' = "none" /\ reconnect' = (reconnect \/ Watching # {})
      BY <2>5 DEF SocketCloses
    <3>2. ~keyed /\ hermes = "off" /\ reconnect' \in BOOLEAN
      BY <1>0, <2>1, <3>1
    <3>3. CASE Watching = {}
      BY <1>0, <2>1, <2>2, <3>1, <3>2, <3>3
    <3>4. CASE Watching # {}
      <4>1. reconnect'  BY <3>1, <3>4
      <4> QED  BY <1>0, <2>1, <2>2, <3>1, <3>2, <3>4, <4>1
    <3> QED  BY <3>3, <3>4
  <2> QED  BY <1>8, <2>3, <2>4, <2>5
<1>9. ASSUME ReconnectFires PROVE Goal
  <2>1. /\ UNCHANGED <<keyed, watches, hermes, aborted>> /\ stopTimer' = FALSE
        /\ reconnect /\ socket = "none" /\ ~keyed
        /\ EnsureSocket(watches, FALSE)
    BY <1>0, <1>9 DEF ReconnectFires, SocketUnchanged
  <2>2. Watching' = Watching /\ Wanted(watches') = Wanted(watches)
    BY <2>1 DEF Watching, Wanted
  <2> QED  BY <1>0, <1>w, <2>1, <2>2 DEF EnsureSocket
<1>10. ASSUME UNCHANGED feedVars PROVE Goal
  <2>1. UNCHANGED streamVars  BY <1>10 DEF feedVars, streamVars, upstreamVars
  <2> QED  BY <2>1, StreamUnchanged
<1> HIDE DEF FeedsInv, FeedsTypeOK, OneUpstream, ReconnectWaits, StreamIsKept
<1> QED
  BY <1>1, <1>2, <1>3, <1>4, <1>5, <1>6, <1>7, <1>8, <1>9, <1>10 DEF FeedsNext

\* StreamIsKept: no order of joins, leaves, timers and failures of either provider
\* leaves a browser of MarketDataService without an upstream, or one nobody watches
\* running for good.
THEOREM StreamsAreKept == FeedsSpec => []StreamIsKept
<1>1. FeedsInv => StreamIsKept  BY DEF FeedsInv
<1> QED  BY <1>1, FeedsInvInit, FeedsInvNext, PTL DEF FeedsSpec

\* What was fetched, carried and asked for are prices; with Hermes a browser was
\* never sent more than the cache has.
PricesTyped ==
    /\ keyed \in BOOLEAN
    /\ published \in [FeedMarkets -> Nat] /\ latest \in [FeedMarkets -> Nat]
    /\ wire \in [FeedMarkets -> Nat] /\ asked \subseteq FeedMarkets \X Nat
    /\ watches \in [Browsers -> FeedMarkets \cup {NoMarket}]
    /\ shown \in [Browsers -> Nat]
    /\ fallback \subseteq FeedMarkets
ShownIsCached ==
    keyed => \A b \in Browsers : watches[b] # NoMarket => shown[b] <= latest[watches[b]]
PricesInv == PricesTyped /\ ShownIsCached
ShownGrows == keyed => \A b \in Browsers : watches'[b] = watches[b] => shown'[b] >= shown[b]

LEMMA PricesInvInit == FeedsInit => PricesInv
  BY DEF FeedsInit, PricesInv, PricesTyped, ShownIsCached

\* Steps of the connections.
LEMMA PricesRest ==
    ASSUME PricesInv, UNCHANGED <<keyed, published, asked, watches, latest, shown>>,
           wire' \in [FeedMarkets -> Nat], fallback' \subseteq FeedMarkets
    PROVE  PricesInv' /\ ShownGrows
<1>1. PricesInv'
  BY DEF PricesInv, PricesTyped, ShownIsCached
<1>2. \A b \in Browsers : shown'[b] >= shown[b]
  BY DEF PricesInv, PricesTyped
<1> QED BY <1>1, <1>2 DEF ShownGrows

\* Updates go to the cache and to the browsers together.
LEMMA UpdatesAreTaken ==
    ASSUME PricesInv, NEW update, DOMAIN update \subseteq FeedMarkets,
           \A m \in DOMAIN update : update[m] \in Nat, TakeUpdates(update),
           UNCHANGED <<keyed, published, asked, watches>>,
           wire' \in [FeedMarkets -> Nat], fallback' \subseteq FeedMarkets
    PROVE  PricesInv' /\ ShownGrows
<1>1. PICK taken : taken = {m \in DOMAIN update : Newer(m, update[m])}
  OBVIOUS
<1>2. /\ latest' = [m \in FeedMarkets |-> IF m \in taken THEN update[m] ELSE latest[m]]
      /\ shown' = [b \in Browsers |-> IF watches[b] \in taken THEN update[watches[b]]
                                                              ELSE shown[b]]
  BY <1>1 DEF TakeUpdates
<1>3. PricesTyped'
  <2>1. latest' \in [FeedMarkets -> Nat]
    BY <1>1, <1>2 DEF PricesInv, PricesTyped
  <2>2. shown' \in [Browsers -> Nat]
    BY <1>1, <1>2 DEF PricesInv, PricesTyped
  <2> QED BY <2>1, <2>2 DEF PricesInv, PricesTyped
<1>4. taken \subseteq FeedMarkets /\ NoMarket \notin taken
  BY <1>1, FeedsAssumption
<1>5. ShownIsCached'
  <2> SUFFICES ASSUME keyed, NEW b \in Browsers, watches[b] # NoMarket
               PROVE  shown'[b] <= latest'[watches[b]]
    BY DEF ShownIsCached
  <2>1. watches[b] \in FeedMarkets
    BY DEF PricesInv, PricesTyped
  <2>2. CASE watches[b] \in taken
    <3>1. update[watches[b]] \in Nat
      BY <1>1, <2>2
    <3> QED BY <1>2, <2>1, <2>2, <3>1
  <2>3. CASE watches[b] \notin taken
    BY <1>2, <2>1, <2>3 DEF PricesInv, ShownIsCached
  <2> QED BY <2>2, <2>3
<1>6. ASSUME keyed, NEW b \in Browsers PROVE shown'[b] >= shown[b]
  <2>1. CASE watches[b] \in taken
    <3>1. update[watches[b]] >= latest[watches[b]]
      BY <1>1, <1>6, <2>1 DEF Newer
    <3>2. shown[b] <= latest[watches[b]]
      BY <1>4, <1>6, <2>1 DEF PricesInv, ShownIsCached
    <3>3. /\ latest[watches[b]] \in Nat /\ shown[b] \in Nat
          /\ update[watches[b]] \in Nat
      BY <1>1, <1>4, <2>1 DEF PricesInv, PricesTyped
    <3> QED BY <1>2, <2>1, <3>1, <3>2, <3>3
  <2>2. CASE watches[b] \notin taken
    BY <1>2, <2>2 DEF PricesInv, PricesTyped
  <2> QED BY <2>1, <2>2
<1> QED BY <1>3, <1>5, <1>6 DEF PricesInv, ShownGrows

LEMMA PricesStep == PricesInv /\ [FeedsNext]_feedVars => PricesInv' /\ ShownGrows
<1> SUFFICES ASSUME PricesInv, [FeedsNext]_feedVars PROVE PricesInv' /\ ShownGrows
  OBVIOUS
<1>1. PricesTyped
  BY DEF PricesInv
<1>2. \A w \in [Browsers -> FeedMarkets \cup {NoMarket}] :
        Wanted(w) \subseteq FeedMarkets /\ Fallback(w) \subseteq FeedMarkets
  BY <1>1 DEF Wanted, Fallback, PricesTyped
<1>3. wire \in [FeedMarkets -> Nat] /\ [m \in FeedMarkets |-> 0] \in [FeedMarkets -> Nat]
      /\ fallback \subseteq FeedMarkets /\ watches \in [Browsers -> FeedMarkets \cup {NoMarket}]
  BY <1>1 DEF PricesTyped
<1>4. ASSUME NEW m \in FeedMarkets, PublishPrice(m) PROVE PricesInv' /\ ShownGrows
  <2>1. UNCHANGED <<keyed, asked, wire, watches, fallback, latest, shown>>
    BY <1>4 DEF PublishPrice, priceVars
  <2>2. published' \in [FeedMarkets -> Nat]
    BY <1>1, <1>4 DEF PublishPrice, PricesTyped
  <2> QED BY <1>1, <2>1, <2>2 DEF PricesInv, PricesTyped, ShownIsCached, ShownGrows
<1>5. ASSUME NEW m \in FeedMarkets, Carry(m) PROVE PricesInv' /\ ShownGrows
  <2>1. wire' \in [FeedMarkets -> Nat]
    BY <1>1, <1>5 DEF Carry, PricesTyped
  <2> QED BY <1>3, <1>5, <2>1, PricesRest DEF Carry, priceVars
<1>6. ASSUME NEW m \in FeedMarkets, Arrive(m) PROVE PricesInv' /\ ShownGrows
  <2>1. wire' \in [FeedMarkets -> Nat] /\ UNCHANGED <<keyed, published, asked, watches, fallback>>
    BY <1>3, <1>6 DEF Arrive
  <2>2. CASE TakeUpdates([x \in {m} |-> wire[m]])
    BY <1>3, <2>1, <2>2, UpdatesAreTaken
  <2>3. CASE UNCHANGED priceVars
    BY <1>3, <2>1, <2>3, PricesRest DEF priceVars
  <2> QED BY <1>6, <2>2, <2>3 DEF Arrive
<1>7. ASSUME NEW m \in FeedMarkets, Expire(m) PROVE PricesInv' /\ ShownGrows
  BY <1>3, <1>7, PricesRest DEF Expire
<1>8. ASSUME NEW m \in FeedMarkets, Ask(m) PROVE PricesInv' /\ ShownGrows
  <2>1. UNCHANGED <<keyed, published, wire, watches, fallback, latest, shown>>
    BY <1>8 DEF Ask, priceVars
  <2>2. asked' \subseteq FeedMarkets \X Nat
    BY <1>1, <1>8 DEF Ask, PricesTyped
  <2> QED BY <1>1, <2>1, <2>2 DEF PricesInv, PricesTyped, ShownIsCached, ShownGrows
<1>9. ASSUME NEW m \in FeedMarkets, NEW b \in Browsers, Join(b, m) PROVE PricesInv' /\ ShownGrows
  <2>1. /\ watches[b] = NoMarket /\ watches' = [watches EXCEPT ![b] = m]
        /\ shown' = [shown EXCEPT ![b] = latest[m]]
        /\ UNCHANGED <<keyed, published, latest, asked, wire>>
    BY <1>9 DEF Join
  <2>2. watches' \in [Browsers -> FeedMarkets \cup {NoMarket}] /\ shown' \in [Browsers -> Nat]
    BY <1>1, <2>1 DEF PricesTyped
  <2>3. fallback' \subseteq FeedMarkets
    BY <1>2, <1>3, <1>9, <2>2 DEF Join, Ensure, EnsureSocket
  <2>4. PricesTyped'
    BY <1>1, <2>1, <2>2, <2>3 DEF PricesTyped
  <2>5. \A c \in Browsers \ {b} : watches'[c] = watches[c] /\ shown'[c] = shown[c]
    BY <1>1, <2>1 DEF PricesTyped
  <2>6. /\ watches'[b] = m /\ shown'[b] = latest[m] /\ latest[m] \in Nat
        /\ watches'[b] # watches[b]
    BY <1>1, <2>1, FeedsAssumption DEF PricesTyped
  <2>7. ShownIsCached'
    BY <2>1, <2>5, <2>6 DEF PricesInv, ShownIsCached
  <2>8. ShownGrows
    BY <1>1, <2>5, <2>6 DEF ShownGrows, PricesTyped
  <2> QED BY <2>4, <2>7, <2>8 DEF PricesInv
<1>10. ASSUME NEW b \in Browsers, Leave(b) PROVE PricesInv' /\ ShownGrows
  <2>1. /\ watches[b] # NoMarket /\ watches' = [watches EXCEPT ![b] = NoMarket]
        /\ shown' = [shown EXCEPT ![b] = 0]
        /\ UNCHANGED <<keyed, published, latest, asked, wire, fallback>>
    BY <1>10 DEF Leave
  <2>2. watches' \in [Browsers -> FeedMarkets \cup {NoMarket}] /\ shown' \in [Browsers -> Nat]
    BY <1>1, <2>1 DEF PricesTyped
  <2>3. PricesTyped'
    BY <1>1, <2>1, <2>2 DEF PricesTyped
  <2>4. \A c \in Browsers \ {b} : watches'[c] = watches[c] /\ shown'[c] = shown[c]
    BY <1>1, <2>1 DEF PricesTyped
  <2>5. watches'[b] = NoMarket /\ watches'[b] # watches[b]
    BY <1>1, <2>1 DEF PricesTyped
  <2>6. ShownIsCached'
    BY <2>1, <2>4, <2>5 DEF PricesInv, ShownIsCached
  <2>7. ShownGrows
    BY <1>1, <2>4, <2>5 DEF ShownGrows, PricesTyped
  <2> QED BY <2>3, <2>6, <2>7 DEF PricesInv
<1>11. ASSUME NEW a \in asked, Answered(a) PROVE PricesInv' /\ ShownGrows
  <2>1. /\ UNCHANGED <<keyed, published, wire, watches, fallback, shown>> /\ asked' \subseteq asked
        /\ latest' = IF Newer(a[1], a[2]) THEN [latest EXCEPT ![a[1]] = a[2]] ELSE latest
    BY <1>11 DEF Answered
  <2>2. a[1] \in FeedMarkets /\ a[2] \in Nat
    BY <1>1 DEF PricesTyped
  <2>3. latest' \in [FeedMarkets -> Nat]
    BY <1>1, <2>1, <2>2 DEF PricesTyped
  <2>4. PricesTyped'
    BY <1>1, <2>1, <2>3 DEF PricesTyped
  <2>5. keyed => \A m \in FeedMarkets : latest'[m] >= latest[m]
    BY <1>1, <2>1, <2>2 DEF PricesTyped, Newer
  <2>6. ASSUME keyed, NEW b \in Browsers, watches[b] # NoMarket
        PROVE  shown[b] <= latest'[watches[b]]
    <3>1. watches[b] \in FeedMarkets /\ shown[b] \in Nat
      BY <1>1, <2>6 DEF PricesTyped
    <3>2. shown[b] <= latest[watches[b]]
      BY <2>6 DEF PricesInv, ShownIsCached
    <3>3. latest[watches[b]] \in Nat /\ latest'[watches[b]] \in Nat
      BY <1>1, <2>3, <3>1 DEF PricesTyped
    <3> QED BY <2>5, <2>6, <3>1, <3>2, <3>3
  <2>7. ShownGrows
    BY <1>1, <2>1 DEF ShownGrows, PricesTyped
  <2> QED BY <2>1, <2>4, <2>6, <2>7 DEF PricesInv, ShownIsCached
<1>12. ASSUME NEW a \in asked, AskFails(a) PROVE PricesInv' /\ ShownGrows
  <2>1. UNCHANGED <<keyed, published, wire, watches, fallback, latest, shown>> /\ asked' \subseteq asked
    BY <1>12 DEF AskFails, priceVars
  <2> QED BY <1>1, <2>1 DEF PricesInv, PricesTyped, ShownIsCached, ShownGrows
<1>13. CASE StopTimerFires
  BY <1>3, <1>13, PricesRest DEF StopTimerFires, priceVars
<1>14. CASE HermesConnects \/ HermesBreaks \/ HermesRetries \/ HermesEnds
  BY <1>3, <1>14, PricesRest
     DEF HermesConnects, HermesBreaks, HermesRetries, HermesEnds, HermesMoves, priceVars
<1>15. CASE SocketOpens \/ SocketGivesUp
  BY <1>3, <1>15, PricesRest DEF SocketOpens, SocketGivesUp, SocketUnchanged, priceVars
<1>16. CASE SocketCloses
  BY <1>2, <1>3, <1>16, PricesRest DEF SocketCloses, SocketUnchanged, priceVars
<1>17. CASE ReconnectFires
  <2>1. fallback' \subseteq FeedMarkets
    BY <1>2, <1>3, <1>17 DEF ReconnectFires, EnsureSocket
  <2> QED BY <1>3, <1>17, <2>1, PricesRest DEF ReconnectFires, SocketUnchanged, priceVars
<1>18. CASE FallbackEnds
  <2>1. /\ UNCHANGED <<keyed, published, asked, wire, watches>>
        /\ fallback' \subseteq FeedMarkets
    BY <1>18 DEF FallbackEnds
  <2>2. PICK update : update = [m \in {x \in fallback : published[x] > 0} |-> published[m]]
    OBVIOUS
  <2>3. DOMAIN update \subseteq FeedMarkets /\ \A m \in DOMAIN update : update[m] \in Nat
    BY <1>1, <2>2 DEF PricesTyped
  <2>4. CASE TakeUpdates(update)
    BY <1>3, <2>1, <2>3, <2>4, UpdatesAreTaken
  <2>5. CASE UNCHANGED priceVars
    BY <1>3, <2>1, <2>5, PricesRest DEF priceVars
  <2> QED BY <1>18, <2>2, <2>4, <2>5 DEF FallbackEnds
<1>19. CASE UNCHANGED feedVars
  BY <1>3, <1>19, PricesRest DEF feedVars, priceVars
<1> QED BY <1>4, <1>5, <1>6, <1>7, <1>8, <1>9, <1>10, <1>11, <1>12, <1>13, <1>14, <1>15, <1>16,
           <1>17, <1>18, <1>19 DEF FeedsNext

\* ShownInOrder: with Hermes no stream ever shows a browser a price and later an
\* older one, for any browsers, markets and prices, whichever of the connection,
\* its reconnections and other callers' requests is first
\* (MarketDataService.cachePrice, broadcast).
THEOREM PricesAreShownInOrder == FeedsSpec => ShownInOrder
<1>1. PricesInv /\ [FeedsNext]_feedVars =>
        [keyed => \A b \in Browsers : watches'[b] = watches[b] => shown'[b] >= shown[b]]_feedVars
  BY PricesStep DEF ShownGrows
<1>2. PricesInv /\ [FeedsNext]_feedVars => PricesInv'
  BY PricesStep
<1> QED BY <1>1, <1>2, PricesInvInit, PTL DEF FeedsSpec, ShownInOrder

-----------------------------------------------------------------------------
(* The history of the vault: least and greatest transfers, and pages.      *)

LEMMA LeastTransfer ==
    ASSUME NEW S, S \subseteq Nat, S # {}
    PROVE  \E x \in S : \A y \in S : x <= y
<1> DEFINE R == OpToRel(<, Nat)
<1>1. IsWellFoundedOn(R, Nat)  BY NatLessThanWellFounded
<1> HIDE DEF R
<1>2. PICK x \in S : \A y \in S : ~(<<y, x>> \in R)  BY <1>1, WFMin
<1>3. \A y \in S : ~(y < x)  BY <1>2 DEF R, OpToRel
<1> QED  BY <1>3

LEMMA GreatestTransfer ==
    ASSUME NEW n \in Nat, NEW S, S \subseteq 1..n, S # {}
    PROVE  \E x \in S : \A y \in S : y <= x
<1> DEFINE T == {n - x : x \in S}
<1>1. T \subseteq Nat /\ T # {}
  <2>1. \A x \in S : n - x \in Nat  OBVIOUS
  <2>2. T \subseteq Nat  BY <2>1
  <2>3. T # {}  OBVIOUS
  <2> QED  BY <2>2, <2>3
<1>2. PICK t \in T : \A u \in T : t <= u  BY <1>1, LeastTransfer
<1>3. PICK x \in S : t = n - x  BY <1>2
<1>4. ASSUME NEW y \in S PROVE y <= x
  <2>1. n - y \in T  OBVIOUS
  <2>2. n - x <= n - y  BY <1>2, <1>3, <2>1
  <2>3. x \in 1..n /\ y \in 1..n  OBVIOUS
  <2> HIDE DEF T
  <2> QED  BY <2>2, <2>3
<1> QED  BY <1>4

\* What is left of the range of a scan is finite, and a page takes its beginning:
\* a page that is not full takes all of it, and no page is too large.
LEMMA PageFacts ==
    ASSUME NEW s, ledgerOf \in Seq(Nat)
    PROVE  /\ Remaining(s) \subseteq 1..Len(ledgerOf) /\ PageOf(s) \subseteq Remaining(s)
           /\ \A j \in Remaining(s), k \in PageOf(s) : j < k => j \in PageOf(s)
           /\ Cardinality(PageOf(s)) < PageLimit => PageOf(s) = Remaining(s)
           /\ PageOf(s) # {} => Cardinality(PageOf(s)) <= PageLimit
<1> DEFINE L == Len(ledgerOf)
           Rem == Remaining(s)
           Pg == PageOf(s)
           Before(k) == {j \in Rem : j < k}
<1>1. L \in Nat /\ DOMAIN ledgerOf = 1..L  OBVIOUS
<1>2. Rem \subseteq 1..L  BY <1>1 DEF Remaining, Transfers
<1>3. Pg = {k \in Rem : Cardinality(Before(k)) < PageLimit}  BY DEF PageOf
<1>4. PageLimit \in Nat \ {0}  BY HistoryAssumption
<1>13. ASSUME NEW k \in Rem PROVE Before(k) \subseteq Rem /\ \A j \in Rem : j < k => j \in Before(k)
  OBVIOUS
<1>14. ASSUME NEW k, NEW j \in Before(k) PROVE j \in Rem /\ j < k
  OBVIOUS
<1> HIDE DEF Rem, Pg, L, Before
<1>5. IsFiniteSet(1..L)  BY <1>1, FS_Interval
<1>6. IsFiniteSet(Rem)  BY <1>2, <1>5, FS_Subset
<1>7. Pg \subseteq Rem  BY <1>3
<1>8. IsFiniteSet(Pg) /\ Cardinality(Pg) \in Nat  BY <1>6, <1>7, FS_Subset, FS_CardinalityType
<1>9. ASSUME NEW k \in Rem
      PROVE  IsFiniteSet(Before(k)) /\ Cardinality(Before(k)) \in Nat
  <2>1. Before(k) \subseteq Rem  BY <1>13
  <2> QED  BY <1>6, <2>1, FS_Subset, FS_CardinalityType
<1>10. ASSUME NEW j \in Rem, NEW k \in Pg, j < k PROVE j \in Pg
  <2>1. j \in Int /\ k \in Int  BY <1>2, <1>7
  <2>3. k \in Rem  BY <1>7
  <2>2. Before(j) \subseteq Before(k)
    <3>1. ASSUME NEW i \in Before(j) PROVE i \in Before(k)
      <4>1. i \in Rem /\ i < j  BY <1>14
      <4>2. i < k  BY <1>1, <1>2, <1>10, <2>1, <4>1
      <4> QED  BY <1>13, <2>3, <4>1, <4>2
    <3> QED  BY <3>1
  <2>4. Cardinality(Before(j)) <= Cardinality(Before(k))  BY <1>9, <2>2, <2>3, FS_Subset
  <2>5. Cardinality(Before(k)) < PageLimit  BY <1>3
  <2>6. Cardinality(Before(j)) < PageLimit  BY <1>4, <1>9, <2>3, <2>4, <2>5
  <2> QED  BY <1>3, <2>6
<1>11. ASSUME Cardinality(Pg) < PageLimit PROVE Pg = Rem
  <2>7. SUFFICES ASSUME Rem \ Pg # {} PROVE FALSE  BY <1>7
  <2>1. Rem \ Pg \subseteq Nat
    <3>1. 1..L \subseteq Nat  OBVIOUS
    <3> QED  BY <1>2, <3>1
  <2>2. PICK k \in Rem \ Pg : \A j \in Rem \ Pg : k <= j  BY <2>1, <2>7, LeastTransfer
  <2>3. ASSUME NEW j \in Before(k) PROVE j \in Pg
    <3>1. j \in Rem /\ j < k  BY <1>14
    <3>2. j \in Nat /\ k \in Nat  BY <1>1, <1>2, <2>1, <3>1
    <3> QED  BY <2>2, <3>1, <3>2
  <2>6. Before(k) \subseteq Pg  BY <2>3
  <2>4. Cardinality(Before(k)) <= Cardinality(Pg)  BY <1>8, <2>6, FS_Subset
  <2>5. Cardinality(Before(k)) < PageLimit  BY <1>4, <1>8, <1>9, <1>11, <2>4
  <2> QED  BY <1>3, <2>5
<1>12. ASSUME Pg # {} PROVE Cardinality(Pg) <= PageLimit
  <2>1. Pg \subseteq 1..L  BY <1>2, <1>7
  <2>2. PICK k \in Pg : \A j \in Pg : j <= k  BY <1>1, <1>12, <2>1, GreatestTransfer
  <2>3. k \in Rem  BY <1>7
  <2>4. k \notin Before(k)  BY <1>1, <1>14, <2>1
  <2>5. Pg \subseteq Before(k) \cup {k}
    <3>1. ASSUME NEW j \in Pg, j # k PROVE j \in Before(k)
      <4>1. j <= k /\ j \in Int /\ k \in Int /\ j \in Rem  BY <1>1, <1>7, <2>1, <2>2
      <4>2. j < k  BY <3>1, <4>1
      <4> QED  BY <1>13, <2>3, <4>1, <4>2
    <3> QED  BY <3>1
  <2>6. /\ IsFiniteSet(Before(k) \cup {k})
        /\ Cardinality(Before(k) \cup {k}) = Cardinality(Before(k)) + 1
    BY <1>9, <2>3, <2>4, FS_AddElement
  <2>7. Cardinality(Pg) <= Cardinality(Before(k) \cup {k})  BY <2>5, <2>6, FS_Subset
  <2>8. Cardinality(Before(k)) < PageLimit  BY <1>3
  <2> QED  BY <1>4, <1>8, <1>9, <2>3, <2>6, <2>7, <2>8
<1> QED  BY <1>2, <1>7, <1>10, <1>11, <1>12 DEF Rem, Pg, L

-----------------------------------------------------------------------------
(* The history of the vault: the invariant.                                *)

Scan == [step : {"none", "cursor", "window", "page", "finish"}, tip : Nat, cursor : Nat,
         start : Nat, after : Nat]

HistoryTypeOK ==
    /\ tip \in Nat /\ oldest \in Nat /\ cursor \in Nat
    /\ ledgerOf \in Seq(Nat)
    /\ scan \in [Scanners -> Scan]

\* Transfers are of ledgers that closed, and so is what has been scanned.
OfClosedLedgers ==
    /\ cursor <= tip
    /\ \A k \in Transfers : ledgerOf[k] <= tip
    /\ \A p \in Scanners : scan[p].tip <= tip

Accounted == activity \cup missed

\* What a scan has left behind it is accounted for: up to the cursor it read, then
\* up to the window, then up to the last page, then up to the tip it read.
Covered(s, k) ==
    \/ s.step \in {"window", "page", "finish"} /\ ledgerOf[k] <= s.cursor
    \/ s.step = "page" /\ ledgerOf[k] <= s.tip /\ (ledgerOf[k] < s.start \/ k <= s.after)
    \/ s.step = "finish" /\ ledgerOf[k] <= s.tip

\* A scan begins behind its tip, and with no page.
ScanBehind(s) ==
    /\ s.step \in {"window", "page", "finish"} => s.cursor < s.tip
    /\ s.step \in {"cursor", "window"} => s.after = 0

ScansCover ==
    \A p \in Scanners :
        /\ ScanBehind(scan[p])
        /\ \A k \in Transfers : Covered(scan[p], k) => k \in Accounted

HistoryInv == HistoryTypeOK /\ OfClosedLedgers /\ ScansCover /\ HistoryIsKept

LEMMA HistoryInvInit == HistoryInit => HistoryInv
  BY DEF HistoryInit, HistoryInv, HistoryTypeOK, OfClosedLedgers, ScansCover, ScanBehind,
         HistoryIsKept, NoScan, Scan, Transfers, Covered

\* A step of one scan: the others cover what they covered.
LEMMA OneScanMoves ==
    ASSUME HistoryInv, NEW p \in Scanners, NEW s \in Scan,
           scan' = [scan EXCEPT ![p] = s],
           UNCHANGED <<tip, oldest, ledgerOf, cursor>>,
           Accounted \subseteq Accounted',
           s.tip <= tip, ScanBehind(s),
           \A k \in Transfers : Covered(s, k) => k \in Accounted'
    PROVE  HistoryInv'
<1>1. HistoryTypeOK /\ OfClosedLedgers /\ ScansCover /\ HistoryIsKept  BY DEF HistoryInv
<1>2. scan' \in [Scanners -> Scan] /\ scan'[p] = s
  BY <1>1 DEF HistoryTypeOK
<1>3. \A q \in Scanners : q # p => scan'[q] = scan[q]  BY <1>1 DEF HistoryTypeOK
<1>4. HistoryTypeOK'  BY <1>1, <1>2 DEF HistoryTypeOK
<1>5. OfClosedLedgers'  BY <1>1, <1>2, <1>3 DEF OfClosedLedgers, Transfers
<1>6. HistoryIsKept'  BY <1>1 DEF HistoryIsKept, Transfers, Accounted
<1>7. ASSUME NEW q \in Scanners
      PROVE  /\ ScanBehind(scan[q])'
             /\ \A k \in Transfers' : Covered(scan[q], k)' => k \in Accounted'
  <2>1. CASE q = p
    BY <1>2, <2>1 DEF ScanBehind, Covered, Transfers
  <2>2. CASE q # p
    <3>1. scan'[q] = scan[q]  BY <1>3, <2>2
    <3>2. /\ ScanBehind(scan[q])
          /\ \A k \in Transfers : Covered(scan[q], k) => k \in Accounted
      BY <1>1 DEF ScansCover
    <3> QED  BY <3>1, <3>2 DEF ScanBehind, Covered, Transfers
  <2> QED  BY <2>1, <2>2
<1>8. ScansCover'  BY <1>7 DEF ScansCover
<1> QED  BY <1>4, <1>5, <1>6, <1>8 DEF HistoryInv

LEMMA HistoryInvNext == HistoryInv /\ [HistoryNext]_historyVars => HistoryInv'
<1> SUFFICES ASSUME HistoryInv, [HistoryNext]_historyVars PROVE HistoryInv'  OBVIOUS
<1>0. /\ HistoryTypeOK /\ OfClosedLedgers /\ ScansCover /\ HistoryIsKept
      /\ tip \in Nat /\ oldest \in Nat /\ cursor \in Nat /\ Margin \in Nat
      /\ ledgerOf \in Seq(Nat)
  BY HistoryAssumption DEF HistoryInv, HistoryTypeOK
<1>s. ASSUME NEW p \in Scanners
      PROVE  /\ scan[p] \in Scan /\ scan[p].tip <= tip /\ ScanBehind(scan[p])
             /\ \A k \in Transfers : Covered(scan[p], k) => k \in Accounted
  BY <1>0 DEF HistoryTypeOK, OfClosedLedgers, ScansCover
<1>l. \A k \in Transfers : ledgerOf[k] \in Nat  BY <1>0 DEF Transfers
<1>1. ASSUME NEW n \in 0..MaxTransfers, Close(n) PROVE HistoryInv'
  <2> DEFINE new == [k \in 1..n |-> tip + 1]
  <2>1. /\ tip' = tip + 1 /\ ledgerOf' = ledgerOf \o new
        /\ UNCHANGED <<oldest, activity, cursor, scan, missed>>
    BY <1>1 DEF Close
  <2>2. n \in Nat  BY HistoryAssumption
  <2>3. new \in Seq(Nat) /\ Len(new) = n  BY <1>0, <2>2
  <2>4. /\ ledgerOf' \in Seq(Nat)
        /\ \A k \in Transfers' : \/ k \in Transfers /\ ledgerOf'[k] = ledgerOf[k]
                              \/ ledgerOf'[k] = tip + 1
    <3>1. Len(ledgerOf') = Len(ledgerOf) + n  BY <1>0, <2>1, <2>3
    <3>2. ASSUME NEW k \in Transfers', k \notin Transfers PROVE ledgerOf'[k] = tip + 1
      <4>1. k \in Len(ledgerOf) + 1 .. Len(ledgerOf) + n
        BY <1>0, <2>1, <2>2, <2>3, <3>1, <3>2 DEF Transfers
      <4>2. ledgerOf'[k] = new[k - Len(ledgerOf)]  BY <1>0, <2>1, <2>2, <2>3, <4>1
      <4>3. k - Len(ledgerOf) \in 1..n  BY <1>0, <2>2, <4>1
      <4> QED  BY <4>2, <4>3
    <3>3. ASSUME NEW k \in Transfers PROVE ledgerOf'[k] = ledgerOf[k]
      BY <1>0, <2>1, <2>3 DEF Transfers
    <3>4. ledgerOf' \in Seq(Nat)  BY <1>0, <2>1, <2>3
    <3> QED  BY <3>2, <3>3, <3>4
  <2> HIDE DEF new
  <2>5. HistoryTypeOK'  BY <1>0, <2>1, <2>4 DEF HistoryTypeOK
  <2>6. OfClosedLedgers'
    <3>1. \A k \in Transfers : ledgerOf[k] <= tip  BY <1>0 DEF OfClosedLedgers
    <3>2. ASSUME NEW k \in Transfers' PROVE ledgerOf'[k] <= tip'
      <4>1. CASE ledgerOf'[k] = tip + 1  BY <1>0, <2>1, <4>1
      <4>2. CASE k \in Transfers /\ ledgerOf'[k] = ledgerOf[k]
        <5>1. ledgerOf[k] \in Nat /\ ledgerOf[k] <= tip  BY <1>l, <3>1, <4>2
        <5> QED  BY <1>0, <2>1, <4>2, <5>1
      <4> QED  BY <2>4, <4>1, <4>2
    <3>3. ASSUME NEW p \in Scanners PROVE scan'[p].tip <= tip'
      <4>1. scan[p].tip \in Nat /\ scan[p].tip <= tip  BY <1>s DEF Scan
      <4> QED  BY <1>0, <2>1, <4>1
    <3>4. cursor' <= tip'
      <4>1. cursor <= tip  BY <1>0 DEF OfClosedLedgers
      <4> QED  BY <1>0, <2>1, <4>1
    <3> QED  BY <3>2, <3>3, <3>4 DEF OfClosedLedgers
  <2>7. HistoryIsKept'
    <3>1. ASSUME NEW k \in Transfers', ledgerOf'[k] <= cursor' PROVE k \in activity' \cup missed'
      <4>1. cursor <= tip  BY <1>0 DEF OfClosedLedgers
      <4>2. ledgerOf'[k] # tip + 1
        <5>1. cursor' = cursor  BY <2>1
        <5>2. ~(tip + 1 <= cursor)  BY <1>0, <4>1
        <5> QED  BY <3>1, <5>1, <5>2
      <4>3. k \in Transfers /\ ledgerOf[k] <= cursor  BY <2>1, <2>4, <3>1, <4>2
      <4>4. k \in activity \cup missed  BY <1>0, <4>3 DEF HistoryIsKept
      <4> QED  BY <2>1, <4>4
    <3> QED  BY <3>1 DEF HistoryIsKept
  <2>8. ASSUME NEW p \in Scanners, NEW k \in Transfers', Covered(scan[p], k)'
        PROVE  k \in Accounted'
    <3>1. /\ scan[p] \in Scan /\ scan[p].tip <= tip /\ ScanBehind(scan[p])
          /\ scan'[p] = scan[p]
      BY <1>s, <2>1
    <3>2. scan[p].tip \in Nat /\ scan[p].cursor \in Nat  BY <3>1 DEF Scan
    <3>3. CASE ledgerOf'[k] = tip + 1
      <4>1. ~(ledgerOf'[k] <= scan[p].tip)  BY <1>0, <3>1, <3>2, <3>3
      <4>2. scan[p].step \in {"window", "page", "finish"} => ~(ledgerOf'[k] <= scan[p].cursor)
        BY <1>0, <3>1, <3>2, <3>3 DEF ScanBehind
      <4> QED  BY <2>8, <3>1, <4>1, <4>2 DEF Covered
    <3>4. CASE k \in Transfers /\ ledgerOf'[k] = ledgerOf[k]
      <4>1. Covered(scan[p], k)  BY <2>8, <3>1, <3>4 DEF Covered
      <4>2. k \in Accounted  BY <1>s, <3>4, <4>1
      <4> QED  BY <2>1, <4>2 DEF Accounted
    <3> QED  BY <2>4, <3>3, <3>4
  <2>9. ScansCover'  BY <1>0, <2>1, <2>8 DEF ScansCover, ScanBehind
  <2> QED  BY <2>5, <2>6, <2>7, <2>9 DEF HistoryInv
<1>2. ASSUME Prune PROVE HistoryInv'
  <2>1. oldest' \in Nat /\ UNCHANGED <<tip, ledgerOf, activity, cursor, scan, missed>>
    BY <1>0, <1>2 DEF Prune
  <2> QED
    BY <1>0, <2>1 DEF HistoryInv, HistoryTypeOK, OfClosedLedgers, ScansCover, ScanBehind,
                      Covered, Accounted, HistoryIsKept, Transfers
<1>3. ASSUME NEW p \in Scanners, ReadTip(p) PROVE HistoryInv'
  <2> DEFINE s == [NoScan EXCEPT !.step = "cursor", !.tip = tip]
  <2>4. NoScan \in Scan /\ NoScan.after = 0  BY DEF NoScan, Scan
  <2>1. s \in Scan /\ s.tip <= tip /\ s.step = "cursor" /\ s.after = 0
    <3>1. s \in Scan  BY <1>0, <2>4 DEF Scan
    <3>2. s.step = "cursor" /\ s.tip = tip /\ s.after = NoScan.after  BY <2>4 DEF Scan
    <3> HIDE DEF s
    <3> QED  BY <1>0, <2>4, <3>1, <3>2
  <2>2. /\ scan' = [scan EXCEPT ![p] = s]
        /\ UNCHANGED <<tip, oldest, ledgerOf, activity, cursor, missed>>
    BY <1>3 DEF ReadTip
  <2> HIDE DEF s
  <2>3. ScanBehind(s) /\ \A k \in Transfers : ~Covered(s, k)  BY <2>1 DEF ScanBehind, Covered
  <2> QED  BY <2>1, <2>2, <2>3, OneScanMoves DEF Accounted
<1>n. ASSUME NEW p \in Scanners, scan' = [scan EXCEPT ![p] = NoScan],
             UNCHANGED <<tip, oldest, ledgerOf, activity, cursor, missed>>
      PROVE  HistoryInv'
  <2>1. NoScan \in Scan /\ NoScan.tip <= tip /\ NoScan.step = "none"  BY <1>0 DEF NoScan, Scan
  <2>2. ScanBehind(NoScan) /\ \A k \in Transfers : ~Covered(NoScan, k)
    BY <2>1 DEF ScanBehind, Covered
  <2> QED  BY <1>n, <2>1, <2>2, OneScanMoves DEF Accounted
<1>4. ASSUME NEW p \in Scanners, ReadCursor(p) PROVE HistoryInv'
  <2>1. CASE cursor >= scan[p].tip
    BY <1>4, <1>n, <2>1 DEF ReadCursor
  <2>2. CASE ~(cursor >= scan[p].tip)
    <3> DEFINE s == [scan[p] EXCEPT !.step = "window", !.cursor = cursor]
    <3>1. /\ s \in Scan /\ s.tip = scan[p].tip /\ s.cursor = cursor /\ s.step = "window"
      BY <1>0, <1>s DEF Scan
    <3>2. /\ scan' = [scan EXCEPT ![p] = s]
          /\ UNCHANGED <<tip, oldest, ledgerOf, activity, cursor, missed>>
      BY <1>4, <2>2 DEF ReadCursor
    <3>3. scan[p].tip \in Nat /\ scan[p].tip <= tip  BY <1>s DEF Scan
    <3>6. s.after = 0  BY <1>4, <1>s DEF ReadCursor, ScanBehind, Scan
    <3> HIDE DEF s
    <3>4. ScanBehind(s)  BY <1>0, <2>2, <3>1, <3>3, <3>6 DEF ScanBehind
    <3>5. \A k \in Transfers : Covered(s, k) => k \in Accounted
      BY <1>0, <3>1 DEF Covered, HistoryIsKept, Accounted
    <3> QED  BY <3>1, <3>2, <3>3, <3>4, <3>5, OneScanMoves DEF Accounted
  <2> QED  BY <2>1, <2>2
<1>5. ASSUME NEW p \in Scanners, ReadWindow(p) PROVE HistoryInv'
  <2> DEFINE s == [scan[p] EXCEPT !.step = "page", !.start = FirstLedger(scan[p])]
  <2>0. scan[p].cursor \in Nat /\ scan[p].step = "window" /\ scan[p] \in Scan
    BY <1>5, <1>s DEF Scan, ReadWindow
  <2>1. /\ FirstLedger(scan[p]) \in Nat
        /\ \/ FirstLedger(scan[p]) = scan[p].cursor + 1
           \/ FirstLedger(scan[p]) = oldest + Margin
    BY <1>0, <2>0 DEF FirstLedger
  <2>2. /\ s \in Scan /\ s.tip = scan[p].tip /\ s.cursor = scan[p].cursor /\ s.step = "page"
        /\ s.start = FirstLedger(scan[p]) /\ s.after = scan[p].after
    BY <2>0, <2>1 DEF Scan
  <2>3. /\ scan' = [scan EXCEPT ![p] = s]
        /\ missed' = missed \cup {k \in Transfers : ledgerOf[k] > scan[p].cursor
                                                      /\ ledgerOf[k] < oldest + Margin}
        /\ UNCHANGED <<tip, oldest, ledgerOf, activity, cursor>>
    BY <1>5 DEF ReadWindow
  <2> HIDE DEF s
  <2>4. scan[p].tip <= tip /\ ScanBehind(s)  BY <1>s, <2>0, <2>2 DEF ScanBehind
  <2>5. ASSUME NEW k \in Transfers, Covered(s, k) PROVE k \in Accounted'
    <3>1. CASE ledgerOf[k] <= scan[p].cursor
      <4>1. k \in Accounted  BY <1>s, <2>0, <3>1 DEF Covered
      <4> QED  BY <2>3, <4>1 DEF Accounted
    <3>2. CASE ~(ledgerOf[k] <= scan[p].cursor) /\ ledgerOf[k] < s.start
      <4>1. ledgerOf[k] > scan[p].cursor /\ ledgerOf[k] < oldest + Margin
        BY <1>0, <1>l, <2>0, <2>1, <2>2, <3>2
      <4> QED  BY <2>3, <4>1 DEF Accounted
    <3>3. s.after = 0 /\ ~(k <= 0)
      BY <1>0, <1>s, <2>0, <2>2 DEF ScanBehind, Transfers
    <3> QED  BY <2>2, <2>5, <3>1, <3>2, <3>3 DEF Covered
  <2>6. Accounted \subseteq Accounted'  BY <2>3 DEF Accounted
  <2> QED  BY <2>2, <2>3, <2>4, <2>5, <2>6, OneScanMoves

<1>6. ASSUME NEW p \in Scanners, NEW unconfirmed \in SUBSET PageOf(scan[p]),
             Page(p, unconfirmed)
      PROVE  HistoryInv'
  <2> DEFINE s == scan[p]
             found == PageOf(scan[p])
             cut == IF Cardinality(found) = PageLimit /\ \E k \in found : ledgerOf[k] = s.tip
                    THEN Remaining(s) \ found ELSE {}
             largest == CHOOSE k \in found : \A j \in found : j <= k
  <2>0. s \in Scan /\ s.tip <= tip /\ ScanBehind(s)  BY <1>s
  <2>1. /\ s.step = "page" /\ unconfirmed \subseteq found
        /\ activity' = activity \cup (found \ unconfirmed)
        /\ missed' = missed \cup unconfirmed \cup cut
        /\ scan' = IF IsLastPage(s) THEN [scan EXCEPT ![p].step = "finish"]
                   ELSE [scan EXCEPT ![p].after = largest]
        /\ UNCHANGED <<tip, oldest, ledgerOf, cursor>>
    BY <1>6 DEF Page
  <2>2. /\ Remaining(s) \subseteq 1..Len(ledgerOf) /\ found \subseteq Remaining(s)
        /\ \A j \in Remaining(s), k \in found : j < k => j \in found
        /\ Cardinality(found) < PageLimit => found = Remaining(s)
        /\ found # {} => Cardinality(found) <= PageLimit
    BY <1>0, PageFacts
  <2>3. found \subseteq Accounted' /\ cut \subseteq Accounted' /\ Accounted \subseteq Accounted'
    BY <2>1 DEF Accounted
  \* What is not left of the range, and of closed ledgers, is accounted for.
  <2>4. ASSUME NEW k \in Transfers, ledgerOf[k] <= s.tip, k \notin Remaining(s)
        PROVE  k \in Accounted
    <3>1. /\ k \in Nat /\ ledgerOf[k] \in Nat
          /\ s.start \in Nat /\ s.after \in Nat /\ s.tip \in Nat
      BY <1>0, <1>l, <2>0 DEF Scan, Transfers
    <3>2. ledgerOf[k] < s.start \/ k <= s.after  BY <2>4, <3>1 DEF Remaining
    <3>3. Covered(s, k)  BY <2>1, <2>4, <3>2 DEF Covered
    <3> QED  BY <1>s, <3>3
  <2>5. ASSUME NEW k \in Transfers,
               s.step \in {"window", "page", "finish"} /\ ledgerOf[k] <= s.cursor
        PROVE  k \in Accounted'
    <3>1. k \in Accounted  BY <1>s, <2>5 DEF Covered
    <3> QED  BY <2>3, <3>1
  <2>6. Cardinality(found) \in Nat /\ Len(ledgerOf) \in Nat /\ PageLimit \in Nat \ {0}
    <3>1. IsFiniteSet(1..Len(ledgerOf)) /\ Len(ledgerOf) \in Nat  BY <1>0, FS_Interval
    <3>2. found \subseteq 1..Len(ledgerOf)  BY <2>2
    <3> QED  BY <3>1, <3>2, FS_Subset, FS_CardinalityType, HistoryAssumption
  <2>7. CASE IsLastPage(s)
    <3> DEFINE t == [s EXCEPT !.step = "finish"]
    <3>1. /\ t \in Scan /\ t.tip = s.tip /\ t.cursor = s.cursor /\ t.step = "finish"
          /\ scan' = [scan EXCEPT ![p] = t]
      BY <2>0, <2>1, <2>7 DEF Scan
    <3> HIDE DEF t
    <3>2. ScanBehind(t)  BY <2>0, <2>1, <3>1 DEF ScanBehind
    <3>3. Remaining(s) \subseteq found \cup cut
      <4>1. CASE Cardinality(found) < PageLimit  BY <2>2, <4>1
      <4>2. CASE ~(Cardinality(found) < PageLimit)
        <5>1. \E k \in found : ledgerOf[k] = s.tip  BY <2>7, <4>2 DEF IsLastPage
        <5>2. Cardinality(found) = PageLimit  BY <2>2, <2>6, <4>2, <5>1
        <5> QED  BY <5>1, <5>2
      <4> QED  BY <4>1, <4>2
    <3> HIDE DEF cut, found, s
    <3>4. ASSUME NEW k \in Transfers, Covered(t, k) PROVE k \in Accounted'
      <4>1. CASE ledgerOf[k] <= s.tip
        <5>1. CASE k \in Remaining(s)  BY <2>3, <3>3, <5>1
        <5>2. CASE k \notin Remaining(s)  BY <2>3, <2>4, <4>1, <5>2
        <5> QED  BY <5>1, <5>2
      <4>2. CASE ~(ledgerOf[k] <= s.tip)
        <5>1. ledgerOf[k] <= s.cursor  BY <3>1, <3>4, <4>2 DEF Covered
        <5> QED  BY <2>1, <2>5, <5>1
      <4> QED  BY <4>1, <4>2
    <3> QED  BY <2>0, <2>1, <2>3, <3>1, <3>2, <3>4, OneScanMoves
  <2>8. CASE ~IsLastPage(s)
    <3> DEFINE t == [s EXCEPT !.after = largest]
    <3>1. found # {} /\ found \subseteq 1..Len(ledgerOf)
      <4>1. ~(Cardinality(found) < PageLimit)  BY <2>8 DEF IsLastPage
      <4>2. Cardinality({}) = 0  BY FS_EmptySet
      <4> QED  BY <2>2, <2>6, <4>1, <4>2
    <3>2. largest \in found /\ \A j \in found : j <= largest
      <4> HIDE DEF found
      <4> QED  BY <2>6, <3>1, GreatestTransfer
    <3> HIDE DEF largest
    <3>3. /\ t \in Scan /\ t.tip = s.tip /\ t.cursor = s.cursor /\ t.step = "page"
          /\ t.start = s.start /\ t.after = largest
          /\ scan' = [scan EXCEPT ![p] = t]
      <4>1. largest \in Nat  BY <2>6, <3>1, <3>2
      <4> QED  BY <2>0, <2>1, <2>8, <4>1 DEF Scan
    <3> HIDE DEF t
    <3>4. ScanBehind(t)  BY <2>0, <2>1, <3>3 DEF ScanBehind
    <3>5. ASSUME NEW k \in Transfers, Covered(t, k) PROVE k \in Accounted'
      <4>1. CASE ledgerOf[k] <= s.tip /\ k \notin Remaining(s)
        BY <2>3, <2>4, <4>1
      <4>2. CASE k \in Remaining(s)
        <5>1. /\ k \in Nat /\ largest \in Nat /\ ledgerOf[k] >= s.start
              /\ s.start \in Nat /\ ledgerOf[k] \in Nat
          BY <1>0, <1>l, <2>0, <2>6, <3>1, <3>2, <4>2, SMTT(30) DEF Remaining, Transfers, Scan
        <5>2. CASE k <= largest
          <6>1. k \in found  BY <2>2, <3>2, <4>2, <5>1, <5>2
          <6> QED  BY <2>3, <6>1
        <5>3. CASE ~(k <= largest)
          <6>1. ledgerOf[k] <= s.cursor  BY <3>3, <3>5, <5>1, <5>3 DEF Covered
          <6> QED  BY <2>1, <2>5, <6>1
        <5> QED  BY <5>2, <5>3
      <4>3. CASE ~(ledgerOf[k] <= s.tip)
        <5>1. ledgerOf[k] <= s.cursor  BY <3>3, <3>5, <4>3 DEF Covered
        <5> QED  BY <2>1, <2>5, <5>1
      <4> QED  BY <4>1, <4>2, <4>3
    <3> QED  BY <2>0, <2>1, <2>3, <3>3, <3>4, <3>5, OneScanMoves
  <2> QED  BY <2>7, <2>8
<1>7. ASSUME NEW p \in Scanners, Finish(p) PROVE HistoryInv'
  <2>1. /\ scan[p].step = "finish" /\ cursor' = scan[p].tip
        /\ scan' = [scan EXCEPT ![p] = NoScan]
        /\ UNCHANGED <<tip, oldest, ledgerOf, activity, missed>>
    BY <1>7 DEF Finish
  <2>2. scan[p].tip \in Nat /\ scan[p].tip <= tip  BY <1>s DEF Scan
  <2>3. NoScan \in Scan /\ NoScan.tip = 0 /\ NoScan.step = "none"  BY DEF NoScan, Scan
  <2>4. ASSUME NEW q \in Scanners PROVE scan'[q] \in {scan[q], NoScan}
    BY <1>0, <2>1 DEF HistoryTypeOK
  <2>5. HistoryTypeOK'  BY <1>0, <2>1, <2>2, <2>3 DEF HistoryTypeOK
  <2>6. OfClosedLedgers'
    BY <1>0, <1>s, <2>1, <2>2, <2>3, <2>4 DEF OfClosedLedgers, Transfers
  <2>7. \A k \in Transfers : ledgerOf[k] <= scan[p].tip => k \in Accounted
    BY <1>s, <2>1 DEF Covered
  <2>8. HistoryIsKept'  BY <2>1, <2>7 DEF HistoryIsKept, Transfers, Accounted
  <2>9. ASSUME NEW q \in Scanners
        PROVE  /\ ScanBehind(scan[q])'
               /\ \A k \in Transfers' : Covered(scan[q], k)' => k \in Accounted'
    <3>1. CASE scan'[q] = NoScan
      BY <2>3, <3>1 DEF ScanBehind, Covered
    <3>2. CASE scan'[q] = scan[q]
      BY <1>s, <2>1, <3>2 DEF ScanBehind, Covered, Transfers, Accounted
    <3> QED  BY <2>4, <3>1, <3>2
  <2>10. ScansCover'  BY <2>9 DEF ScansCover
  <2> QED  BY <2>5, <2>6, <2>8, <2>10 DEF HistoryInv
<1>8. ASSUME NEW p \in Scanners, QueryFails(p) PROVE HistoryInv'
  BY <1>8, <1>n DEF QueryFails
<1>9. ASSUME UNCHANGED historyVars PROVE HistoryInv'
  BY <1>0, <1>9 DEF historyVars, HistoryInv, HistoryTypeOK, OfClosedLedgers, ScansCover,
                    ScanBehind, Covered, Accounted, HistoryIsKept, Transfers
<1> QED
  BY <1>1, <1>2, <1>3, <1>4, <1>5, <1>6, <1>7, <1>8, <1>9 DEF HistoryNext

\* HistoryIsKept: whatever fails and however many processes scan, the cursor passes
\* no transfer but those the code lets go.
THEOREM HistoryStaysKept == HistorySpec => []HistoryIsKept
<1>1. HistoryInv => HistoryIsKept  BY DEF HistoryInv
<1> QED  BY <1>1, HistoryInvInit, HistoryInvNext, PTL DEF HistorySpec

-----------------------------------------------------------------------------
(* The batch executor.  The store takes over what the chain has, and what  *)
(* the chain has of an order does not change back.  What the proof needs   *)
(* beside StoreFollowsChain is what a settlement that landed left on the   *)
(* chain, and that a run commits only a settlement it has seen there.      *)

\* The fields of stores, registered intents and runs.
StoreShaped(st) ==
    /\ DOMAIN st = {"orders", "positions", "settled", "spent"}
    /\ \A c \in Known(st) :
          DOMAIN st.orders[c] = {"market", "terms", "sequence", "status", "residual"}

RunShaped(r) == DOMAIN r = {"step", "batch", "root", "chosen", "settlement"}

PartsShaped ==
    /\ StoreShaped(store) /\ StoreShaped(saved)
    /\ \A c \in DOMAIN registry : DOMAIN registry[c] = {"status", "sequence"}
    /\ DOMAIN run = Markets /\ \A m \in Markets : RunShaped(run[m])

\* A settlement that landed filled its orders and registered its residuals.
LandedIsRegistered ==
    \A s \in landed :
        /\ \A c \in DOMAIN s.updates : c \in DOMAIN registry /\ registry[c].status = "filled"
        /\ \A c \in DOMAIN s.residuals :
              c \in DOMAIN registry /\ registry[c].sequence = s.residuals[c].sequence

CommitsLanded(r) == r.step = "committing" => r.settlement \in landed

PipelineInv ==
    /\ PartsShaped /\ LandedIsRegistered /\ StoreFollowsChain
    /\ \A m \in Markets : CommitsLanded(run[m])

\* What the chain has decided of an intent stays.
ChainGoesOn ==
    /\ landed \subseteq landed'
    /\ \A c \in DOMAIN registry :
          /\ c \in DOMAIN registry' /\ registry'[c].sequence = registry[c].sequence
          /\ registry[c].status \in {"filled", "cancelled"} =>
                registry'[c].status = registry[c].status

LEMMA StoresFollowOn ==
    ASSUME ChainGoesOn, NEW st, FollowsChain(st)
    PROVE  FollowsChain(st)'
<1>1. st.settled \subseteq {s.batch : s \in landed'}
  BY DEF FollowsChain, ChainGoesOn
<1>2. ASSUME NEW c \in Known(st)
      PROVE  /\ c \in DOMAIN registry'
             /\ st.orders[c].status = "cancelled" => registry'[c].status = "cancelled"
             /\ st.orders[c].status \in {"filled", "partially-filled"} => registry'[c].status = "filled"
             /\ st.orders[c].sequence = registry'[c].sequence
  BY DEF FollowsChain, ChainGoesOn
<1> QED BY <1>1, <1>2 DEF FollowsChain, Known

\* A step of a run on its own.
LEMMA RunsGoOn ==
    ASSUME PipelineInv, UNCHANGED <<store, saved, registry, landed>>,
           DOMAIN run' = Markets, \A m \in Markets : RunShaped(run'[m]) /\ CommitsLanded(run'[m])
    PROVE  PipelineInv'
<1>1. FollowsChain(store)' /\ FollowsChain(saved)'
  BY DEF PipelineInv, StoreFollowsChain, FollowsChain, Known
<1>2. PartsShaped'
  BY DEF PipelineInv, PartsShaped, StoreShaped, RunShaped, Known
<1>3. LandedIsRegistered' /\ \A m \in Markets : CommitsLanded(run[m])'
  BY DEF PipelineInv, LandedIsRegistered, CommitsLanded
<1> QED BY <1>1, <1>2, <1>3 DEF PipelineInv, StoreFollowsChain

\* One run goes to another step, or ends.
LEMMA RunAdvances ==
    ASSUME PipelineInv, UNCHANGED <<store, saved, registry, landed>>, NEW m \in Markets, NEW r,
           run' = [run EXCEPT ![m] = r], RunShaped(r), CommitsLanded(r)
    PROVE  PipelineInv'
<1>1. /\ DOMAIN run' = Markets /\ run'[m] = r
      /\ \A n \in Markets \ {m} : run'[n] = run[n]
  BY DEF PipelineInv, PartsShaped
<1>2. \A n \in Markets : RunShaped(run[n]) /\ CommitsLanded(run[n])
  BY DEF PipelineInv, PartsShaped
<1>3. \A n \in Markets : RunShaped(run'[n]) /\ CommitsLanded(run'[n])
  BY <1>1, <1>2
<1> QED BY <1>1, <1>3, RunsGoOn

LEMMA RestingOK ==
    RunShaped(Resting) /\ CommitsLanded(Resting)
BY DEF RunShaped, CommitsLanded, Resting

LEMMA RunEnds ==
    ASSUME PipelineInv, UNCHANGED <<store, saved, registry, landed>>, NEW m \in Markets, End(m)
    PROVE  PipelineInv'
BY RestingOK, RunAdvances DEF End

LEMMA RunStepsOn ==
    ASSUME PipelineInv, UNCHANGED <<store, saved, registry, landed>>, NEW m \in Markets,
           NEW step, Advance(m, step), step = "committing" => run[m].settlement \in landed
    PROVE  PipelineInv'
<1>1. PICK r : r = [run[m] EXCEPT !.step = step]
  OBVIOUS
<1>2. RunShaped(run[m]) /\ DOMAIN run = Markets
  BY DEF PipelineInv, PartsShaped
<1>3. RunShaped(r) /\ r.step = step /\ r.settlement = run[m].settlement
  BY <1>1, <1>2 DEF RunShaped
<1>4. run' = [run EXCEPT ![m] = r]
  BY <1>1, <1>2 DEF Advance
<1> QED BY <1>3, <1>4, RunAdvances DEF CommitsLanded


\* Every step of the executor but the commit.
LEMMA ExecutorSteps ==
    ASSUME PipelineInv
    PROVE  /\ Tick => PipelineInv'
           /\ \A m \in Markets :
                 /\ AskRoot(m) \/ RootAnswers(m) \/ ChooseOrders(m) \/ MatchOrders(m) => PipelineInv'
                 /\ ProofIsMade(m) \/ AssertOrdersActive(m) \/ SettledAnswers(m) => PipelineInv'
                 /\ SendSettlement(m) \/ RelayReports(m) \/ RelayIsRefused(m) => PipelineInv'
                 /\ ConfirmSettlement(m) \/ FinalizeSettlement(m) \/ StepFails(m) => PipelineInv'
<1>0. DOMAIN run = Markets /\ \A m \in Markets : RunShaped(run[m]) /\ CommitsLanded(run[m])
  BY DEF PipelineInv, PartsShaped
<1>1. ASSUME Tick PROVE PipelineInv'
  <2>1. /\ UNCHANGED <<store, saved, registry, landed>>
        /\ run' = [m \in Markets |-> IF m \in MarketsToRun
                                     THEN [Resting EXCEPT !.step = "starting", !.batch = BatchId(m)]
                                     ELSE run[m]]
    BY <1>1 DEF Tick, executorFrame
  <2>2. ASSUME NEW m \in Markets PROVE RunShaped(run'[m]) /\ CommitsLanded(run'[m])
    <3>1. PICK r : r = [Resting EXCEPT !.step = "starting", !.batch = BatchId(m)]
      OBVIOUS
    <3>2. RunShaped(r) /\ CommitsLanded(r)
      BY <3>1 DEF RunShaped, CommitsLanded, Resting
    <3> QED BY <1>0, <2>1, <3>1, <3>2
  <2> QED BY <2>1, <2>2, RunsGoOn
<1> SUFFICES ASSUME NEW m \in Markets
    PROVE /\ AskRoot(m) \/ RootAnswers(m) \/ ChooseOrders(m) \/ MatchOrders(m) => PipelineInv'
          /\ ProofIsMade(m) \/ AssertOrdersActive(m) \/ SettledAnswers(m) => PipelineInv'
          /\ SendSettlement(m) \/ RelayReports(m) \/ RelayIsRefused(m) => PipelineInv'
          /\ ConfirmSettlement(m) \/ FinalizeSettlement(m) \/ StepFails(m) => PipelineInv'
  BY <1>1
<1>2. ASSUME NEW step, NEW root, step # "committing", UNCHANGED <<store, saved, registry, landed>>,
             run' = [run EXCEPT ![m].step = step, ![m].root = root]
      PROVE  PipelineInv'
  <2>1. PICK r : r = [run[m] EXCEPT !.step = step, !.root = root]
    OBVIOUS
  <2>2. RunShaped(r) /\ r.step = step
    BY <1>0, <2>1 DEF RunShaped
  <2>3. run' = [run EXCEPT ![m] = r]
    BY <1>0, <1>2, <2>1
  <2> QED BY <1>2, <2>2, <2>3, RunAdvances DEF CommitsLanded
<1>3. ASSUME NEW chosen, UNCHANGED <<store, saved, registry, landed>>,
             run' = [run EXCEPT ![m].step = "chosen", ![m].chosen = chosen]
      PROVE  PipelineInv'
  <2>1. PICK r : r = [run[m] EXCEPT !.step = "chosen", !.chosen = chosen]
    OBVIOUS
  <2>2. RunShaped(r) /\ r.step = "chosen"
    BY <1>0, <2>1 DEF RunShaped
  <2>3. run' = [run EXCEPT ![m] = r]
    BY <1>0, <1>3, <2>1
  <2> QED BY <1>3, <2>2, <2>3, RunAdvances DEF CommitsLanded
<1>4. ASSUME NEW settlement, UNCHANGED <<store, saved, registry, landed>>,
             run' = [run EXCEPT ![m].step = "proving", ![m].settlement = settlement]
      PROVE  PipelineInv'
  <2>1. PICK r : r = [run[m] EXCEPT !.step = "proving", !.settlement = settlement]
    OBVIOUS
  <2>2. RunShaped(r) /\ r.step = "proving"
    BY <1>0, <2>1 DEF RunShaped
  <2>3. run' = [run EXCEPT ![m] = r]
    BY <1>0, <1>4, <2>1
  <2> QED BY <1>4, <2>2, <2>3, RunAdvances DEF CommitsLanded
<1>5. ASSUME AskRoot(m) PROVE PipelineInv'
  BY <1>2, <1>5 DEF AskRoot, executorFrame
<1>6. ASSUME RootAnswers(m) PROVE PipelineInv'
  BY <1>6, RunStepsOn, RunEnds DEF RootAnswers, Fail, executorFrame
<1>7. ASSUME ChooseOrders(m) PROVE PipelineInv'
  <2>1. UNCHANGED <<store, saved, registry, landed>>
    BY <1>7 DEF ChooseOrders, Fail, executorFrame
  <2>2. End(m) \/ \E chosen : run' = [run EXCEPT ![m].step = "chosen", ![m].chosen = chosen]
    BY <1>7 DEF ChooseOrders, Fail
  <2> QED BY <1>3, <2>1, <2>2, RunEnds
<1>8. ASSUME MatchOrders(m) PROVE PipelineInv'
  <2>1. PICK ids : CASE ids = <<>> -> End(m) /\ UNCHANGED <<store, saved, cooling, inFlight, executorFrame>>
                     [] ids # <<>> /\ Refusal(BookOf(store, ids)) # "" -> Fail(m)
                     [] OTHER ->
                          /\ run' = [run EXCEPT ![m].step = "proving",
                                       ![m].settlement = SettlementOf(store, m, run[m].batch, ids)]
                          /\ UNCHANGED <<store, saved, cooling, inFlight, executorFrame>>
    BY <1>8 DEF MatchOrders
  <2>2. UNCHANGED <<store, saved, registry, landed>>
    BY <2>1 DEF Fail, executorFrame
  <2>3. End(m) \/ \E settlement : run' = [run EXCEPT ![m].step = "proving", ![m].settlement = settlement]
    BY <2>1 DEF Fail
  <2> QED BY <1>4, <2>2, <2>3, RunEnds
<1>9. ASSUME ProofIsMade(m) PROVE PipelineInv'
  BY <1>9, RunStepsOn DEF ProofIsMade, executorFrame
<1>10. ASSUME AssertOrdersActive(m) PROVE PipelineInv'
  BY <1>10, RunStepsOn, RunEnds DEF AssertOrdersActive, Skip, executorFrame
<1>11. ASSUME SettledAnswers(m) PROVE PipelineInv'
  BY <1>11, RunStepsOn DEF SettledAnswers, IsSettledOnchain, executorFrame
<1>12. ASSUME SendSettlement(m) \/ RelayReports(m) PROVE PipelineInv'
  BY <1>12, RunStepsOn DEF SendSettlement, RelayReports, executorFrame
<1>13. ASSUME RelayIsRefused(m) PROVE PipelineInv'
  BY <1>13, RunEnds DEF RelayIsRefused, executorFrame
<1>14. ASSUME ConfirmSettlement(m) PROVE PipelineInv'
  BY <1>14, RunStepsOn, RunEnds DEF ConfirmSettlement, IsSettledOnchain, Fail, executorFrame
<1>15. ASSUME FinalizeSettlement(m) \/ StepFails(m) PROVE PipelineInv'
  BY <1>15, RunEnds DEF FinalizeSettlement, StepFails, Skip, Fail, executorFrame
<1> QED BY <1>5, <1>6, <1>7, <1>8, <1>9, <1>10, <1>11, <1>12, <1>13, <1>14, <1>15

-----------------------------------------------------------------------------
(* Requests, landings and commits.                                         *)

\* The invariant from its parts, of a step that leaves the runs alone.
LEMMA ChainAndStoreMove ==
    ASSUME PipelineInv, UNCHANGED run, landed \subseteq landed', PartsShaped', LandedIsRegistered',
           FollowsChain(store)', FollowsChain(saved)'
    PROVE  PipelineInv'
BY DEF PipelineInv, StoreFollowsChain, CommitsLanded

\* A settlement lands.
LEMMA SettlementsLand ==
    ASSUME PipelineInv, NEW s, TransactionLands(s)
    PROVE  PipelineInv'
<1>0. PartsShaped /\ LandedIsRegistered /\ FollowsChain(store) /\ FollowsChain(saved)
  BY DEF PipelineInv, StoreFollowsChain
<1>1. /\ UNCHANGED <<store, saved, run>> /\ landed' = landed \cup {s}
      /\ \A c \in DOMAIN s.updates : c \in DOMAIN registry /\ registry[c].status = "active"
      /\ DOMAIN s.residuals \cap DOMAIN registry = {}
  BY DEF TransactionLands, ChainAccepts, IsActiveIntent
<1>2. registry' = [c \in DOMAIN registry \cup DOMAIN s.residuals |->
                    CASE c \in DOMAIN s.updates -> [registry[c] EXCEPT !.status = "filled"]
                      [] c \in DOMAIN s.residuals -> [status |-> "active", sequence |-> s.residuals[c].sequence]
                      [] OTHER -> registry[c]]
  BY DEF TransactionLands
<1>3. DOMAIN registry' = DOMAIN registry \cup DOMAIN s.residuals
  BY <1>2
<1>4. ASSUME NEW c \in DOMAIN s.updates
      PROVE  /\ c \in DOMAIN registry' /\ registry'[c].status = "filled"
             /\ registry'[c].sequence = registry[c].sequence /\ DOMAIN registry'[c] = {"status", "sequence"}
  <2>1. registry'[c] = [registry[c] EXCEPT !.status = "filled"] /\ c \in DOMAIN registry
    BY <1>1, <1>2
  <2>2. DOMAIN registry[c] = {"status", "sequence"}
    BY <1>0, <2>1 DEF PartsShaped
  <2> QED BY <1>3, <2>1, <2>2
<1>5. ASSUME NEW c \in DOMAIN s.residuals
      PROVE  /\ c \in DOMAIN registry' /\ DOMAIN registry'[c] = {"status", "sequence"}
             /\ registry'[c].sequence = s.residuals[c].sequence
  <2>1. c \notin DOMAIN s.updates
    BY <1>1
  <2>2. registry'[c] = [status |-> "active", sequence |-> s.residuals[c].sequence]
    BY <1>2, <2>1
  <2> QED BY <1>3, <2>2
<1>6. ASSUME NEW c \in DOMAIN registry, c \notin DOMAIN s.updates
      PROVE  registry'[c] = registry[c]
  <2>1. c \notin DOMAIN s.residuals
    BY <1>1
  <2> QED BY <1>2, <1>6, <2>1
<1>7. ChainGoesOn
  <2>1. ASSUME NEW c \in DOMAIN registry
        PROVE  /\ c \in DOMAIN registry' /\ registry'[c].sequence = registry[c].sequence
               /\ registry[c].status \in {"filled", "cancelled"} => registry'[c].status = registry[c].status
    <3>1. CASE c \in DOMAIN s.updates
      BY <1>1, <1>4, <3>1
    <3>2. CASE c \notin DOMAIN s.updates
      BY <1>3, <1>6, <3>2
    <3> QED BY <3>1, <3>2
  <2> QED BY <1>1, <2>1 DEF ChainGoesOn
<1>8. PartsShaped'
  <2>1. \A c \in DOMAIN registry' : DOMAIN registry'[c] = {"status", "sequence"}
    BY <1>0, <1>3, <1>4, <1>5, <1>6 DEF PartsShaped
  <2> QED BY <1>0, <1>1, <2>1 DEF PartsShaped, StoreShaped, Known, RunShaped
<1>9. LandedIsRegistered'
  <2>1. \A t \in landed' : t \in landed \/ t = s
    BY <1>1
  <2> QED BY <1>0, <1>4, <1>5, <1>7, <2>1 DEF LandedIsRegistered, ChainGoesOn
<1>10. FollowsChain(store)' /\ FollowsChain(saved)'
  <2>1. PICK a, b : a = store /\ b = saved
    OBVIOUS
  <2>2. FollowsChain(a)' /\ FollowsChain(b)'
    BY <1>0, <1>7, <2>1, StoresFollowOn
  <2> QED BY <1>1, <2>1, <2>2 DEF FollowsChain, Known
<1> QED BY <1>1, <1>8, <1>9, <1>10, ChainAndStoreMove

\* A settlement that landed is committed.
LEMMA SettlementsAreCommitted ==
    ASSUME PipelineInv, NEW m \in Markets, CommitSettlement(m)
    PROVE  PipelineInv'
<1>0. /\ PartsShaped /\ LandedIsRegistered /\ FollowsChain(store) /\ FollowsChain(saved)
      /\ DOMAIN run = Markets /\ \A n \in Markets : RunShaped(run[n]) /\ CommitsLanded(run[n])
  BY DEF PipelineInv, StoreFollowsChain, PartsShaped
<1>1. CASE Fail(m)
  <2>1. UNCHANGED <<store, saved, registry, landed>> /\ End(m)
    BY <1>1 DEF Fail, executorFrame
  <2> QED BY <2>1, RunEnds
<1>2. CASE /\ CanAddSettlement(store, run[m].settlement)
           /\ store' = AddSettlement(store, run[m].settlement)
           /\ Advance(m, "finalizing") /\ UNCHANGED <<saved, cooling, inFlight, executorFrame>>
  <2>1. PICK s : s = run[m].settlement
    OBVIOUS
  <2>2. s \in landed
    BY <1>0, <2>1 DEF CommitSettlement, CommitsLanded
  <2>3. UNCHANGED <<saved, registry, landed>>
    BY <1>2 DEF executorFrame
  <2>4. /\ store' = AddSettlement(store, s)
        /\ \A c \in DOMAIN s.updates : c \in Known(store)
    BY <1>2, <2>1 DEF CanAddSettlement, IsSettleable, OpenOrders
  <2>5. PICK updated : updated = AfterUpdates(store.orders, s)
    OBVIOUS
  <2>6. /\ DOMAIN store' = DOMAIN store
        /\ store'.settled = store.settled \cup {s.batch}
        /\ store'.orders = WithResiduals(updated, s)
    BY <1>0, <2>4, <2>5 DEF AddSettlement, PartsShaped, StoreShaped
  <2>7. /\ DOMAIN updated = Known(store)
        /\ \A c \in Known(store) :
              /\ DOMAIN updated[c] = DOMAIN store.orders[c]
              /\ updated[c].sequence = store.orders[c].sequence
              /\ \/ updated[c].status = store.orders[c].status
                 \/ c \in DOMAIN s.updates /\ updated[c].status \in {"filled", "partially-filled"}
    BY <1>0, <2>5 DEF AfterUpdates, PartsShaped, StoreShaped, Known
  <2>8. /\ Known(store)' = Known(store) \cup DOMAIN s.residuals
        /\ \A c \in Known(store) : store'.orders[c] = updated[c]
        /\ \A c \in DOMAIN s.residuals \ Known(store) :
              store'.orders[c] = [market |-> s.market, terms |-> s.residuals[c].terms,
                                  sequence |-> s.residuals[c].sequence, status |-> "open", residual |-> <<>>]
    BY <2>6, <2>7 DEF WithResiduals, Known
  <2>9. \A c \in DOMAIN s.residuals \ Known(store) :
           /\ DOMAIN store'.orders[c] = {"market", "terms", "sequence", "status", "residual"}
           /\ store'.orders[c].sequence = s.residuals[c].sequence /\ store'.orders[c].status = "open"
    <3> SUFFICES ASSUME NEW c \in DOMAIN s.residuals \ Known(store)
        PROVE /\ DOMAIN store'.orders[c] = {"market", "terms", "sequence", "status", "residual"}
              /\ store'.orders[c].sequence = s.residuals[c].sequence /\ store'.orders[c].status = "open"
      OBVIOUS
    <3>1. store'.orders[c] = [market |-> s.market, terms |-> s.residuals[c].terms,
                              sequence |-> s.residuals[c].sequence, status |-> "open", residual |-> <<>>]
      BY <2>8
    <3> QED BY <3>1
  <2>10. StoreShaped(store)'
    <3>1. \A c \in Known(store) : DOMAIN store'.orders[c] = {"market", "terms", "sequence", "status", "residual"}
      BY <1>0, <2>7, <2>8 DEF PartsShaped, StoreShaped
    <3> QED BY <1>0, <2>6, <2>8, <2>9, <3>1 DEF PartsShaped, StoreShaped
  <2>11. FollowsChain(store)'
    <3>1. ASSUME NEW c \in Known(store)
          PROVE  /\ c \in DOMAIN registry
                 /\ store'.orders[c].status = "cancelled" => registry[c].status = "cancelled"
                 /\ store'.orders[c].status \in {"filled", "partially-filled"} => registry[c].status = "filled"
                 /\ store'.orders[c].sequence = registry[c].sequence
      BY <1>0, <2>2, <2>7, <2>8 DEF FollowsChain, LandedIsRegistered
    <3>2. ASSUME NEW c \in DOMAIN s.residuals \ Known(store)
          PROVE  /\ c \in DOMAIN registry
                 /\ store'.orders[c].status = "open"
                 /\ store'.orders[c].sequence = registry[c].sequence
      BY <1>0, <2>2, <2>9 DEF LandedIsRegistered
    <3>3. store'.settled \subseteq {t.batch : t \in landed}
      BY <1>0, <2>2, <2>6 DEF FollowsChain
    <3>4. \A c \in Known(store)' : c \in Known(store) \/ c \in DOMAIN s.residuals \ Known(store)
      BY <2>8
    <3> QED BY <2>3, <3>1, <3>2, <3>3, <3>4 DEF FollowsChain
  <2>12. FollowsChain(saved)'
    BY <1>0, <2>3 DEF FollowsChain, Known
  <2>13. DOMAIN run' = Markets /\ \A n \in Markets : RunShaped(run'[n]) /\ CommitsLanded(run'[n])
    <3>1. PICK r : r = [run[m] EXCEPT !.step = "finalizing"]
      OBVIOUS
    <3>2. RunShaped(r) /\ r.step = "finalizing"
      BY <1>0, <3>1 DEF RunShaped
    <3>3. DOMAIN run' = Markets /\ run'[m] = r /\ \A n \in Markets \ {m} : run'[n] = run[n]
      BY <1>0, <1>2, <3>1 DEF Advance
    <3> QED BY <1>0, <3>2, <3>3 DEF CommitsLanded
  <2>14. PartsShaped'
    BY <1>0, <2>3, <2>10, <2>13 DEF PartsShaped, StoreShaped, Known, RunShaped
  <2>15. LandedIsRegistered'
    BY <1>0, <2>3 DEF LandedIsRegistered
  <2> QED BY <2>3, <2>11, <2>12, <2>13, <2>14, <2>15 DEF PipelineInv, StoreFollowsChain, CommitsLanded
<1> QED BY <1>1, <1>2 DEF CommitSettlement


\* What a store and the registered intents have to agree on.
AgreesWith(st, intents) ==
    \A c \in Known(st) :
       /\ c \in DOMAIN intents
       /\ st.orders[c].status = "cancelled" => intents[c].status = "cancelled"
       /\ st.orders[c].status \in {"filled", "partially-filled"} => intents[c].status = "filled"
       /\ st.orders[c].sequence = intents[c].sequence

IntentsShaped(intents) == \A c \in DOMAIN intents : DOMAIN intents[c] = {"status", "sequence"}

\* Intents that went on from those registered now.
GoOn(intents) ==
    \A c \in DOMAIN registry :
       /\ c \in DOMAIN intents /\ intents[c].sequence = registry[c].sequence
       /\ registry[c].status \in {"filled", "cancelled"} => intents[c].status = registry[c].status

\* A cancellation changes the status of an order, on the chain and in the store.
LEMMA CancellationFollows ==
    ASSUME PartsShaped, FollowsChain(store), FollowsChain(saved), LandedIsRegistered,
           NEW c \in Known(store), IsActiveIntent(c), NEW st, st = CancelOrder(store, c),
           NEW intents, intents = Cancelled(registry, c)
    PROVE  /\ GoOn(intents) /\ IntentsShaped(intents)
           /\ StoreShaped(st) /\ st.settled = store.settled /\ AgreesWith(st, intents)
<1>1. registry[c].status = "active" /\ c \in DOMAIN registry
  BY DEF IsActiveIntent
<1>2. /\ DOMAIN intents = DOMAIN registry /\ intents[c].status = "cancelled"
      /\ \A d \in DOMAIN registry :
            /\ DOMAIN intents[d] = {"status", "sequence"} /\ intents[d].sequence = registry[d].sequence
            /\ d # c => intents[d] = registry[d]
  BY <1>1 DEF Cancelled, PartsShaped
<1>3. /\ DOMAIN st = DOMAIN store /\ st.settled = store.settled /\ Known(st) = Known(store)
      /\ st.orders[c].status = "cancelled"
      /\ \A d \in Known(store) :
            /\ DOMAIN st.orders[d] = DOMAIN store.orders[d] /\ st.orders[d].sequence = store.orders[d].sequence
            /\ d # c => st.orders[d] = store.orders[d]
  BY DEF CancelOrder, PartsShaped, StoreShaped, Known
<1>4. StoreShaped(st)
  BY <1>3 DEF PartsShaped, StoreShaped
<1>5. ASSUME NEW d \in Known(st)
      PROVE  /\ d \in DOMAIN intents
             /\ st.orders[d].status = "cancelled" => intents[d].status = "cancelled"
             /\ st.orders[d].status \in {"filled", "partially-filled"} => intents[d].status = "filled"
             /\ st.orders[d].sequence = intents[d].sequence
  <2>1. d \in Known(store) /\ d \in DOMAIN registry
    BY <1>3 DEF FollowsChain
  <2>2. CASE d = c
    BY <1>2, <1>3, <2>1, <2>2 DEF FollowsChain
  <2>3. CASE d # c
    BY <1>2, <1>3, <2>1, <2>3 DEF FollowsChain
  <2> QED BY <2>2, <2>3
<1>6. AgreesWith(st, intents)
  BY <1>5 DEF AgreesWith
<1>7. GoOn(intents) /\ IntentsShaped(intents)
  BY <1>1, <1>2 DEF GoOn, IntentsShaped
<1> QED BY <1>3, <1>4, <1>6, <1>7

\* A submission adds an intent, and the store the order after it did.
LEMMA SubmissionFollows ==
    ASSUME NEW st, NEW intents, NEW o, NEW outcome, SubmitTo(st, intents, o, outcome),
           StoreShaped(st), IntentsShaped(intents), AgreesWith(st, intents), GoOn(intents)
    PROVE  /\ GoOn(registry') /\ IntentsShaped(registry')
           /\ StoreShaped(store') /\ store'.settled = st.settled /\ AgreesWith(store', registry')
<1>1. PICK c : c = <<o>>
  OBVIOUS
<1>2. /\ registry' = IF outcome = "notSent" \/ c \in DOMAIN intents THEN intents
                     ELSE With(intents, c, [status |-> "active", sequence |-> sequence + 1])
      /\ store' = IF outcome = "done" /\ CanAddIntent(st, c, Terms[o])
                  THEN AddIntent(st, c, MarketOf[o], Terms[o], registry'[c].sequence) ELSE st
  BY <1>1 DEF SubmitTo
<1>3. /\ \A d \in DOMAIN intents : d \in DOMAIN registry' /\ registry'[d] = intents[d]
      /\ IntentsShaped(registry')
      /\ outcome = "done" => c \in DOMAIN registry'
  <2>1. CASE outcome = "notSent" \/ c \in DOMAIN intents
    BY <1>2, <2>1
  <2>2. CASE ~(outcome = "notSent" \/ c \in DOMAIN intents)
    <3>1. PICK r : r = [status |-> "active", sequence |-> sequence + 1]
      OBVIOUS
    <3>2. DOMAIN r = {"status", "sequence"}
      BY <3>1
    <3>3. registry' = [d \in DOMAIN intents \cup {c} |-> IF d = c THEN r ELSE intents[d]]
      BY <1>2, <2>2, <3>1 DEF With
    <3> QED BY <2>2, <3>2, <3>3 DEF IntentsShaped
  <2> QED BY <2>1, <2>2
<1>4. GoOn(registry')
  BY <1>3 DEF GoOn
<1>5. CASE store' = st
  BY <1>3, <1>4, <1>5 DEF AgreesWith
<1>6. CASE store' # st
  <2>1. PICK r : r = [market |-> MarketOf[o], terms |-> Terms[o], sequence |-> registry'[c].sequence,
                      status |-> "open", residual |-> <<>>]
    OBVIOUS
  <2>2. outcome = "done" /\ c \notin Known(st) /\ store' = [st EXCEPT !.orders = With(@, c, r)]
    BY <1>2, <1>6, <2>1 DEF CanAddIntent, AddIntent
  <2>3. /\ DOMAIN store' = DOMAIN st /\ store'.settled = st.settled
        /\ Known(store') = Known(st) \cup {c} /\ store'.orders[c] = r
        /\ \A d \in Known(st) : store'.orders[d] = st.orders[d]
    BY <2>2 DEF StoreShaped, Known, With
  <2>4. /\ DOMAIN r = {"market", "terms", "sequence", "status", "residual"}
        /\ r.status = "open" /\ r.sequence = registry'[c].sequence
    BY <2>1
  <2>5. StoreShaped(store')
    BY <2>3, <2>4 DEF StoreShaped
  <2>6. AgreesWith(store', registry')
    BY <1>3, <2>2, <2>3, <2>4 DEF AgreesWith
  <2> QED BY <1>3, <1>4, <2>3, <2>5, <2>6
<1> QED BY <1>5, <1>6

\* What clients ask for.
LEMMA RequestsFollow ==
    ASSUME PipelineInv
    PROVE  /\ \A c, outcome : Cancel(c, outcome) => PipelineInv'
           /\ \A o, outcome : Submit(o, outcome) \/ Replace(o, outcome) => PipelineInv'
<1>0. PartsShaped /\ LandedIsRegistered /\ FollowsChain(store) /\ FollowsChain(saved)
  BY DEF PipelineInv, StoreFollowsChain
<1>1. ASSUME UNCHANGED <<saved, run, landed>>, GoOn(registry'), IntentsShaped(registry'),
             StoreShaped(store'), FollowsChain(store)'
      PROVE  PipelineInv'
  <2>1. ChainGoesOn
    BY <1>1 DEF ChainGoesOn, GoOn
  <2>2. PartsShaped'
    BY <1>0, <1>1 DEF PartsShaped, IntentsShaped, StoreShaped, Known, RunShaped
  <2>3. LandedIsRegistered'
    BY <1>0, <1>1, <2>1 DEF LandedIsRegistered, ChainGoesOn
  <2>4. FollowsChain(saved)'
    <3>1. PICK a : a = saved
      OBVIOUS
    <3>2. FollowsChain(a)'
      BY <1>0, <2>1, <3>1, StoresFollowOn
    <3> QED BY <1>1, <3>1, <3>2 DEF FollowsChain, Known
  <2> QED BY <1>1, <2>2, <2>3, <2>4, ChainAndStoreMove
<1>2. ASSUME NEW st, NEW intents, NEW o, NEW outcome, SubmitTo(st, intents, o, outcome),
             UNCHANGED <<saved, run, landed>>, GoOn(intents), IntentsShaped(intents),
             StoreShaped(st), st.settled = store.settled, AgreesWith(st, intents)
      PROVE  PipelineInv'
  <2>1. /\ GoOn(registry') /\ IntentsShaped(registry')
        /\ StoreShaped(store') /\ store'.settled = st.settled /\ AgreesWith(store', registry')
    BY <1>2, SubmissionFollows
  <2>2. FollowsChain(store)'
    BY <1>0, <1>2, <2>1 DEF FollowsChain, AgreesWith
  <2> QED BY <1>1, <1>2, <2>1, <2>2
<1>3. GoOn(registry) /\ IntentsShaped(registry) /\ StoreShaped(store) /\ AgreesWith(store, registry)
  BY <1>0 DEF GoOn, IntentsShaped, PartsShaped, AgreesWith, FollowsChain
<1>4. ASSUME NEW o, NEW outcome, Submit(o, outcome) PROVE PipelineInv'
  BY <1>2, <1>3, <1>4 DEF Submit
<1>5. ASSUME NEW o, NEW outcome, Replace(o, outcome) PROVE PipelineInv'
  <2>1. PICK c : /\ c \in Known(store) /\ IsActiveIntent(c)
                 /\ SubmitTo(CancelOrder(store, c), Cancelled(registry, c), o, outcome)
    BY <1>5 DEF Replace, IsCancellable
  <2>2. PICK st, intents : st = CancelOrder(store, c) /\ intents = Cancelled(registry, c)
    OBVIOUS
  <2>3. UNCHANGED <<saved, run, landed>> /\ SubmitTo(st, intents, o, outcome)
    BY <1>5, <2>1, <2>2 DEF Replace
  <2> QED BY <1>0, <1>2, <2>1, <2>2, <2>3, CancellationFollows
<1>6. ASSUME NEW c, NEW outcome, Cancel(c, outcome) PROVE PipelineInv'
  <2>1. c \in Known(store) /\ IsActiveIntent(c) /\ UNCHANGED <<saved, run, landed>>
    BY <1>6 DEF Cancel, IsCancellable
  <2>2. PICK st, intents : st = CancelOrder(store, c) /\ intents = Cancelled(registry, c)
    OBVIOUS
  <2>3. /\ GoOn(intents) /\ IntentsShaped(intents)
        /\ StoreShaped(st) /\ st.settled = store.settled /\ AgreesWith(st, intents)
    BY <1>0, <2>1, <2>2, CancellationFollows
  <2>4. CASE store' = store /\ registry' \in {registry, intents}
    <3>1. GoOn(registry') /\ IntentsShaped(registry') /\ StoreShaped(store')
      BY <1>3, <2>3, <2>4
    <3>2. ChainGoesOn
      BY <2>1, <3>1 DEF ChainGoesOn, GoOn
    <3>3. PICK a : a = store
      OBVIOUS
    <3>4. FollowsChain(a)'
      BY <1>0, <3>2, <3>3, StoresFollowOn
    <3>5. FollowsChain(store)'
      BY <2>4, <3>3, <3>4 DEF FollowsChain, Known
    <3> QED BY <1>1, <2>1, <3>1, <3>5
  <2>5. CASE store' = st /\ registry' = intents
    <3>1. FollowsChain(store)'
      BY <1>0, <2>1, <2>3, <2>5 DEF FollowsChain, AgreesWith
    <3> QED BY <1>1, <2>1, <2>3, <2>5, <3>1
  <2> QED BY <1>6, <2>2, <2>4, <2>5 DEF Cancel
<1> QED BY <1>4, <1>5, <1>6

LEMMA PipelineInvHolds == PipelineSpec => []PipelineInv
<1>1. PipelineInit => PipelineInv
  <2> SUFFICES ASSUME PipelineInit PROVE PipelineInv
    OBVIOUS
  <2>1. /\ DOMAIN EmptyStore = {"orders", "positions", "settled", "spent"}
        /\ Known(EmptyStore) = {} /\ EmptyStore.settled = {}
    BY DEF EmptyStore, Known
  <2>2. DOMAIN registry = {} /\ landed = {} /\ store = EmptyStore /\ saved = EmptyStore
    BY DEF PipelineInit
  <2>3. DOMAIN run = Markets /\ \A m \in Markets : RunShaped(run[m]) /\ CommitsLanded(run[m])
    BY RestingOK DEF PipelineInit
  <2> QED BY <2>1, <2>2, <2>3 DEF PipelineInv, PartsShaped, StoreShaped, LandedIsRegistered,
                                  StoreFollowsChain, FollowsChain
<1>2. PipelineInv /\ [PipelineNext]_vars => PipelineInv'
  <2> SUFFICES ASSUME PipelineInv, [PipelineNext]_vars PROVE PipelineInv'
    OBVIOUS
  <2>0. DOMAIN run = Markets /\ \A m \in Markets : RunShaped(run[m]) /\ CommitsLanded(run[m])
    BY DEF PipelineInv, PartsShaped
  <2>1. ASSUME NEW o, NEW outcome, Submit(o, outcome) \/ Replace(o, outcome) \/ Cancel(o, outcome)
        PROVE  PipelineInv'
    BY <2>1, RequestsFollow
  <2>2. ASSUME Tick PROVE PipelineInv'
    BY <2>2, ExecutorSteps
  <2>3. ASSUME NEW m \in Markets, RunStep(m) \/ MatchOrders(m) \/ StepFails(m) PROVE PipelineInv'
    BY <2>3, ExecutorSteps, SettlementsAreCommitted DEF RunStep
  <2>4. ASSUME NEW s, TransactionLands(s) PROVE PipelineInv'
    BY <2>4, SettlementsLand
  <2>5. ASSUME UNCHANGED <<store, saved, run, registry, landed>> PROVE PipelineInv'
    BY <2>0, <2>5, RunsGoOn
  <2>6. ASSUME NEW s, TransactionExpires(s) \/ CooldownEnds(s) PROVE PipelineInv'
    BY <2>5, <2>6 DEF TransactionExpires, CooldownEnds, executorFrame
  <2>7. ASSUME Save PROVE PipelineInv'
    BY <2>7 DEF Save, executorFrame, PipelineInv, PartsShaped, StoreShaped, Known, RunShaped,
                LandedIsRegistered, StoreFollowsChain, FollowsChain, CommitsLanded
  <2>8. ASSUME Crash PROVE PipelineInv'
    <3>1. /\ store' = saved /\ UNCHANGED <<saved, registry, landed>>
          /\ run' = [m \in Markets |-> Resting]
      BY <2>8 DEF Crash, chainVars
    <3>2. DOMAIN run' = Markets /\ \A m \in Markets : RunShaped(run[m])' /\ CommitsLanded(run[m])'
      BY <3>1 DEF RunShaped, CommitsLanded, Resting
    <3>3. PartsShaped'
      BY <3>1, <3>2 DEF PipelineInv, PartsShaped, StoreShaped, Known
    <3>4. LandedIsRegistered' /\ StoreFollowsChain'
      BY <3>1 DEF PipelineInv, LandedIsRegistered, StoreFollowsChain, FollowsChain, Known
    <3> QED BY <3>2, <3>3, <3>4 DEF PipelineInv
  <2> QED BY <2>1, <2>2, <2>3, <2>4, <2>5, <2>6, <2>7, <2>8 DEF PipelineNext, vars, chainVars
<1> QED BY <1>1, <1>2, PTL DEF PipelineSpec

\* StoreFollowsChain: the store of the server, and its newest snapshot, never run
\* ahead of the chain - whatever clients submit, cancel and replace while batches run,
\* however answers get lost, settlements fail or land late, and the process crashes.
THEOREM StoreTrailsChain == PipelineSpec => []StoreFollowsChain
<1>1. PipelineInv => StoreFollowsChain
  BY DEF PipelineInv
<1> QED BY <1>1, PipelineInvHolds, PTL

-----------------------------------------------------------------------------
(* Snapshots.  RestartFindsAll rests on the version of the checkpoint: it  *)
(* names one content, a process that has that version holds all of it, and *)
(* only such a process commits - something written whole, under an id of   *)
(* its own, that no other process deletes or prunes.                       *)

Snapshots == [version : Nat, content : Contents, fields : SUBSET Fields]

Saves == {NoSave} \cup
         [stage : {"write", "update", "insert", "maintain", "delete"}, id : Nat]

ServerStates == [stage : {"down", "loading", "healthy", "unhealthy"},
                 version : Nat, legacy : Contents, read : Nat]

SnapshotsShaped ==
    /\ document \in [format : {"empty", "legacy", "normalized"}, version : Nat,
                     payload : Contents, id : Nat]
    /\ snapshots \in Seq(Snapshots)
    /\ history \subseteq Ids
    /\ memory \in [Servers -> Contents] /\ queue \in [Servers -> Seq(Contents)]
    /\ server \in [Servers -> ServerStates]
    /\ save \in [Servers -> Saves]

\* The version of the checkpoint, and the snapshot it names.
DocumentIsOne ==
    /\ document.format # "normalized" => document.version = 0
    /\ document.format = "empty" => document.payload = {}
    /\ document.format = "normalized" =>
          document.id \in Ids /\ snapshots[document.id].version = document.version

\* What a process saves: each snapshot holds those before it, and memory all.
SavesGrow(s) ==
    /\ \A i \in DOMAIN queue[s] :
          /\ queue[s][i] \subseteq memory[s]
          /\ \A j \in DOMAIN queue[s] : i <= j => queue[s][i] \subseteq queue[s][j]
    /\ save[s] # NoSave =>
          /\ save[s].id \in Ids
          /\ snapshots[save[s].id].content \subseteq memory[s]
          /\ \A i \in DOMAIN queue[s] : snapshots[save[s].id].content \subseteq queue[s][i]

IsCurrent(s) == server[s].version = document.version

\* A process with the checkpoint's version has what the checkpoint has.
CurrentHasAll(s) ==
    IsCurrent(s) =>
       /\ server[s].stage = "loading" => server[s].read = document.id
       /\ server[s].stage = "healthy" =>
             /\ Durable \subseteq memory[s]
             /\ \A i \in DOMAIN queue[s] : Durable \subseteq queue[s][i]
             /\ save[s].stage \in {"write", "update", "insert"} =>
                   Durable \subseteq snapshots[save[s].id].content

\* Where a process and its save are.
ServerInOrder(s) ==
    /\ server[s].stage # "healthy" => save[s] = NoSave /\ queue[s] = <<>>
    /\ server[s].stage # "down" => server[s].version <= document.version
    /\ server[s].stage = "loading" => document.format = "normalized" /\ server[s].read \in Ids

Aged(id) == ~(snapshots[id].version > document.version - Retention)

SaveInOrder(s) ==
    LET id == save[s].id IN
    save[s] # NoSave =>
       /\ id \notin history
       /\ save[s].stage \in {"write", "update", "insert"} =>
             /\ snapshots[id].version = server[s].version + 1
             /\ document.format = "normalized" => id # document.id
       /\ save[s].stage \in {"update", "insert"} /\ IsCurrent(s) => Whole(id)
       /\ save[s].stage = "insert" => server[s].version = 0
       /\ save[s].stage = "maintain" =>
             /\ snapshots[id].version <= document.version
             /\ snapshots[id].content \subseteq Durable
             /\ Aged(id) \/ Whole(id)
       /\ save[s].stage = "delete" /\ document.format = "normalized" =>
             id # document.id \/ id \in unanswered

ServerOK(s) == SavesGrow(s) /\ CurrentHasAll(s) /\ ServerInOrder(s) /\ SaveInOrder(s)

SavesApart ==
    \A s, t \in Servers :
       s # t /\ save[s] # NoSave /\ save[t] # NoSave => save[s].id # save[t].id

\* Before the file is renamed it has what is about to return.
FileIsAhead == disk.stage = "rename" => disk.up /\ disk.memory \ Samples \subseteq disk.temp

DiskShaped ==
    DOMAIN disk = {"up", "memory", "file", "temp", "stage", "returned"}

SnapshotsInv ==
    /\ SnapshotsShaped /\ DocumentIsOne /\ SavesApart
    /\ \A s \in Servers : ServerOK(s)
    /\ RestartFindsAll /\ FileIsAhead /\ DiskShaped

LEMMA DurableIsContent ==
    ASSUME SnapshotsShaped, DocumentIsOne
    PROVE  /\ Durable \in Contents
           /\ document.format = "empty" => Durable = {}
           /\ document.format # "normalized" => Durable = document.payload
<1>1. document.payload \in Contents /\ document.format \in {"empty", "legacy", "normalized"}
  BY DEF SnapshotsShaped
<1>2. CASE document.format = "normalized"
  <2>1. snapshots[document.id] \in Snapshots
    BY <1>2 DEF SnapshotsShaped, DocumentIsOne, Ids
  <2> QED BY <1>2, <2>1 DEF Durable, Snapshots
<1>3. CASE document.format # "normalized"
  BY <1>1, <1>3 DEF Durable, DocumentIsOne, Contents
<1> QED BY <1>2, <1>3

\* What one process does to itself.
LEMMA OwnStep ==
    ASSUME SnapshotsInv, NEW s \in Servers, SnapshotsShaped',
           UNCHANGED <<document, snapshots, history, acked, unanswered, disk>>,
           \A t \in Servers \ {s} : /\ server'[t] = server[t] /\ memory'[t] = memory[t]
                                    /\ queue'[t] = queue[t] /\ save'[t] = save[t],
           save'[s] # NoSave => save[s] # NoSave /\ save'[s].id = save[s].id,
           ServerOK(s)'
    PROVE  SnapshotsInv'
<1>1. \A t \in Servers \ {s} : ServerOK(t)'
  <2> TAKE t \in Servers \ {s}
  <2>1. ServerOK(t)
    BY DEF SnapshotsInv
  <2>2. Durable' = Durable /\ Ids' = Ids /\ (\A id \in Ids : Whole(id)' = Whole(id))
    BY DEF Durable, Ids, Whole
  <2>3. SavesGrow(t)'
    BY <2>1, <2>2 DEF ServerOK, SavesGrow
  <2>4. CurrentHasAll(t)'
    BY <2>1, <2>2 DEF ServerOK, CurrentHasAll, IsCurrent
  <2>5. ServerInOrder(t)' /\ SaveInOrder(t)'
    BY <2>1, <2>2 DEF ServerOK, ServerInOrder, SaveInOrder, IsCurrent, Aged, Whole
  <2> QED BY <2>3, <2>4, <2>5 DEF ServerOK
<1>2. SavesApart'
  BY DEF SnapshotsInv, SavesApart
<1>3. DocumentIsOne' /\ RestartFindsAll' /\ FileIsAhead' /\ DiskShaped'
  BY DEF SnapshotsInv, DocumentIsOne, Ids, RestartFindsAll, CheckpointIsWhole, FlushedIsKept,
         FileIsAhead, DiskShaped, Whole, Durable
<1> QED BY <1>1, <1>2, <1>3 DEF SnapshotsInv

\* A process that is left with nothing in hand.
LEMMA AtRestOK ==
    ASSUME NEW s \in Servers, save'[s] = NoSave, queue'[s] = <<>>,
           server'[s].stage # "down" => server'[s].version <= document'.version,
           server'[s].stage = "loading" => document'.format = "normalized" /\ server'[s].read \in Ids',
           IsCurrent(s)' =>
              /\ server'[s].stage = "loading" => server'[s].read = document'.id
              /\ server'[s].stage = "healthy" => Durable' \subseteq memory'[s]
    PROVE  ServerOK(s)'
<1>1. DOMAIN queue'[s] = {} /\ save'[s].stage = "none"
  BY DEF NoSave
<1>2. SavesGrow(s)'
  BY <1>1 DEF SavesGrow
<1>3. CurrentHasAll(s)'
  BY <1>1 DEF CurrentHasAll
<1>4. ServerInOrder(s)' /\ SaveInOrder(s)'
  BY DEF ServerInOrder, SaveInOrder
<1> QED BY <1>2, <1>3, <1>4 DEF ServerOK

LEMMA ServersStartAndStop ==
    ASSUME SnapshotsInv, NEW s \in Servers, ConnectServer(s) \/ LoadRecords(s) \/ CrashServer(s)
    PROVE  SnapshotsInv'
<1>0. SnapshotsShaped /\ DocumentIsOne /\ ServerOK(s)
  BY DEF SnapshotsInv
<1>1. Durable' = Durable /\ UNCHANGED <<document, snapshots, history, acked, unanswered, disk>>
  BY DEF ConnectServer, LoadRecords, CrashServer, checkpointVars, answerVars, Durable
<1>2. ASSUME ConnectServer(s) PROVE SnapshotsInv'
  <2>1. PICK r : r = [stage |-> IF document.format = "normalized" THEN "loading" ELSE "healthy",
                      version |-> document.version, legacy |-> document.payload,
                      read |-> document.id]
    OBVIOUS
  <2>2. PICK m : m = IF document.format = "normalized" THEN {} ELSE Durable
    OBVIOUS
  <2>3. /\ server' = [server EXCEPT ![s] = r] /\ memory' = [memory EXCEPT ![s] = m]
        /\ UNCHANGED <<queue, save>> /\ server[s].stage = "down"
    BY <1>2, <2>1, <2>2 DEF ConnectServer
  <2>4. /\ r \in ServerStates
        /\ m \in Contents
    BY <1>0, <2>1, <2>2, DurableIsContent DEF SnapshotsShaped, Contents, ServerStates
  <2>5. SnapshotsShaped'
    BY <1>0, <1>1, <2>3, <2>4 DEF SnapshotsShaped, Ids
  <2>6. server'[s] = r /\ memory'[s] = m /\ save'[s] = NoSave /\ queue'[s] = <<>>
    BY <1>0, <2>3 DEF SnapshotsShaped, ServerOK, ServerInOrder
  <2>7. document.version \in Nat
    BY <1>0 DEF SnapshotsShaped
  <2>8. ServerOK(s)'
    <3>1. /\ server'[s].version <= document'.version
          /\ server'[s].stage = "loading" => /\ document'.format = "normalized"
                                                /\ server'[s].read = document'.id /\ server'[s].read \in Ids'
          /\ server'[s].stage = "healthy" => Durable' \subseteq memory'[s]
      BY <1>0, <1>1, <2>1, <2>2, <2>6, <2>7 DEF DocumentIsOne, Ids
    <3> QED BY <2>6, <3>1, AtRestOK
  <2> QED BY <1>0, <1>1, <2>3, <2>5, <2>6, <2>8, OwnStep DEF SnapshotsShaped
<1>3. ASSUME LoadRecords(s) PROVE SnapshotsInv'
  <2>1. /\ server[s].stage = "loading" /\ UNCHANGED <<queue, save>>
        /\ \/ /\ server' = [server EXCEPT ![s].stage = "healthy"]
              /\ memory' = [memory EXCEPT ![s] = snapshots[server[s].read].content]
           \/ server' = [server EXCEPT ![s] = Down] /\ memory' = memory
    BY <1>3 DEF LoadRecords
  <2>2. save'[s] = NoSave /\ queue'[s] = <<>>
    BY <1>0, <2>1 DEF ServerOK, ServerInOrder
  <2>3. CASE server' = [server EXCEPT ![s] = Down] /\ memory' = memory
    <3>1. Down \in ServerStates
      BY DEF Down, Contents, ServerStates
    <3>2. SnapshotsShaped'
      BY <1>0, <1>1, <2>1, <2>3, <3>1 DEF SnapshotsShaped, Ids
    <3>3. server'[s].stage = "down"
      BY <1>0, <2>3 DEF SnapshotsShaped, Down
    <3> QED BY <1>0, <1>1, <2>1, <2>2, <2>3, <3>2, <3>3, AtRestOK, OwnStep DEF SnapshotsShaped
  <2>4. CASE /\ server' = [server EXCEPT ![s].stage = "healthy"]
             /\ memory' = [memory EXCEPT ![s] = snapshots[server[s].read].content]
    <3>1. server[s].read \in Ids
      BY <1>0, <2>1 DEF ServerOK, ServerInOrder
    <3>2. PICK m : m = snapshots[server[s].read].content
      OBVIOUS
    <3>3. m \in Contents
      <4>1. snapshots[server[s].read] \in Snapshots
        BY <1>0, <3>1 DEF SnapshotsShaped, Ids
      <4> QED BY <3>2, <4>1 DEF Snapshots
    <3>4. memory' = [memory EXCEPT ![s] = m]
      BY <2>4, <3>2
    <3>5. SnapshotsShaped'
      <4>1. server' \in [Servers -> ServerStates]
        BY <1>0, <2>4 DEF SnapshotsShaped, ServerStates
      <4>2. memory' \in [Servers -> Contents]
        BY <1>0, <3>3, <3>4 DEF SnapshotsShaped
      <4> QED BY <1>0, <1>1, <2>1, <4>1, <4>2 DEF SnapshotsShaped, Ids
    <3>6. /\ server'[s].stage = "healthy" /\ server'[s].version = server[s].version
          /\ memory'[s] = m
      BY <1>0, <2>4, <3>4 DEF SnapshotsShaped, ServerStates
    <3>7. server[s].version <= document.version /\ document.format = "normalized"
      BY <1>0, <2>1 DEF ServerOK, ServerInOrder
    <3>8. IsCurrent(s)' => Durable' \subseteq memory'[s]
      <4>1. IsCurrent(s)' => server[s].read = document.id
        BY <1>0, <1>1, <2>1, <3>6 DEF ServerOK, CurrentHasAll, IsCurrent
      <4> QED BY <1>1, <3>2, <3>6, <3>7, <4>1 DEF Durable
    <3>9. ServerOK(s)'
      BY <1>1, <2>2, <3>6, <3>7, <3>8, AtRestOK
    <3> QED BY <1>0, <1>1, <2>1, <2>2, <2>4, <3>4, <3>5, <3>9, OwnStep DEF SnapshotsShaped
  <2> QED BY <2>1, <2>3, <2>4
<1>4. ASSUME CrashServer(s) PROVE SnapshotsInv'
  <2>1. /\ server' = [server EXCEPT ![s] = Down] /\ memory' = [memory EXCEPT ![s] = {}]
        /\ queue' = [queue EXCEPT ![s] = <<>>] /\ save' = [save EXCEPT ![s] = NoSave]
    BY <1>4 DEF CrashServer
  <2>2. /\ Down \in ServerStates
        /\ {} \in Contents /\ NoSave \in Saves /\ <<>> \in Seq(Contents)
    BY DEF Down, Contents, ServerStates, Saves
  <2>3. SnapshotsShaped'
    BY <1>0, <1>1, <2>1, <2>2 DEF SnapshotsShaped, Ids
  <2>4. server'[s].stage = "down" /\ save'[s] = NoSave /\ queue'[s] = <<>>
    BY <1>0, <2>1 DEF SnapshotsShaped, Down
  <2>5. ServerOK(s)'
    BY <2>4, AtRestOK
  <2> QED BY <1>0, <1>1, <2>1, <2>3, <2>4, <2>5, OwnStep DEF SnapshotsShaped
<1> QED BY <1>2, <1>3, <1>4

\* Memory grows, and is queued or not.
LEMMA MemoryGrows ==
    ASSUME SnapshotsInv, NEW s \in Servers, server[s].stage = "healthy",
           NEW m \in Contents, memory[s] \subseteq m, memory' = [memory EXCEPT ![s] = m],
           \/ queue' = queue
           \/ queue' = [queue EXCEPT ![s] = Append(@, m)],
           UNCHANGED <<server, save, document, snapshots, history, acked, unanswered, disk>>
    PROVE  SnapshotsInv'
<1>0. SnapshotsShaped /\ DocumentIsOne /\ ServerOK(s)
  BY DEF SnapshotsInv
<1>1. PICK q : q = queue'[s]
  OBVIOUS
<1>2. queue[s] \in Seq(Contents) /\ (q = queue[s] \/ q = Append(queue[s], m))
  BY <1>0, <1>1 DEF SnapshotsShaped
<1>3. q \in Seq(Contents)
  BY <1>2, SMTT(30)
<1>4. /\ memory'[s] = m /\ \A t \in Servers \ {s} : memory'[t] = memory[t] /\ queue'[t] = queue[t]
  BY <1>0 DEF SnapshotsShaped
<1>5. SnapshotsShaped'
  <2>1. memory' \in [Servers -> Contents] /\ queue' \in [Servers -> Seq(Contents)]
    <3>1. queue' = [queue EXCEPT ![s] = q]
      BY <1>0, <1>1, <1>2 DEF SnapshotsShaped
    <3> QED BY <1>0, <1>3, <3>1 DEF SnapshotsShaped
  <2> QED BY <1>0, <2>1 DEF SnapshotsShaped, Ids
<1>6. \A i \in DOMAIN q : (i \in DOMAIN queue[s] /\ q[i] = queue[s][i]) \/ (i = Len(queue[s]) + 1 /\ q[i] = m)
  BY <1>2
<1>7. \A i \in DOMAIN queue[s] : i \in 1 .. Len(queue[s])
  BY <1>2
<1>8. SavesGrow(s)'
  <2>1. /\ \A i \in DOMAIN queue[s] :
              /\ queue[s][i] \subseteq m
              /\ \A j \in DOMAIN queue[s] : i <= j => queue[s][i] \subseteq queue[s][j]
        /\ save[s] # NoSave =>
              /\ save[s].id \in Ids
              /\ snapshots[save[s].id].content \subseteq m
              /\ \A i \in DOMAIN queue[s] : snapshots[save[s].id].content \subseteq queue[s][i]
    BY <1>0 DEF ServerOK, SavesGrow
  <2>2. \A i \in DOMAIN q :
           /\ q[i] \subseteq m
           /\ \A j \in DOMAIN q : i <= j => q[i] \subseteq q[j]
    <3> SUFFICES ASSUME NEW i \in DOMAIN q, NEW j \in DOMAIN q, i <= j
                 PROVE  q[i] \subseteq m /\ q[i] \subseteq q[j]
      BY <1>3
    <3>1. CASE j = Len(queue[s]) + 1 /\ q[j] = m
      BY <1>6, <2>1, <3>1
    <3>2. CASE j \in DOMAIN queue[s] /\ q[j] = queue[s][j]
      <4>1. i \in DOMAIN queue[s] /\ q[i] = queue[s][i]
        BY <1>2, <1>6, <1>7, <3>2
      <4> QED BY <2>1, <3>2, <4>1
    <3> QED BY <1>6, <3>1, <3>2
  <2>3. save[s] # NoSave => \A i \in DOMAIN q : snapshots[save[s].id].content \subseteq q[i]
    BY <1>6, <2>1
  <2> QED BY <1>1, <1>4, <2>1, <2>2, <2>3 DEF SavesGrow, Ids
<1>9. CurrentHasAll(s)'
  <2>1. Durable' = Durable
    BY DEF Durable
  <2>2. IsCurrent(s) =>
             /\ Durable \subseteq memory[s]
             /\ \A i \in DOMAIN queue[s] : Durable \subseteq queue[s][i]
             /\ save[s].stage \in {"write", "update", "insert"} =>
                   Durable \subseteq snapshots[save[s].id].content
    BY <1>0 DEF ServerOK, CurrentHasAll
  <2>3. IsCurrent(s) => \A i \in DOMAIN q : Durable \subseteq q[i]
    BY <1>6, <2>2
  <2> QED BY <1>1, <1>4, <2>1, <2>2, <2>3 DEF CurrentHasAll, IsCurrent
<1>10. ServerInOrder(s)' /\ SaveInOrder(s)'
  BY <1>0 DEF ServerOK, ServerInOrder, SaveInOrder, IsCurrent, Aged, Whole, Durable, Ids
<1> QED BY <1>4, <1>5, <1>8, <1>9, <1>10, OwnStep DEF ServerOK

LEMMA OperationsSaved ==
    ASSUME SnapshotsInv, NEW s \in Servers,
           \/ \E o \in Operations : Operate(s, o) \/ OperateThrows(s, o)
           \/ Migrate(s)
    PROVE  SnapshotsInv'
<1>0. SnapshotsShaped /\ memory[s] \in Contents
  BY DEF SnapshotsInv, SnapshotsShaped
<1>1. ASSUME NEW o \in Operations, Operate(s, o) \/ OperateThrows(s, o) PROVE SnapshotsInv'
  <2>1. PICK m : /\ m \in {memory[s] \cup {o}, memory[s] \cup {Half(o)}}
                 /\ m = memory[s] \cup {Half(o)} => o \in Throwing \/ m = memory[s] \cup {o}
                 /\ memory' = [memory EXCEPT ![s] = m]
                 /\ queue' = queue \/ queue' = [queue EXCEPT ![s] = Append(@, memory'[s])]
                 /\ server[s].stage = "healthy"
    BY <1>1 DEF Operate, OperateThrows
  <2>2. m \in Contents /\ memory[s] \subseteq m
    BY <1>0, <2>1 DEF Contents
  <2>3. memory'[s] = m
    BY <1>0, <2>1 DEF SnapshotsShaped
  <2>4. UNCHANGED <<server, save, document, snapshots, history, acked, unanswered, disk>>
    BY <1>1 DEF Operate, OperateThrows, checkpointVars, answerVars
  <2> QED BY <2>1, <2>2, <2>3, <2>4, MemoryGrows
<1>2. ASSUME Migrate(s) PROVE SnapshotsInv'
  <2>1. PICK m : m = memory[s]
    OBVIOUS
  <2>2. memory' = [memory EXCEPT ![s] = m] /\ server[s].stage = "healthy"
    BY <1>0, <1>2, <2>1 DEF Migrate, SnapshotsShaped
  <2>3. queue' = [queue EXCEPT ![s] = Append(@, m)]
    BY <1>2, <2>1 DEF Migrate
  <2>4. UNCHANGED <<server, save, document, snapshots, history, acked, unanswered, disk>>
    BY <1>2 DEF Migrate, checkpointVars, answerVars
  <2> QED BY <1>0, <2>1, <2>2, <2>3, <2>4, MemoryGrows
<1> QED BY <1>1, <1>2

\* A save goes on, and neither commits nor ends.
LEMMA SaveMoves ==
    ASSUME SnapshotsInv, NEW s \in Servers, NEW stage, To(s, stage),
           UNCHANGED <<server, memory, queue, document, snapshots, history, acked, unanswered, disk>>,
           \/ stage = "update" /\ save[s].stage = "write" /\ Whole(save[s].id)
           \/ stage = "insert" /\ save[s].stage = "update" /\ server[s].version = 0
           \/ stage = "delete" /\ save[s].stage \in {"write", "update", "insert"}
    PROVE  SnapshotsInv'
<1>0. SnapshotsShaped /\ ServerOK(s)
  BY DEF SnapshotsInv
<1>1. save[s] \in [stage : {"write", "update", "insert", "maintain", "delete"}, id : Nat]
  BY <1>0 DEF SnapshotsShaped, Saves, NoSave
<1>2. PICK v : v = [save[s] EXCEPT !.stage = stage]
  OBVIOUS
<1>3. v \in Saves /\ v.id = save[s].id /\ v.stage = stage /\ v # NoSave /\ save[s] # NoSave
  BY <1>1, <1>2 DEF Saves, NoSave
<1>4. save' = [save EXCEPT ![s] = v]
  BY <1>0, <1>2 DEF To, SnapshotsShaped
<1>5. save'[s] = v /\ \A t \in Servers \ {s} : save'[t] = save[t]
  BY <1>0, <1>4 DEF SnapshotsShaped
<1>6. SnapshotsShaped'
  BY <1>0, <1>3, <1>4 DEF SnapshotsShaped, Ids
<1>7. SavesGrow(s)'
  BY <1>0, <1>3, <1>5 DEF ServerOK, SavesGrow, Ids
<1>8. Durable' = Durable
  BY DEF Durable
<1>9. CurrentHasAll(s)'
  BY <1>0, <1>3, <1>5, <1>8 DEF ServerOK, CurrentHasAll, IsCurrent
<1>10. ServerInOrder(s)'
  BY <1>0, <1>3, <1>5 DEF ServerOK, ServerInOrder, Ids
<1>11. SaveInOrder(s)'
  BY <1>0, <1>3, <1>5 DEF ServerOK, SaveInOrder, IsCurrent, Whole
<1> QED BY <1>3, <1>5, <1>6, <1>7, <1>9, <1>10, <1>11, OwnStep DEF ServerOK

\* A failed save stops the store.
LEMMA StoppedOK ==
    ASSUME SnapshotsShaped, NEW s \in Servers, ServerOK(s), Stopped(s), save[s] # NoSave,
           UNCHANGED document
    PROVE  /\ server' \in [Servers -> ServerStates] /\ queue' \in [Servers -> Seq(Contents)]
           /\ save' \in [Servers -> Saves] /\ save'[s] = NoSave /\ ServerOK(s)'
           /\ \A t \in Servers \ {s} : server'[t] = server[t] /\ queue'[t] = queue[t] /\ save'[t] = save[t]
<1>1. /\ server'[s].stage = "unhealthy" /\ server'[s].version = server[s].version
      /\ queue'[s] = <<>> /\ save'[s] = NoSave
      /\ \A t \in Servers \ {s} : server'[t] = server[t] /\ queue'[t] = queue[t] /\ save'[t] = save[t]
  BY DEF Stopped, SnapshotsShaped, ServerStates
<1>2. server' \in [Servers -> ServerStates]
  BY DEF Stopped, SnapshotsShaped, ServerStates
<1>3. queue' \in [Servers -> Seq(Contents)] /\ save' \in [Servers -> Saves]
  BY DEF Stopped, SnapshotsShaped, Saves
<1>4. server[s].version <= document.version
  BY DEF ServerOK, ServerInOrder
<1>5. ServerOK(s)'
  BY <1>1, <1>4, AtRestOK
<1> QED BY <1>1, <1>2, <1>3, <1>5

LEMMA SavesMove ==
    ASSUME SnapshotsInv, NEW s \in Servers, Backup(s) \/ SaveFails(s)
    PROVE  SnapshotsInv'
<1>0. SnapshotsShaped /\ ServerOK(s)
  BY DEF SnapshotsInv
<1>1. ASSUME Backup(s) PROVE SnapshotsInv'
  BY <1>1, SaveMoves DEF Backup, SaveIs, FieldsWritten, answerVars
<1>2. ASSUME SaveFails(s) PROVE SnapshotsInv'
  <2>1. UNCHANGED <<memory, document, snapshots, history, acked, unanswered, disk>>
    BY <1>2 DEF SaveFails, checkpointVars, answerVars
  <2>2. CASE To(s, "delete") /\ UNCHANGED <<server, queue>>
    BY <1>2, <2>1, <2>2, SaveMoves DEF SaveFails
  <2>3. CASE Stopped(s)
    <3>1. save[s] # NoSave
      BY <1>2 DEF SaveFails, NoSave
    <3>2. SnapshotsShaped'
      BY <1>0, <2>1, <2>3, <3>1, StoppedOK DEF SnapshotsShaped, Ids
    <3> QED BY <1>0, <2>1, <2>3, <3>1, <3>2, StoppedOK, OwnStep
  <2> QED BY <1>2, <2>2, <2>3 DEF SaveFails
<1> QED BY <1>1, <1>2

\* What was written under an id is never written over.
ContentsStay ==
    /\ Ids \subseteq Ids'
    /\ \A id \in Ids : /\ snapshots'[id].content = snapshots[id].content
                       /\ snapshots'[id].version = snapshots[id].version

StaysWhole(id) == snapshots'[id].fields = Fields

\* What a process saves is not deleted or pruned while it may still be committed.
LeavesSave(t) ==
    save[t] # NoSave =>
       /\ save[t].id \notin history'
       /\ \/ Whole(save[t].id) => StaysWhole(save[t].id)
          \/ save[t].stage \in {"write", "delete"}
          \/ save[t].stage \in {"update", "insert"} /\ ~IsCurrent(t)
          \/ save[t].stage = "maintain" /\ Aged(save[t].id)

\* A process beside a step on the snapshots.
LEMMA OthersStay ==
    ASSUME SnapshotsInv, NEW t \in Servers, ContentsStay, UNCHANGED <<document, unanswered>>,
           server'[t] = server[t], memory'[t] = memory[t], queue'[t] = queue[t], save'[t] = save[t],
           LeavesSave(t)
    PROVE  ServerOK(t)'
<1>0. SnapshotsShaped /\ ServerOK(t) /\ DocumentIsOne
  BY DEF SnapshotsInv
<1>1. Durable' = Durable
  <2>1. document.format = "normalized" => document.id \in Ids
    BY <1>0 DEF DocumentIsOne
  <2> QED BY <2>1 DEF Durable, ContentsStay
<1>2. save[t] # NoSave => save[t].id \in Ids
  BY <1>0 DEF ServerOK, SavesGrow
<1>3. SavesGrow(t)'
  BY <1>0, <1>2 DEF ServerOK, SavesGrow, ContentsStay
<1>4. CurrentHasAll(t)'
  <2>1. save[t].stage \in {"write", "update", "insert"} => save[t] # NoSave
    BY DEF NoSave
  <2> QED BY <1>0, <1>1, <1>2, <2>1 DEF ServerOK, CurrentHasAll, ContentsStay, IsCurrent
<1>5. ServerInOrder(t)'
  BY <1>0 DEF ServerOK, ServerInOrder, ContentsStay
<1>6. save[t] # NoSave =>
         /\ Aged(save[t].id)' = Aged(save[t].id) /\ IsCurrent(t)' = IsCurrent(t)
         /\ snapshots'[save[t].id].content = snapshots[save[t].id].content
         /\ snapshots'[save[t].id].version = snapshots[save[t].id].version
  BY <1>2 DEF Aged, IsCurrent, ContentsStay
<1>7. SaveInOrder(t)'
  BY <1>0, <1>1, <1>6 DEF ServerOK, SaveInOrder, LeavesSave, StaysWhole, Whole
<1> QED BY <1>3, <1>4, <1>5, <1>7 DEF ServerOK

\* The checkpoint beside a step on the snapshots.
LEMMA CheckpointStays ==
    ASSUME SnapshotsInv, ContentsStay, UNCHANGED <<document, history, acked, unanswered, disk>>,
           document.format = "normalized" /\ document.id \notin unanswered => StaysWhole(document.id),
           \A id \in history : ~Aged(id) => StaysWhole(id)
    PROVE  /\ DocumentIsOne' /\ RestartFindsAll' /\ FileIsAhead' /\ DiskShaped'
           /\ history' \subseteq Ids'
<1>0. SnapshotsShaped /\ DocumentIsOne /\ RestartFindsAll /\ FileIsAhead /\ DiskShaped
  BY DEF SnapshotsInv
<1>1. document.format = "normalized" => document.id \in Ids
  BY <1>0 DEF DocumentIsOne
<1>2. Durable' = Durable
  BY <1>1 DEF Durable, ContentsStay
<1>3. DocumentIsOne'
  BY <1>0, <1>1 DEF DocumentIsOne, ContentsStay
<1>4. history \subseteq Ids
  BY <1>0 DEF SnapshotsShaped
<1>5. \A id \in history : snapshots'[id].version > document.version - Retention => StaysWhole(id)
  BY <1>4 DEF Aged, ContentsStay
<1>6. CheckpointIsWhole'
  BY <1>5 DEF CheckpointIsWhole, StaysWhole, Whole
<1>7. FlushedIsKept' /\ FileIsAhead' /\ DiskShaped' /\ history' \subseteq Ids'
  BY <1>0, <1>2, <1>4 DEF RestartFindsAll, FlushedIsKept, FileIsAhead, DiskShaped, ContentsStay
<1> QED BY <1>3, <1>6, <1>7 DEF RestartFindsAll

LEMMA SavesStart ==
    ASSUME SnapshotsInv, NEW s \in Servers, StartSave(s)
    PROVE  SnapshotsInv'
<1>0. /\ SnapshotsShaped /\ DocumentIsOne /\ SavesApart /\ RestartFindsAll
      /\ \A t \in Servers : ServerOK(t)
  BY DEF SnapshotsInv
<1>1. /\ UNCHANGED <<document, history, acked, unanswered, disk, memory, server>>
      /\ server[s].stage = "healthy" /\ queue[s] # <<>> /\ save[s].stage = "none"
      /\ queue' = [queue EXCEPT ![s] = Tail(@)]
  BY DEF StartSave, SaveIs, answerVars
<1>2. PICK n : n = Len(snapshots) + 1
  OBVIOUS
<1>3. PICK r : r = [version |-> server[s].version + 1, content |-> Head(queue[s]), fields |-> {}]
  OBVIOUS
<1>4. PICK v : v = [stage |-> "write", id |-> n]
  OBVIOUS
<1>5. snapshots' = Append(snapshots, r) /\ save' = [save EXCEPT ![s] = v]
  BY <1>2, <1>3, <1>4 DEF StartSave
<1>6. queue[s] \in Seq(Contents) /\ server[s].version \in Nat /\ snapshots \in Seq(Snapshots)
  BY <1>0 DEF SnapshotsShaped, ServerStates
<1>7. /\ Len(queue[s]) \in Nat /\ Len(queue[s]) > 0
      /\ DOMAIN queue[s] = 1 .. Len(queue[s]) /\ Head(queue[s]) = queue[s][1]
      /\ Head(queue[s]) \in Contents /\ Tail(queue[s]) \in Seq(Contents)
      /\ DOMAIN Tail(queue[s]) = 1 .. Len(queue[s]) - 1
      /\ \A i \in 1 .. Len(queue[s]) - 1 : Tail(queue[s])[i] = queue[s][i + 1]
  BY <1>1, <1>6
<1>8. r \in Snapshots /\ v \in Saves /\ v # NoSave /\ n \in Nat
  BY <1>2, <1>3, <1>4, <1>6, <1>7 DEF Snapshots, Saves, NoSave
<1>9. /\ snapshots' \in Seq(Snapshots) /\ Ids' = Ids \cup {n} /\ n \notin Ids
      /\ snapshots'[n] = r /\ \A id \in Ids : snapshots'[id] = snapshots[id]
  BY <1>2, <1>5, <1>6, <1>8 DEF Ids
<1>10. ContentsStay /\ \A id \in Ids : Whole(id) => StaysWhole(id)
  BY <1>9 DEF ContentsStay, Whole, StaysWhole
<1>11. /\ save'[s] = v /\ queue'[s] = Tail(queue[s])
       /\ \A t \in Servers \ {s} : save'[t] = save[t] /\ queue'[t] = queue[t]
  BY <1>0, <1>1, <1>5 DEF SnapshotsShaped
<1>12. SnapshotsShaped'
  <2>1. queue' \in [Servers -> Seq(Contents)]
    BY <1>0, <1>1, <1>7 DEF SnapshotsShaped
  <2>2. save' \in [Servers -> Saves]
    BY <1>0, <1>5, <1>8 DEF SnapshotsShaped
  <2> QED BY <1>0, <1>1, <1>9, <2>1, <2>2 DEF SnapshotsShaped
<1>13. \A t \in Servers \ {s} : ServerOK(t)'
  <2> TAKE t \in Servers \ {s}
  <2>1. save[t] # NoSave => save[t].id \in Ids /\ save[t].id \notin history
    BY <1>0 DEF ServerOK, SavesGrow, SaveInOrder
  <2>2. LeavesSave(t)
    BY <1>1, <1>10, <2>1 DEF LeavesSave
  <2>3. /\ server'[t] = server[t] /\ memory'[t] = memory[t] /\ queue'[t] = queue[t] /\ save'[t] = save[t]
        /\ UNCHANGED <<document, unanswered>> /\ history' = history /\ ContentsStay
    BY <1>1, <1>10, <1>11
  <2> QED BY <2>2, <2>3, OthersStay
<1>14. DocumentIsOne' /\ RestartFindsAll' /\ FileIsAhead' /\ DiskShaped'
  <2>1. document.format = "normalized" /\ document.id \notin unanswered => StaysWhole(document.id)
    BY <1>0, <1>10 DEF DocumentIsOne, RestartFindsAll, CheckpointIsWhole
  <2>2. \A id \in history : ~Aged(id) => StaysWhole(id)
    BY <1>0, <1>10 DEF SnapshotsShaped, RestartFindsAll, CheckpointIsWhole, Aged
  <2> QED BY <1>1, <1>10, <2>1, <2>2, CheckpointStays
<1>15. SavesApart'
  BY <1>0, <1>4, <1>9, <1>11 DEF SavesApart, ServerOK, SavesGrow
<1>16. SavesGrow(s)'
  <2>1. \A i \in DOMAIN queue[s] :
           /\ queue[s][i] \subseteq memory[s]
           /\ \A j \in DOMAIN queue[s] : i <= j => queue[s][i] \subseteq queue[s][j]
    BY <1>0 DEF ServerOK, SavesGrow
  <2>2. \A i \in DOMAIN Tail(queue[s]) :
           /\ Tail(queue[s])[i] \subseteq memory[s]
           /\ queue[s][1] \subseteq Tail(queue[s])[i]
           /\ \A j \in DOMAIN Tail(queue[s]) : i <= j => Tail(queue[s])[i] \subseteq Tail(queue[s])[j]
    <3> TAKE i \in DOMAIN Tail(queue[s])
    <3>1. i + 1 \in DOMAIN queue[s] /\ 1 \in DOMAIN queue[s] /\ 1 <= i + 1
      BY <1>7
    <3>2. \A j \in DOMAIN Tail(queue[s]) : j + 1 \in DOMAIN queue[s] /\ (i <= j => i + 1 <= j + 1)
      BY <1>7
    <3>3. Tail(queue[s])[i] = queue[s][i + 1]
      BY <1>7
    <3>4. queue[s][i + 1] \subseteq memory[s] /\ queue[s][1] \subseteq queue[s][i + 1]
      BY <2>1, <3>1
    <3>5. \A j \in DOMAIN Tail(queue[s]) : i <= j => Tail(queue[s])[i] \subseteq Tail(queue[s])[j]
      <4> TAKE j \in DOMAIN Tail(queue[s])
      <4> HAVE i <= j
      <4>1. Tail(queue[s])[j] = queue[s][j + 1]
        BY <1>7
      <4>2. queue[s][i + 1] \subseteq queue[s][j + 1]
        BY <2>1, <3>1, <3>2
      <4> QED BY <3>3, <4>1, <4>2
    <3> QED BY <3>3, <3>4, <3>5
  <2>3. v.id = n /\ r.content = queue[s][1] /\ queue[s][1] \subseteq memory[s]
    BY <1>3, <1>4, <1>7, <2>1
  <2> QED BY <1>1, <1>9, <1>11, <2>2, <2>3 DEF SavesGrow
<1>17. CurrentHasAll(s)'
  <2>1. Durable' = Durable
    BY <1>0, <1>1, <1>9 DEF Durable, DocumentIsOne
  <2>2. IsCurrent(s) => /\ Durable \subseteq memory[s]
                        /\ \A i \in DOMAIN queue[s] : Durable \subseteq queue[s][i]
    BY <1>0, <1>1 DEF ServerOK, CurrentHasAll
  <2>3. IsCurrent(s) => /\ Durable \subseteq r.content
                        /\ \A i \in DOMAIN Tail(queue[s]) : Durable \subseteq Tail(queue[s])[i]
    BY <1>3, <1>7, <2>2
  <2>4. v.id = n
    BY <1>4
  <2> QED BY <1>1, <1>9, <1>11, <2>1, <2>2, <2>3, <2>4 DEF CurrentHasAll, IsCurrent
<1>18. ServerInOrder(s)'
  BY <1>0, <1>1 DEF ServerOK, ServerInOrder
<1>19. SaveInOrder(s)'
  <2>1. v.id = n /\ v.stage = "write" /\ r.version = server[s].version + 1
    BY <1>3, <1>4
  <2>2. n \notin history /\ (document.format = "normalized" => n # document.id)
    BY <1>0, <1>9 DEF SnapshotsShaped, DocumentIsOne
  <2> QED BY <1>1, <1>9, <1>11, <2>1, <2>2 DEF SaveInOrder
<1> QED BY <1>12, <1>13, <1>14, <1>15, <1>16, <1>17, <1>18, <1>19 DEF SnapshotsInv, ServerOK

\* The records of one snapshot change.
LEMMA FieldsChange ==
    ASSUME SnapshotsShaped, NEW id \in Ids, NEW fields \in SUBSET Fields,
           snapshots' = [snapshots EXCEPT ![id].fields = fields]
    PROVE  /\ snapshots' \in Seq(Snapshots) /\ Ids' = Ids /\ ContentsStay
           /\ snapshots'[id].fields = fields
           /\ \A other \in Ids \ {id} : Whole(other) => StaysWhole(other)
<1>1. snapshots \in Seq(Snapshots) /\ snapshots[id] \in Snapshots
  BY DEF SnapshotsShaped, Ids
<1>2. PICK r : r = [snapshots[id] EXCEPT !.fields = fields]
  OBVIOUS
<1>3. /\ r \in Snapshots /\ r.fields = fields
      /\ r.content = snapshots[id].content /\ r.version = snapshots[id].version
  BY <1>1, <1>2 DEF Snapshots
<1>4. snapshots' = [snapshots EXCEPT ![id] = r]
  BY <1>1, <1>2 DEF Ids
<1>5. /\ DOMAIN snapshots' = DOMAIN snapshots /\ snapshots'[id] = r
      /\ \A other \in Ids \ {id} : snapshots'[other] = snapshots[other]
  BY <1>1, <1>4 DEF Ids
<1>6. snapshots' \in Seq(Snapshots)
  BY <1>1, <1>3, <1>4 DEF Ids
<1> QED BY <1>3, <1>5, <1>6 DEF Ids, ContentsStay, Whole, StaysWhole

LEMMA FieldsAreWritten ==
    ASSUME SnapshotsInv, NEW s \in Servers, NEW f \in Fields, WriteField(s, f)
    PROVE  SnapshotsInv'
<1>0. /\ SnapshotsShaped /\ DocumentIsOne /\ SavesApart /\ RestartFindsAll
      /\ \A t \in Servers : ServerOK(t)
  BY DEF SnapshotsInv
<1>1. /\ UNCHANGED <<document, history, acked, unanswered, disk, memory, server, queue, save>>
      /\ save[s].stage = "write"
      /\ snapshots' = [snapshots EXCEPT ![save[s].id].fields = @ \cup {f}]
  BY DEF WriteField, SaveIs, serverVars, answerVars
<1>2. PICK id : id = save[s].id
  OBVIOUS
<1>3. id \in Ids
  BY <1>0, <1>1, <1>2 DEF ServerOK, SavesGrow, NoSave
<1>4. PICK fields : fields = snapshots[id].fields \cup {f}
  OBVIOUS
<1>5. fields \in SUBSET Fields /\ (Whole(id) => fields = Fields)
  <2>1. snapshots[id] \in Snapshots
    BY <1>0, <1>3 DEF SnapshotsShaped, Ids
  <2> QED BY <1>4, <2>1 DEF Snapshots, Whole
<1>6. snapshots' = [snapshots EXCEPT ![id].fields = fields]
  BY <1>1, <1>2, <1>4
<1>7. /\ snapshots' \in Seq(Snapshots) /\ Ids' = Ids /\ ContentsStay
      /\ snapshots'[id].fields = fields
      /\ \A other \in Ids \ {id} : Whole(other) => StaysWhole(other)
  BY <1>0, <1>3, <1>5, <1>6, FieldsChange
<1>8. \A other \in Ids : Whole(other) => StaysWhole(other)
  BY <1>5, <1>7 DEF StaysWhole
<1>9. SnapshotsShaped'
  BY <1>0, <1>1, <1>7 DEF SnapshotsShaped
<1>10. \A t \in Servers : ServerOK(t)'
  <2> TAKE t \in Servers
  <2>1. LeavesSave(t)
    BY <1>0, <1>1, <1>8 DEF ServerOK, SavesGrow, SaveInOrder, LeavesSave
  <2>2. /\ server'[t] = server[t] /\ memory'[t] = memory[t] /\ queue'[t] = queue[t] /\ save'[t] = save[t]
        /\ UNCHANGED <<document, unanswered>>
    BY <1>1
  <2> QED BY <1>7, <2>1, <2>2, OthersStay
<1>11. DocumentIsOne' /\ RestartFindsAll' /\ FileIsAhead' /\ DiskShaped'
  <2>1. document.format = "normalized" /\ document.id \notin unanswered => StaysWhole(document.id)
    BY <1>0, <1>8 DEF DocumentIsOne, RestartFindsAll, CheckpointIsWhole
  <2>2. \A d \in history : ~Aged(d) => StaysWhole(d)
    BY <1>0, <1>8 DEF SnapshotsShaped, RestartFindsAll, CheckpointIsWhole, Aged
  <2> QED BY <1>1, <1>7, <2>1, <2>2, CheckpointStays
<1>12. SavesApart'
  BY <1>0, <1>1 DEF SavesApart
<1> QED BY <1>9, <1>10, <1>11, <1>12 DEF SnapshotsInv

LEMMA RecordsAreDeleted ==
    ASSUME SnapshotsInv, NEW s \in Servers, NEW deleted \in Deletions, DeleteRecords(s, deleted)
    PROVE  SnapshotsInv'
<1>0. /\ SnapshotsShaped /\ DocumentIsOne /\ SavesApart /\ RestartFindsAll
      /\ \A t \in Servers : ServerOK(t)
  BY DEF SnapshotsInv
<1>1. /\ UNCHANGED <<document, history, acked, unanswered, disk, memory>>
      /\ save[s].stage = "delete" /\ Stopped(s)
      /\ snapshots' = [snapshots EXCEPT ![save[s].id].fields = @ \ deleted]
  BY DEF DeleteRecords, SaveIs, answerVars
<1>2. PICK id : id = save[s].id
  OBVIOUS
<1>3. save[s] # NoSave /\ id \in Ids
  BY <1>0, <1>1, <1>2 DEF ServerOK, SavesGrow, NoSave
<1>4. PICK fields : fields = snapshots[id].fields \ deleted
  OBVIOUS
<1>5. fields \in SUBSET Fields
  <2>1. snapshots[id] \in Snapshots
    BY <1>0, <1>3 DEF SnapshotsShaped, Ids
  <2> QED BY <1>4, <2>1 DEF Snapshots
<1>6. snapshots' = [snapshots EXCEPT ![id].fields = fields]
  BY <1>1, <1>2, <1>4
<1>7. /\ snapshots' \in Seq(Snapshots) /\ Ids' = Ids /\ ContentsStay
      /\ \A other \in Ids \ {id} : Whole(other) => StaysWhole(other)
  BY <1>0, <1>3, <1>5, <1>6, FieldsChange
<1>8. /\ server' \in [Servers -> ServerStates] /\ queue' \in [Servers -> Seq(Contents)]
      /\ save' \in [Servers -> Saves] /\ save'[s] = NoSave /\ ServerOK(s)'
      /\ \A t \in Servers \ {s} : server'[t] = server[t] /\ queue'[t] = queue[t] /\ save'[t] = save[t]
  BY <1>0, <1>1, <1>3, StoppedOK
<1>9. SnapshotsShaped'
  BY <1>0, <1>1, <1>7, <1>8 DEF SnapshotsShaped
<1>10. \A t \in Servers \ {s} : ServerOK(t)'
  <2> TAKE t \in Servers \ {s}
  <2>1. save[t] # NoSave => save[t].id \in Ids \ {id} /\ save[t].id \notin history
    BY <1>0, <1>2, <1>3 DEF SavesApart, ServerOK, SavesGrow, SaveInOrder
  <2>2. LeavesSave(t)
    BY <1>1, <1>7, <2>1 DEF LeavesSave
  <2>3. /\ server'[t] = server[t] /\ memory'[t] = memory[t] /\ queue'[t] = queue[t] /\ save'[t] = save[t]
        /\ UNCHANGED <<document, unanswered>>
    BY <1>1, <1>8
  <2> QED BY <1>7, <2>2, <2>3, OthersStay
<1>11. DocumentIsOne' /\ RestartFindsAll' /\ FileIsAhead' /\ DiskShaped'
  <2>0. id \notin history /\ (document.format = "normalized" => id # document.id \/ id \in unanswered)
    BY <1>0, <1>1, <1>2, <1>3 DEF ServerOK, SaveInOrder
  <2>1. document.format = "normalized" /\ document.id \notin unanswered => StaysWhole(document.id)
    BY <1>0, <1>7, <2>0 DEF DocumentIsOne, RestartFindsAll, CheckpointIsWhole
  <2>2. \A d \in history : ~Aged(d) => StaysWhole(d)
    BY <1>0, <1>7, <2>0 DEF SnapshotsShaped, RestartFindsAll, CheckpointIsWhole, Aged
  <2> QED BY <1>1, <1>7, <2>1, <2>2, CheckpointStays
<1>12. SavesApart'
  <2>1. ASSUME NEW t \in Servers, NEW u \in Servers, t # u, save'[t] # NoSave, save'[u] # NoSave
        PROVE  save'[t].id # save'[u].id
    <3>1. t # s /\ u # s
      BY <1>8, <2>1
    <3>2. save'[t] = save[t] /\ save'[u] = save[u]
      BY <1>8, <3>1
    <3>3. save[t].id # save[u].id
      BY <1>0, <2>1, <3>2 DEF SavesApart
    <3> QED BY <3>2, <3>3
  <2> QED BY <2>1 DEF SavesApart
<1> QED BY <1>8, <1>9, <1>10, <1>11, <1>12 DEF SnapshotsInv

\* Maintenance keeps what the checkpoint and the recent history name.
LEMMA SavesAreMaintained ==
    ASSUME SnapshotsInv, NEW s \in Servers, NEW recorded, NEW pruned, Maintain(s, recorded, pruned)
    PROVE  SnapshotsInv'
<1>0. /\ SnapshotsShaped /\ DocumentIsOne /\ SavesApart /\ RestartFindsAll
      /\ FileIsAhead /\ DiskShaped /\ \A t \in Servers : ServerOK(t)
  BY DEF SnapshotsInv
<1>1. PICK id : id = save[s].id
  OBVIOUS
<1>2. PICK v : v = snapshots[id].version
  OBVIOUS
<1>3. /\ save[s].stage = "maintain" /\ save' = [save EXCEPT ![s] = NoSave]
      /\ history' \in {history, history \cup {id}} /\ acked' = acked \cup snapshots[id].content
      /\ snapshots' = [i \in Ids |-> IF Prunable(i, v) THEN [snapshots[i] EXCEPT !.fields = @ \ pruned]
                                     ELSE snapshots[i]]
      /\ UNCHANGED <<document, memory, server, queue, unanswered, disk>>
  BY <1>1, <1>2 DEF Maintain, SaveIs
<1>4. save[s] # NoSave /\ id \in Ids /\ snapshots \in Seq(Snapshots) /\ document.version \in Nat
  BY <1>0, <1>1, <1>3 DEF ServerOK, SavesGrow, NoSave, SnapshotsShaped
<1>5. /\ Retention \in Nat \ {0} /\ v \in Nat /\ v <= document.version
      /\ id \notin history /\ snapshots[id].content \subseteq Durable /\ (Aged(id) \/ Whole(id))
  <2>1. Retention \in Nat \ {0}
    BY SnapshotsAssumption
  <2>2. snapshots[id] \in Snapshots
    BY <1>4 DEF Ids
  <2> QED BY <1>0, <1>1, <1>2, <1>3, <1>4, <2>1, <2>2 DEF ServerOK, SaveInOrder, Snapshots
<1>6. \A i \in Ids : /\ snapshots[i] \in Snapshots /\ snapshots'[i] \in Snapshots
                     /\ snapshots'[i].content = snapshots[i].content
                     /\ snapshots'[i].version = snapshots[i].version
                     /\ ~Prunable(i, v) => snapshots'[i] = snapshots[i]
  <2> TAKE i \in Ids
  <2>1. snapshots[i] \in Snapshots
    BY <1>4 DEF Ids
  <2>2. PICK r : r = [snapshots[i] EXCEPT !.fields = @ \ pruned]
    OBVIOUS
  <2>3. r \in Snapshots /\ r.content = snapshots[i].content /\ r.version = snapshots[i].version
    BY <2>1, <2>2 DEF Snapshots
  <2>4. snapshots'[i] = IF Prunable(i, v) THEN r ELSE snapshots[i]
    BY <1>3, <2>2
  <2> QED BY <2>1, <2>3, <2>4
<1>7. snapshots' \in Seq(Snapshots) /\ Ids' = Ids
  <2>1. Ids = 1 .. Len(snapshots) /\ Len(snapshots) \in Nat
    BY <1>4 DEF Ids
  <2>2. DOMAIN snapshots' = Ids /\ \A i \in Ids : snapshots'[i] \in Snapshots
    BY <1>3, <1>6
  <2>3. snapshots' \in [1 .. Len(snapshots) -> Snapshots]
    <3>1. snapshots' = [i \in Ids |-> snapshots'[i]]
      BY <1>3
    <3> QED BY <2>1, <2>2, <3>1
  <2> QED BY <2>1, <2>2, <2>3 DEF Ids
<1>8. ContentsStay
  BY <1>6, <1>7 DEF ContentsStay
<1>9. \A i \in Ids : /\ Whole(i) /\ ~Prunable(i, v) => StaysWhole(i)
                     /\ Prunable(i, v) => Aged(i) /\ snapshots[i].version < document.version
  <2> TAKE i \in Ids
  <2>1. snapshots[i].version \in Nat
    BY <1>6 DEF Snapshots
  <2> QED BY <1>4, <1>5, <1>6, <2>1 DEF Whole, StaysWhole, Prunable, Aged
<1>10. /\ save'[s] = NoSave /\ \A t \in Servers \ {s} : save'[t] = save[t]
       /\ save' \in [Servers -> Saves]
  BY <1>0, <1>3 DEF SnapshotsShaped, Saves
<1>11. SnapshotsShaped'
  BY <1>0, <1>3, <1>4, <1>7, <1>10 DEF SnapshotsShaped
<1>12. \A t \in Servers \ {s} : ServerOK(t)'
  <2> TAKE t \in Servers \ {s}
  <2>1. save[t] # NoSave => save[t].id \in Ids \ {id} /\ save[t].id \notin history
    BY <1>0, <1>1, <1>4 DEF SavesApart, ServerOK, SavesGrow, SaveInOrder
  <2>2. save[t] # NoSave /\ save[t].stage \in {"update", "insert"} /\ IsCurrent(t) =>
           ~Prunable(save[t].id, v)
    <3>1. save[t] # NoSave /\ save[t].stage \in {"update", "insert"} /\ IsCurrent(t) =>
             snapshots[save[t].id].version = document.version + 1
      BY <1>0 DEF ServerOK, SaveInOrder, IsCurrent
    <3> QED BY <1>4, <1>9, <2>1, <3>1
  <2>3. save[t] # NoSave => save[t].stage \in {"write", "update", "insert", "maintain", "delete"}
    BY <1>0 DEF SnapshotsShaped, Saves
  <2>4. LeavesSave(t)
    BY <1>3, <1>9, <2>1, <2>2, <2>3 DEF LeavesSave
  <2>5. /\ server'[t] = server[t] /\ memory'[t] = memory[t] /\ queue'[t] = queue[t] /\ save'[t] = save[t]
        /\ UNCHANGED <<document, unanswered>>
    BY <1>3, <1>10
  <2> QED BY <1>8, <2>4, <2>5, OthersStay
<1>13. Durable' = Durable
  BY <1>0, <1>3, <1>6 DEF Durable, DocumentIsOne
<1>14. ServerOK(s)'
  <2>1. SavesGrow(s)'
    BY <1>0, <1>3, <1>10 DEF ServerOK, SavesGrow
  <2>2. CurrentHasAll(s)'
    BY <1>0, <1>3, <1>10, <1>13 DEF ServerOK, CurrentHasAll, IsCurrent, NoSave
  <2>3. ServerInOrder(s)' /\ SaveInOrder(s)'
    BY <1>0, <1>3, <1>7, <1>10 DEF ServerOK, ServerInOrder, SaveInOrder
  <2> QED BY <2>1, <2>2, <2>3 DEF ServerOK
<1>15. DocumentIsOne' /\ FileIsAhead' /\ DiskShaped' /\ SavesApart'
  BY <1>0, <1>3, <1>6, <1>7, <1>10 DEF DocumentIsOne, FileIsAhead, DiskShaped, SavesApart
<1>16. CheckpointIsWhole'
  <2>1. document.format = "normalized" /\ document.id \notin unanswered => StaysWhole(document.id)
    BY <1>0, <1>4, <1>9 DEF DocumentIsOne, RestartFindsAll, CheckpointIsWhole
  <2>2. \A d \in history' : ~Aged(d) => StaysWhole(d)
    BY <1>0, <1>3, <1>4, <1>5, <1>9 DEF SnapshotsShaped, RestartFindsAll, CheckpointIsWhole, Aged
  <2>3. \A d \in history' : snapshots'[d].version > document.version - Retention => StaysWhole(d)
    BY <1>0, <1>3, <1>4, <1>6, <2>2 DEF SnapshotsShaped, Aged
  <2> QED BY <1>3, <2>1, <2>3 DEF CheckpointIsWhole, StaysWhole, Whole
<1>17. FlushedIsKept'
  BY <1>0, <1>3, <1>5, <1>13 DEF RestartFindsAll, FlushedIsKept
<1> QED BY <1>11, <1>12, <1>14, <1>15, <1>16, <1>17 DEF SnapshotsInv, RestartFindsAll

\* The checkpoint moves: only a process with its version moves it.
LEMMA CheckpointMoves ==
    ASSUME SnapshotsInv, NEW s \in Servers, save[s].stage \in {"update", "insert"}, IsCurrent(s),
           document' = MovedTo(save[s].id),
           UNCHANGED <<snapshots, history, acked, memory, queue, disk>>,
           \/ Committed(s) /\ UNCHANGED unanswered
           \/ To(s, "delete") /\ UNCHANGED server /\ unanswered' = unanswered \cup {save[s].id}
    PROVE  SnapshotsInv'
<1>0. /\ SnapshotsShaped /\ DocumentIsOne /\ SavesApart /\ RestartFindsAll
      /\ FileIsAhead /\ DiskShaped /\ \A t \in Servers : ServerOK(t)
  BY DEF SnapshotsInv
<1>1. PICK id : id = save[s].id
  OBVIOUS
<1>2. save[s] # NoSave /\ id \in Ids /\ server[s].stage = "healthy" /\ server[s] \in ServerStates
  BY <1>0, <1>1 DEF ServerOK, SavesGrow, ServerInOrder, NoSave, SnapshotsShaped
<1>3. /\ document.version \in Nat /\ snapshots[id] \in Snapshots
      /\ snapshots[id].version = document.version + 1 /\ server[s].version = document.version
      /\ Whole(id) /\ id \notin history
      /\ Durable \subseteq snapshots[id].content /\ snapshots[id].content \subseteq memory[s]
      /\ \A i \in DOMAIN queue[s] : snapshots[id].content \subseteq queue[s][i]
  <2>1. document.version \in Nat /\ snapshots[id] \in Snapshots
    BY <1>0, <1>2 DEF SnapshotsShaped, Ids
  <2>2. snapshots[id].version = document.version + 1 /\ Whole(id) /\ id \notin history
    BY <1>0, <1>1, <1>2 DEF ServerOK, SaveInOrder, IsCurrent
  <2>3. Durable \subseteq snapshots[id].content
    BY <1>0, <1>1, <1>2 DEF ServerOK, CurrentHasAll
  <2>4. /\ snapshots[id].content \subseteq memory[s]
        /\ \A i \in DOMAIN queue[s] : snapshots[id].content \subseteq queue[s][i]
    BY <1>0, <1>1, <1>2 DEF ServerOK, SavesGrow
  <2> QED BY <2>1, <2>2, <2>3, <2>4 DEF IsCurrent
<1>4. /\ document'.format = "normalized" /\ document'.id = id
      /\ document'.version = document.version + 1 /\ document'.payload = {}
      /\ document' \in [format : {"empty", "legacy", "normalized"}, version : Nat,
                        payload : Contents, id : Nat]
  <2>1. id \in Nat /\ {} \in Contents
    BY <1>0, <1>2 DEF SnapshotsShaped, Ids, Contents
  <2> QED BY <1>1, <1>3, <2>1 DEF MovedTo
<1>5. Durable' = snapshots[id].content
  BY <1>4 DEF Durable
<1>6. Ids' = Ids /\ \A d : Whole(d)' = Whole(d)
  BY DEF Ids, Whole
<1>7. \A d \in Ids : Aged(d) => Aged(d)'
  <2> TAKE d \in Ids
  <2>1. snapshots[d] \in Snapshots
    BY <1>0 DEF SnapshotsShaped, Ids
  <2>2. Retention \in Nat
    BY SnapshotsAssumption
  <2> QED BY <1>3, <1>4, <2>1, <2>2 DEF Aged, Snapshots
<1>8. PICK v : /\ v = [save[s] EXCEPT !.stage = v.stage] /\ save' = [save EXCEPT ![s] = v]
               /\ \/ v.stage = "maintain" /\ UNCHANGED unanswered
                     /\ server' = [server EXCEPT ![s].version = @ + 1, ![s].legacy = {}, ![s].read = save[s].id]
                  \/ v.stage = "delete" /\ UNCHANGED server /\ unanswered' = unanswered \cup {id}
  <2>1. save[s] \in [stage : {"write", "update", "insert", "maintain", "delete"}, id : Nat]
    BY <1>0, <1>2 DEF SnapshotsShaped, Saves
  <2>2. PICK stage \in {"maintain", "delete"} :
           /\ To(s, stage)
           /\ \/ stage = "maintain" /\ UNCHANGED unanswered
                 /\ server' = [server EXCEPT ![s].version = @ + 1, ![s].legacy = {}, ![s].read = save[s].id]
              \/ stage = "delete" /\ UNCHANGED server /\ unanswered' = unanswered \cup {id}
    BY <1>1 DEF Committed
  <2>3. PICK v : v = [save[s] EXCEPT !.stage = stage]
    OBVIOUS
  <2>4. v.stage = stage /\ save' = [save EXCEPT ![s] = v] /\ v = [save[s] EXCEPT !.stage = v.stage]
    BY <1>0, <2>1, <2>2, <2>3 DEF To, SnapshotsShaped
  <2> QED BY <2>2, <2>4
<1>9. v \in Saves /\ v.id = id /\ v # NoSave
  <2>1. save[s] \in [stage : {"write", "update", "insert", "maintain", "delete"}, id : Nat]
    BY <1>0, <1>2 DEF SnapshotsShaped, Saves
  <2> QED BY <1>1, <1>8, <2>1 DEF Saves, NoSave
<1>10. /\ save'[s] = v /\ server'[s].stage = "healthy" /\ server' \in [Servers -> ServerStates]
       /\ v.stage = "maintain" => server'[s].version = document'.version
       /\ v.stage = "delete" => server'[s].version = document.version
       /\ \A t \in Servers \ {s} : save'[t] = save[t] /\ server'[t] = server[t]
  <2>1. id \in Nat /\ {} \in Contents
    BY <1>0, <1>2 DEF SnapshotsShaped, Ids, Contents
  <2>2. PICK r : r = [server[s] EXCEPT !.version = @ + 1, !.legacy = {}, !.read = id]
    OBVIOUS
  <2>3. /\ r \in ServerStates /\ r.stage = "healthy" /\ r.version = document.version + 1
    <3>1. PICK w \in ServerStates : w = server[s]
      BY <1>2
    <3>2. w.stage = "healthy" /\ w.version = document.version /\ w.version + 1 \in Nat
      BY <1>2, <1>3, <3>1
    <3>3. r = [stage |-> w.stage, version |-> w.version + 1, legacy |-> {}, read |-> id]
      BY <2>2, <3>1 DEF ServerStates
    <3> QED BY <2>1, <3>2, <3>3 DEF ServerStates
  <2>4. save'[s] = v /\ \A t \in Servers \ {s} : save'[t] = save[t]
    BY <1>0, <1>8 DEF SnapshotsShaped
  <2>5. CASE v.stage = "delete" /\ UNCHANGED server
    BY <1>0, <1>2, <1>3, <2>4, <2>5 DEF SnapshotsShaped
  <2>6. CASE v.stage = "maintain" /\ server' = [server EXCEPT ![s].version = @ + 1, ![s].legacy = {}, ![s].read = save[s].id]
    <3>1. server' = [server EXCEPT ![s] = r]
      BY <1>0, <1>1, <1>2, <2>2, <2>6 DEF SnapshotsShaped, ServerStates
    <3>2. server \in [Servers -> ServerStates]
      BY <1>0 DEF SnapshotsShaped
    <3>3. server' \in [Servers -> ServerStates]
      BY <2>3, <3>1, <3>2
    <3>4. server'[s] = r /\ \A t \in Servers \ {s} : server'[t] = server[t]
      BY <3>1, <3>2
    <3>5. server'[s].stage = "healthy" /\ server'[s].version = document'.version
      BY <1>4, <2>3, <3>4
    <3> QED BY <2>4, <2>6, <3>3, <3>4, <3>5
  <2> QED BY <1>8, <2>5, <2>6
<1>11. SnapshotsShaped'
  BY <1>0, <1>4, <1>6, <1>8, <1>9, <1>10 DEF SnapshotsShaped
<1>12. \A t \in Servers \ {s} : ServerOK(t)'
  <2> TAKE t \in Servers \ {s}
  <2>1. server[t].stage # "down" => server[t].version <= document.version
    BY <1>0 DEF ServerOK, ServerInOrder
  <2>2. server[t].version \in Nat
    BY <1>0 DEF SnapshotsShaped, ServerStates
  <2>3. server[t].stage # "down" => ~IsCurrent(t)' /\ server'[t].version <= document'.version
    BY <1>3, <1>4, <1>10, <2>1, <2>2 DEF IsCurrent
  <2>4. SavesGrow(t)'
    BY <1>0, <1>6, <1>10 DEF ServerOK, SavesGrow
  <2>5. CurrentHasAll(t)'
    BY <1>10, <2>3 DEF CurrentHasAll
  <2>6. ServerInOrder(t)'
    BY <1>0, <1>4, <1>6, <1>10, <2>3 DEF ServerOK, ServerInOrder
  <2>7. SaveInOrder(t)'
    <3> SUFFICES ASSUME save[t] # NoSave PROVE SaveInOrder(t)'
      BY <1>10 DEF SaveInOrder
    <3>1. save[t].id \in Ids /\ save[t].id # id /\ save[t].id \notin history /\ server[t].stage # "down"
      BY <1>0, <1>1, <1>2 DEF SavesApart, ServerOK, SavesGrow, SaveInOrder, ServerInOrder
    <3>2. snapshots[save[t].id].version \in Nat
      <4>1. snapshots[save[t].id] \in Snapshots
        BY <1>0, <3>1 DEF SnapshotsShaped, Ids
      <4> QED BY <4>1 DEF Snapshots
    <3>3. save[t].stage = "maintain" =>
             /\ snapshots[save[t].id].version <= document'.version
             /\ snapshots[save[t].id].content \subseteq Durable'
             /\ Aged(save[t].id)' \/ Whole(save[t].id)'
      <4>1. save[t].stage = "maintain" =>
             /\ snapshots[save[t].id].version <= document.version
             /\ snapshots[save[t].id].content \subseteq Durable
             /\ Aged(save[t].id) \/ Whole(save[t].id)
        BY <1>0 DEF ServerOK, SaveInOrder
      <4>2. PICK d \in Ids : d = save[t].id
        BY <3>1
      <4>3. save'[t].id = d
        BY <1>10, <4>2
      <4> QED BY <1>3, <1>4, <1>5, <1>6, <1>7, <3>2, <4>1, <4>2, <4>3
    <3>4. save[t].stage \in {"write", "update", "insert"} =>
             snapshots[save[t].id].version = server[t].version + 1
      BY <1>0 DEF ServerOK, SaveInOrder
    <3>5. save[t].stage = "insert" => server[t].version = 0
      BY <1>0 DEF ServerOK, SaveInOrder
    <3> QED BY <1>4, <1>10, <2>3, <3>1, <3>3, <3>4, <3>5 DEF SaveInOrder
  <2> QED BY <2>4, <2>5, <2>6, <2>7 DEF ServerOK
<1>13. ServerOK(s)'
  <2>1. SavesGrow(s)'
    BY <1>0, <1>2, <1>3, <1>6, <1>9, <1>10 DEF ServerOK, SavesGrow
  <2>2. CurrentHasAll(s)'
    BY <1>3, <1>4, <1>5, <1>8, <1>10 DEF CurrentHasAll, IsCurrent
  <2>3. ServerInOrder(s)'
    BY <1>3, <1>4, <1>8, <1>10 DEF ServerInOrder
  <2>4. SaveInOrder(s)'
    BY <1>3, <1>4, <1>5, <1>6, <1>8, <1>9, <1>10 DEF SaveInOrder, Whole
  <2> QED BY <2>1, <2>2, <2>3, <2>4 DEF ServerOK
<1>14. DocumentIsOne' /\ FileIsAhead' /\ DiskShaped'
  BY <1>0, <1>2, <1>3, <1>4, <1>6 DEF DocumentIsOne, FileIsAhead, DiskShaped
<1>15. SavesApart'
  BY <1>0, <1>1, <1>2, <1>9, <1>10 DEF SavesApart
<1>16. CheckpointIsWhole'
  <2>1. \A d \in history : snapshots[d].version > document'.version - Retention => Whole(d)
    <3>1. \A d \in history : d \in Ids /\ (~Aged(d) => Whole(d))
      BY <1>0 DEF SnapshotsShaped, RestartFindsAll, CheckpointIsWhole, Aged
    <3>2. \A d \in history : ~Aged(d)' => ~Aged(d)
      BY <1>7, <3>1
    <3> QED BY <3>1, <3>2 DEF Aged
  <2> QED BY <1>3, <1>4, <2>1 DEF CheckpointIsWhole, Whole
<1>17. FlushedIsKept'
  BY <1>0, <1>3, <1>5 DEF RestartFindsAll, FlushedIsKept
<1> QED BY <1>11, <1>12, <1>13, <1>14, <1>15, <1>16, <1>17 DEF SnapshotsInv, RestartFindsAll

LEMMA SnapshotsInvInit == SnapshotsInit => SnapshotsInv
<1> SUFFICES ASSUME SnapshotsInit PROVE SnapshotsInv  OBVIOUS
<1>1. /\ document \in {[format |-> "empty", version |-> 0, payload |-> {}, id |-> 0],
                       [format |-> "legacy", version |-> 0, payload |-> LegacyPayload, id |-> 0]}
      /\ snapshots = <<>> /\ history = {} /\ acked = document.payload
      /\ queue = [t \in Servers |-> <<>>] /\ save = [t \in Servers |-> NoSave]
      /\ disk = [up |-> FALSE, memory |-> {}, file |-> {}, temp |-> {}, stage |-> "idle", returned |-> {}]
  BY DEF SnapshotsInit
<1>2. PICK r : r = [stage |-> "healthy", version |-> document.version,
                    legacy |-> document.payload, read |-> document.id]
  OBVIOUS
<1>3. /\ server = [t \in Servers |-> IF t \in Connected THEN r ELSE Down]
      /\ memory = [t \in Servers |-> IF t \in Connected THEN document.payload ELSE {}]
  BY <1>2 DEF SnapshotsInit
<1>4. {} \in Contents /\ LegacyPayload \in Contents
  BY SnapshotsAssumption DEF Contents
<1>5. /\ document.payload \in Contents /\ document.format \in {"empty", "legacy"}
      /\ document.version = 0 /\ document.id = 0
      /\ document.format = "empty" => document.payload = {}
      /\ document \in [format : {"empty", "legacy", "normalized"}, version : Nat,
                       payload : Contents, id : Nat]
  <2>1. CASE document = [format |-> "empty", version |-> 0, payload |-> {}, id |-> 0]
    BY <1>4, <2>1
  <2>2. CASE document = [format |-> "legacy", version |-> 0, payload |-> LegacyPayload, id |-> 0]
    BY <1>4, <2>2
  <2> QED BY <1>1, <2>1, <2>2
<1>6. r \in ServerStates /\ r.stage = "healthy" /\ r.version = 0 /\ Down \in ServerStates
  BY <1>2, <1>4, <1>5 DEF ServerStates, Down
<1>7. SnapshotsShaped
  <2>1. snapshots \in Seq(Snapshots) /\ history \subseteq Ids
    BY <1>1
  <2>2. memory \in [Servers -> Contents] /\ server \in [Servers -> ServerStates]
    BY <1>3, <1>4, <1>5, <1>6
  <2>3. queue \in [Servers -> Seq(Contents)] /\ save \in [Servers -> Saves]
    BY <1>1 DEF Saves
  <2> QED BY <1>5, <2>1, <2>2, <2>3 DEF SnapshotsShaped
<1>8. Durable = document.payload
  BY <1>5, <1>7, DurableIsContent DEF DocumentIsOne
<1>9. \A s \in Servers : ServerOK(s)
  <2> TAKE s \in Servers
  <2>1. save[s] = NoSave /\ save[s].stage = "none" /\ queue[s] = <<>> /\ DOMAIN queue[s] = {}
    BY <1>1 DEF NoSave
  <2>2. /\ server[s].stage \in {"healthy", "down"} /\ server[s].version = 0
        /\ server[s].stage = "healthy" => memory[s] = document.payload
    BY <1>3, <1>6 DEF Down
  <2>3. SavesGrow(s) /\ SaveInOrder(s)
    BY <2>1 DEF SavesGrow, SaveInOrder
  <2>4. CurrentHasAll(s)
    BY <1>8, <2>1, <2>2 DEF CurrentHasAll
  <2>5. ServerInOrder(s)
    BY <1>5, <2>1, <2>2 DEF ServerInOrder
  <2> QED BY <2>3, <2>4, <2>5 DEF ServerOK
<1>10. SavesApart
  BY <1>1 DEF SavesApart
<1>11. DocumentIsOne /\ RestartFindsAll
  BY <1>1, <1>5, <1>8 DEF DocumentIsOne, RestartFindsAll, CheckpointIsWhole, FlushedIsKept
<1>12. FileIsAhead /\ DiskShaped
  BY <1>1 DEF FileIsAhead, DiskShaped
<1> QED BY <1>7, <1>9, <1>10, <1>11, <1>12 DEF SnapshotsInv

\* The store on a file, and steps of nothing the invariant speaks of.
LEMMA FilesMove ==
    ASSUME SnapshotsInv,
           UNCHANGED <<document, snapshots, history, acked, unanswered, memory, server, queue, save>>,
           FileIsAhead', DiskShaped', disk'.returned \ Samples \subseteq disk'.file
    PROVE  SnapshotsInv'
<1>0. /\ SnapshotsShaped /\ DocumentIsOne /\ SavesApart /\ RestartFindsAll
      /\ \A t \in Servers : ServerOK(t)
  BY DEF SnapshotsInv
<1>1. ContentsStay /\ \A d \in Ids : Whole(d) => StaysWhole(d)
  BY DEF ContentsStay, Ids, Whole, StaysWhole
<1>2. \A t \in Servers : ServerOK(t)'
  <2> TAKE t \in Servers
  <2>1. LeavesSave(t)
    BY <1>0, <1>1 DEF ServerOK, SavesGrow, SaveInOrder, LeavesSave
  <2>2. /\ server'[t] = server[t] /\ memory'[t] = memory[t] /\ queue'[t] = queue[t] /\ save'[t] = save[t]
        /\ UNCHANGED <<document, unanswered>>
    OBVIOUS
  <2> QED BY <1>1, <2>1, <2>2, OthersStay
<1>3. SnapshotsShaped' /\ SavesApart' /\ DocumentIsOne'
  BY <1>0 DEF SnapshotsShaped, SavesApart, DocumentIsOne, Ids
<1>4. RestartFindsAll'
  BY <1>0 DEF RestartFindsAll, CheckpointIsWhole, FlushedIsKept, Durable, Whole
<1> QED BY <1>2, <1>3, <1>4 DEF SnapshotsInv

LEMMA FileSteps ==
    ASSUME SnapshotsInv, FileStep
    PROVE  SnapshotsInv'
<1>0. /\ DOMAIN disk = {"up", "memory", "file", "temp", "stage", "returned"}
      /\ disk.stage = "rename" => disk.up /\ disk.memory \ Samples \subseteq disk.temp
      /\ disk.returned \ Samples \subseteq disk.file
  BY DEF SnapshotsInv, FileIsAhead, DiskShaped, RestartFindsAll, FlushedIsKept
<1>1. UNCHANGED <<document, snapshots, history, acked, unanswered, memory, server, queue, save>>
  BY DEF FileStep, FileOperates, FileRenames, FileCrashes, FileOpens,
         checkpointVars, serverVars, answerVars
<1>2. FileIsAhead' /\ DiskShaped' /\ disk'.returned \ Samples \subseteq disk'.file
  <2>1. ASSUME NEW o \in Operations, FileOperates(o)
        PROVE  FileIsAhead' /\ DiskShaped' /\ disk'.returned \ Samples \subseteq disk'.file
    BY <1>0, <2>1 DEF FileOperates, FileIsAhead, DiskShaped
  <2>2. CASE FileRenames
    BY <1>0, <2>2 DEF FileRenames, FileIsAhead, DiskShaped
  <2>3. CASE FileCrashes
    BY <1>0, <2>3 DEF FileCrashes, FileIsAhead, DiskShaped
  <2>4. CASE FileOpens
    BY <1>0, <2>4 DEF FileOpens, FileIsAhead, DiskShaped
  <2> QED BY <2>1, <2>2, <2>3, <2>4 DEF FileStep
<1> QED BY <1>1, <1>2, FilesMove

LEMMA SnapshotsInvHolds == SnapshotsSpec => []SnapshotsInv
<1>1. SnapshotsInv /\ [SnapshotsNext]_snapshotVars => SnapshotsInv'
  <2> SUFFICES ASSUME SnapshotsInv, [SnapshotsNext]_snapshotVars PROVE SnapshotsInv'
    OBVIOUS
  <2>1. ASSUME NEW s \in Servers, ConnectServer(s) \/ LoadRecords(s) \/ CrashServer(s) PROVE SnapshotsInv'
    BY <2>1, ServersStartAndStop
  <2>2. ASSUME NEW s \in Servers, Migrate(s) \/ \E o \in Operations : Operate(s, o) \/ OperateThrows(s, o)
        PROVE  SnapshotsInv'
    BY <2>2, OperationsSaved
  <2>3. ASSUME NEW s \in Servers, SaveStep(s) PROVE SnapshotsInv'
    <3>1. ASSUME CommitUpdate(s) \/ CommitInsert(s) \/ CommitAnswerLost(s) PROVE SnapshotsInv'
      <4>1. UNCHANGED <<snapshots, history, acked, memory, queue, disk>>
        BY <3>1 DEF CommitUpdate, CommitInsert, CommitAnswerLost, answerVars
      <4>2. CASE CommitUpdate(s)
        <5>1. CASE Matches(s)
          BY <4>1, <4>2, <5>1, CheckpointMoves DEF CommitUpdate, SaveIs, Matches, IsCurrent, answerVars
        <5>2. CASE ~Matches(s)
          BY <4>1, <4>2, <5>2, SaveMoves DEF CommitUpdate, SaveIs, answerVars
        <5> QED BY <5>1, <5>2
      <4>3. CASE CommitInsert(s)
        <5>1. CASE document.format = "empty"
          <6>1. IsCurrent(s)
            <7>1. save[s] # NoSave
              BY <4>3 DEF CommitInsert, SaveIs, NoSave
            <7> QED BY <4>3, <5>1, <7>1 DEF CommitInsert, SaveIs, SnapshotsInv, DocumentIsOne, ServerOK,
                                            SaveInOrder, IsCurrent
          <6> QED BY <4>1, <4>3, <5>1, <6>1, CheckpointMoves DEF CommitInsert, SaveIs, answerVars
        <5>2. CASE document.format # "empty"
          BY <4>1, <4>3, <5>2, SaveMoves DEF CommitInsert, SaveIs, answerVars
        <5> QED BY <5>1, <5>2
      <4>4. CASE CommitAnswerLost(s)
        BY <4>1, <4>4, CheckpointMoves DEF CommitAnswerLost, SaveIs, Matches, IsCurrent
      <4> QED BY <3>1, <4>2, <4>3, <4>4
    <3> QED BY <2>3, <3>1, SavesStart, SavesMove, FieldsAreWritten, SavesAreMaintained,
               RecordsAreDeleted DEF SaveStep
  <2>4. ASSUME FileStep PROVE SnapshotsInv'
    BY <2>4, FileSteps
  <2>5. ASSUME UNCHANGED snapshotVars PROVE SnapshotsInv'
    <3>1. FileIsAhead' /\ DiskShaped' /\ disk'.returned \ Samples \subseteq disk'.file
      BY <2>5 DEF snapshotVars, SnapshotsInv, FileIsAhead, DiskShaped, RestartFindsAll, FlushedIsKept
    <3> QED BY <2>5, <3>1, FilesMove DEF snapshotVars, checkpointVars, serverVars, answerVars
  <2> QED BY <2>1, <2>2, <2>3, <2>4, <2>5 DEF SnapshotsNext, MongoStep
<1> QED BY <1>1, SnapshotsInvInit, PTL DEF SnapshotsSpec

\* RestartFindsAll: with any number of processes, operations and saves, whichever of
\* them crash, fail half way or lose their answer, the checkpoint's records are whole
\* and hold what a flush answered for; the file store keeps what returned.
THEOREM RestartLosesNothing == SnapshotsSpec => []RestartFindsAll
<1>1. SnapshotsInv => RestartFindsAll
  BY DEF SnapshotsInv
<1> QED BY <1>1, SnapshotsInvHolds, PTL

-----------------------------------------------------------------------------
(* Requests to the prover: the checks written in TypeScript and those      *)
(* written in Noir, compared for each kind of request.                     *)

\* Where the two disagree on purpose.
Provable(r) == Planned(r) => Failures(r) \subseteq LeftToCircuit(r)

LEMMA NotesAndOrdersAreProvable ==
    ASSUME NEW r \in Deposits \cup Intents \cup Withdrawals
    PROVE  Provable(r)
<1>0. Amounts \subseteq Nat /\ Batches \subseteq Nat
  BY RequestsAssumption
<1>1. CASE r \in Deposits
  <2>1. r.kind = "deposit" /\ r.amount \in Nat
    BY <1>0, <1>1 DEF Deposits
  <2>2. DepositPlanned(r) => DepositFailures(r) = {}
    BY <2>1 DEF DepositPlanned, DepositFailures
  <2> QED BY <2>1, <2>2 DEF Provable, Planned, Failures
<1>2. CASE r \in Intents
  <2>0. /\ r.kind = "intent" /\ r.size \in {0, 1} /\ r.price \in {0, 1} /\ r.margin \in Amounts
        /\ r.note \in Amounts /\ r.expiry \in Batches /\ r.batch \in Batches
    BY <1>2, Zenon DEF Intents
  <2>1. /\ r.kind = "intent" /\ r.size \in Nat /\ r.price \in Nat /\ r.margin \in Nat
        /\ r.note \in Nat /\ r.expiry \in Nat /\ r.batch \in Nat
    <3>1. {0, 1} \subseteq Nat
      OBVIOUS
    <3> QED BY <1>0, <2>0, <3>1, Zenon
  <2>2. IntentPlanned(r) => IntentFailures(r) \subseteq {"path", "blank"}
    BY <2>1 DEF IntentPlanned, IntentFailures, ChangeIsNamed
  <2> QED BY <2>1, <2>2 DEF Provable, Planned, Failures, LeftToCircuit
<1>3. CASE r \in Withdrawals
  <2>1. r.kind = "withdrawal" /\ r.note \in Nat /\ r.amount \in Nat
    BY <1>0, <1>3 DEF Withdrawals
  <2>2. WithdrawalPlanned(r) => WithdrawalFailures(r) \subseteq {"path", "blank", "change opening"}
    <3> SUFFICES ASSUME WithdrawalPlanned(r), NEW a \in WithdrawalFailures(r)
                 PROVE  a \in {"path", "blank", "change opening"}
      OBVIOUS
    <3>1. /\ ~(r.note = 0 \/ r.amount = 0 \/ r.amount > r.note)
          /\ r.opens /\ r.nullifies /\ r.asset
      BY <2>1 DEF WithdrawalPlanned
    <3> QED BY <3>1, Zenon DEF WithdrawalFailures
  <2> QED BY <2>1, <2>2 DEF Provable, Planned, Failures, LeftToCircuit
<1> QED BY <1>1, <1>2, <1>3

LEMMA ClosesAndDisclosuresAreProvable ==
    ASSUME NEW r \in Conditionals \cup Disclosures
    PROVE  Provable(r)
<1>0. Amounts \subseteq Nat
  BY RequestsAssumption
<1>1. CASE r \in Conditionals
  <2>0. /\ r.kind = "conditional" /\ r.size \in {0, 1} /\ r.trigger \in Amounts /\ r.mark \in Amounts
        /\ r.isLong \in BOOLEAN /\ r.takesProfit \in BOOLEAN
    BY <1>1, Zenon DEF Conditionals
  <2>1. r.size \in Nat /\ r.trigger \in Nat /\ r.mark \in Nat
    <3>1. {0, 1} \subseteq Nat
      OBVIOUS
    <3> QED BY <1>0, <2>0, <3>1, Zenon
  <2>2. ConditionalPlanned(r) => ConditionalFailures(r) \subseteq {"blank"}
    BY <2>0, <2>1 DEF ConditionalPlanned, ConditionHolds, ConditionalFailures
  <2> QED BY <2>0, <2>2 DEF Provable, Planned, Failures, LeftToCircuit
<1>2. CASE r \in Disclosures
  <2>1. r.kind = "disclosure" /\ r.value \in Nat /\ r.threshold \in Nat
    BY <1>0, <1>2 DEF Disclosures
  <2>2. DisclosurePlanned(r) => DisclosureFailures(r) \subseteq {"blank"}
    BY <2>1 DEF DisclosurePlanned, DisclosureFailures
  <2> QED BY <2>1, <2>2 DEF Provable, Planned, Failures, LeftToCircuit
<1> QED BY <1>1, <1>2

\* The delta of the circuit is the magnitude of the engine's, of the rate's sign.
LEMMA DeltasAgree ==
    ASSUME NEW r \in Fundings
    PROVE  /\ CircuitDelta(r) \in Nat
           /\ IndexDelta(r) = IF r.rate < 0 THEN -CircuitDelta(r) ELSE CircuitDelta(r)
<1>0. /\ r.mark \in Nat /\ r.rate \in Int /\ r.elapsed \in Nat /\ r.cap \in Nat
      /\ FundingScale * Interval \in Nat \ {0}
  <2>1. /\ Amounts \subseteq Nat /\ Caps \subseteq Nat /\ Elapsed \subseteq Nat /\ Rates \subseteq Int
        /\ Interval \in Nat /\ Interval > 0 /\ FundingScale \in Nat /\ FundingScale > 0
    BY RequestsAssumption
  <2>2. FundingScale * Interval \in Nat /\ FundingScale * Interval > 0
    BY <2>1
  <2>3. r.mark \in Amounts /\ r.rate \in Rates /\ r.elapsed \in Elapsed /\ r.cap \in Caps
    BY Zenon DEF Fundings
  <2>4. r.mark \in Nat /\ r.rate \in Int /\ r.elapsed \in Nat /\ r.cap \in Nat
    BY <2>1, <2>3, Zenon
  <2> QED BY <2>2, <2>4
<1>1. PICK m \in Nat : m = Magnitude(r.rate)
  BY <1>0 DEF Magnitude
<1>2. r.rate = IF r.rate < 0 THEN -m ELSE m
  BY <1>0, <1>1 DEF Magnitude
<1>3. PICK p \in Nat : p = r.mark * m * r.elapsed
  <2>1. r.mark * m \in Nat
    BY <1>0
  <2> QED BY <1>0, <2>1
<1>4. r.mark * r.rate * r.elapsed = IF r.rate < 0 THEN -p ELSE p
  <2>1. CASE r.rate < 0
    <3>1. PICK x \in Nat : x = r.mark * m
      BY <1>0
    <3>2. r.mark * (-m) = -x
      BY <1>0, <3>1
    <3>3. (-x) * r.elapsed = -(x * r.elapsed)
      BY <1>0
    <3> QED BY <1>2, <1>3, <2>1, <3>1, <3>2, <3>3
  <2>2. CASE ~(r.rate < 0)
    BY <1>2, <1>3, <2>2
  <2> QED BY <2>1, <2>2
<1>5. PICK d \in Nat \ {0} : d = FundingScale * Interval
  BY <1>0
<1>6. PICK q \in Nat : q = p \div d
  OBVIOUS
<1>7. Quotient(r.mark * r.rate * r.elapsed, d) = IF r.rate < 0 THEN -q ELSE q
  <2>1. CASE r.rate < 0
    <3>1. CASE p = 0
      BY <1>4, <1>6, <2>1, <3>1 DEF Quotient
    <3>2. CASE p > 0
      BY <1>4, <1>6, <2>1, <3>2 DEF Quotient
    <3> QED BY <3>1, <3>2
  <2>2. CASE ~(r.rate < 0)
    BY <1>4, <1>6, <2>2 DEF Quotient
  <2> QED BY <2>1, <2>2
<1>8. CircuitDelta(r) = IF r.cap > 0 /\ q > r.cap THEN r.cap ELSE q
  BY <1>1, <1>3, <1>5, <1>6 DEF CircuitDelta
<1>9. PICK raw : raw = IF r.rate < 0 THEN -q ELSE q
  OBVIOUS
<1>10. IndexDelta(r) = CASE r.cap = 0 -> raw
                         [] r.cap > 0 /\ raw > r.cap -> r.cap
                         [] r.cap > 0 /\ raw < -r.cap -> -r.cap
                         [] OTHER -> raw
  BY <1>5, <1>7, <1>9 DEF IndexDelta
<1> QED BY <1>0, <1>8, <1>9, <1>10

\* assert_signed_add adds: the signed sum of the parts is the parts of the sum.
LEMMA PartsAdd ==
    ASSUME NEW old \in Int, NEW c \in Nat, c # 0
    PROVE  /\ SignedAdd(Parts(old), c, TRUE) = Parts(old - c)
           /\ SignedAdd(Parts(old), c, FALSE) = Parts(old + c)
<1>1. ASSUME NEW n \in Int, n < 0 PROVE Parts(n) = [abs |-> -n, negative |-> TRUE]
  <2>1. Magnitude(n) = -n /\ (n < 0) = TRUE
    BY <1>1 DEF Magnitude
  <2> QED BY <2>1, Zenon DEF Parts
<1>2. ASSUME NEW n \in Int, ~(n < 0) PROVE Parts(n) = [abs |-> n, negative |-> FALSE]
  <2>1. Magnitude(n) = n /\ (n < 0) = FALSE
    BY <1>2 DEF Magnitude
  <2> QED BY <2>1, Zenon DEF Parts
<1>3. /\ \A m, d : SignedAdd([abs |-> m, negative |-> TRUE], d, TRUE) =
                     [abs |-> m + d, negative |-> TRUE]
      /\ \A m, d : SignedAdd([abs |-> m, negative |-> FALSE], d, FALSE) =
                     [abs |-> m + d, negative |-> FALSE]
  BY Zenon DEF SignedAdd
<1>31. \A m, d : SignedAdd([abs |-> m, negative |-> TRUE], d, FALSE) =
          IF m > d THEN [abs |-> m - d, negative |-> TRUE]
          ELSE IF m = d THEN [abs |-> 0, negative |-> FALSE]
          ELSE [abs |-> d - m, negative |-> FALSE]
  BY DEF SignedAdd
<1>32. \A m, d : SignedAdd([abs |-> m, negative |-> FALSE], d, TRUE) =
          IF m > d THEN [abs |-> m - d, negative |-> FALSE]
          ELSE IF m = d THEN [abs |-> 0, negative |-> FALSE]
          ELSE [abs |-> d - m, negative |-> TRUE]
  BY DEF SignedAdd
<1>4. old + c \in Int /\ old - c \in Int
  OBVIOUS
<1>5. CASE old < 0
  <2>1. Parts(old) = [abs |-> -old, negative |-> TRUE]
    BY <1>1, <1>5
  <2>2. /\ SignedAdd(Parts(old), c, TRUE) = [abs |-> -old + c, negative |-> TRUE]
        /\ SignedAdd(Parts(old), c, FALSE) =
              IF -old > c THEN [abs |-> -old - c, negative |-> TRUE]
              ELSE IF -old = c THEN [abs |-> 0, negative |-> FALSE]
              ELSE [abs |-> c - (-old), negative |-> FALSE]
    <3>1. SignedAdd(Parts(old), c, TRUE) = [abs |-> -old + c, negative |-> TRUE]
      <4>1. PICK m : m = -old
        OBVIOUS
      <4>2. SignedAdd([abs |-> m, negative |-> TRUE], c, TRUE) =
              [abs |-> m + c, negative |-> TRUE]
        BY <1>3, Zenon
      <4> QED BY <2>1, <4>1, <4>2, Zenon
    <3>2. SignedAdd(Parts(old), c, FALSE) =
              IF -old > c THEN [abs |-> -old - c, negative |-> TRUE]
              ELSE IF -old = c THEN [abs |-> 0, negative |-> FALSE]
              ELSE [abs |-> c - (-old), negative |-> FALSE]
      <4>1. PICK m : m = -old
        OBVIOUS
      <4>2. SignedAdd([abs |-> m, negative |-> TRUE], c, FALSE) =
              IF m > c THEN [abs |-> m - c, negative |-> TRUE]
              ELSE IF m = c THEN [abs |-> 0, negative |-> FALSE]
              ELSE [abs |-> c - m, negative |-> FALSE]
        BY <1>31, Zenon
      <4> QED BY <2>1, <4>1, <4>2, Zenon
    <3> QED BY <3>1, <3>2
  <2>3. Parts(old - c) = [abs |-> -old + c, negative |-> TRUE]
    <3>1. old - c < 0 /\ -(old - c) = -old + c
      BY <1>5
    <3> QED BY <1>1, <1>4, <3>1
  <2>4. CASE -old > c
    <3>1. old + c < 0 /\ -(old + c) = -old - c
      BY <1>5, <2>4
    <3>2. Parts(old + c) = [abs |-> -old - c, negative |-> TRUE]
      BY <1>1, <1>4, <3>1
    <3> QED BY <2>2, <2>3, <2>4, <3>2
  <2>5. CASE ~(-old > c)
    <3>1. ~(old + c < 0) /\ old + c = c - (-old) /\ (-old = c => old + c = 0)
      BY <1>5, <2>5
    <3>2. Parts(old + c) = [abs |-> old + c, negative |-> FALSE]
      BY <1>2, <1>4, <3>1
    <3> QED BY <2>2, <2>3, <2>5, <3>1, <3>2
  <2> QED BY <2>4, <2>5
<1>6. CASE ~(old < 0)
  <2>1. Parts(old) = [abs |-> old, negative |-> FALSE]
    BY <1>2, <1>6
  <2>2. /\ SignedAdd(Parts(old), c, FALSE) = [abs |-> old + c, negative |-> FALSE]
        /\ SignedAdd(Parts(old), c, TRUE) =
              IF old > c THEN [abs |-> old - c, negative |-> FALSE]
              ELSE IF old = c THEN [abs |-> 0, negative |-> FALSE]
              ELSE [abs |-> c - old, negative |-> TRUE]
    <3>1. SignedAdd(Parts(old), c, FALSE) = [abs |-> old + c, negative |-> FALSE]
      BY <1>3, <2>1, Zenon
    <3>2. SignedAdd(Parts(old), c, TRUE) =
              IF old > c THEN [abs |-> old - c, negative |-> FALSE]
              ELSE IF old = c THEN [abs |-> 0, negative |-> FALSE]
              ELSE [abs |-> c - old, negative |-> TRUE]
      BY <1>32, <2>1, Zenon
    <3> QED BY <3>1, <3>2
  <2>3. Parts(old + c) = [abs |-> old + c, negative |-> FALSE]
    <3>1. ~(old + c < 0)
      BY <1>6
    <3> QED BY <1>2, <1>4, <3>1
  <2>4. CASE old < c
    <3>1. old - c < 0 /\ -(old - c) = c - old /\ ~(old > c) /\ old # c
      BY <1>6, <2>4
    <3>2. Parts(old - c) = [abs |-> c - old, negative |-> TRUE]
      BY <1>1, <1>4, <3>1
    <3> QED BY <2>2, <2>3, <3>1, <3>2
  <2>5. CASE ~(old < c)
    <3>1. ~(old - c < 0) /\ (~(old > c) => old = c) /\ (old = c => old - c = 0)
      BY <1>6, <2>5
    <3>2. Parts(old - c) = [abs |-> old - c, negative |-> FALSE]
      BY <1>2, <1>4, <3>1
    <3> QED BY <2>2, <2>3, <3>1, <3>2
  <2> QED BY <2>4, <2>5
<1> QED BY <1>5, <1>6

LEMMA FundingsAreProvable ==
    ASSUME NEW r \in Fundings
    PROVE  Provable(r)
<1>1. r.kind = "funding" /\ r.old \in Int /\ r.rate \in Int
  BY RequestsAssumption DEF Fundings
<1>2. PICK c \in Nat : c = CircuitDelta(r)
  BY DeltasAgree
<1>3. PICK delta : delta = IndexDelta(r)
  OBVIOUS
<1>4. delta = IF r.rate < 0 THEN -c ELSE c
  BY <1>2, <1>3, DeltasAgree
<1>5. FundingPlanned(r) => c # 0
  BY <1>3, <1>4 DEF FundingPlanned
<1>6. FundingPlanned(r) => SignedAdd(Parts(r.old), c, r.rate < 0) = Parts(r.old + delta)
  <2> SUFFICES ASSUME c # 0 PROVE SignedAdd(Parts(r.old), c, r.rate < 0) = Parts(r.old + delta)
    BY <1>5
  <2>1. CASE r.rate < 0
    <3>1. r.old + delta = r.old - c /\ (r.rate < 0) = TRUE
      BY <1>1, <1>4, <2>1
    <3> QED BY <1>1, <3>1, PartsAdd
  <2>2. CASE ~(r.rate < 0)
    <3>1. r.old + delta = r.old + c /\ (r.rate < 0) = FALSE
      BY <1>1, <1>4, <2>2
    <3> QED BY <1>1, <3>1, PartsAdd
  <2> QED BY <2>1, <2>2
<1>7. FundingPlanned(r) => FundingFailures(r) = {}
  BY <1>2, <1>3, <1>5, <1>6, Zenon DEF FundingFailures
<1> QED BY <1>1, <1>7 DEF Provable, Planned, Failures

\* AcceptedIsProvable: whatever amounts, rates, caps, indexes and openings a request
\* has, what the prover lets through fails in the circuit for nothing but what the
\* prover leaves to it.
THEOREM AcceptedRequestsAreProvable == RequestsSpec => []AcceptedIsProvable
<1> DEFINE Inv == request \in Requests /\ AcceptedIsProvable
<1>1. RequestsInit => Inv
  BY DEF RequestsInit, AcceptedIsProvable
<1>2. Inv /\ [RequestsNext]_requestVars => Inv'
  <2> SUFFICES ASSUME Inv, [RequestsNext]_requestVars PROVE Inv'
    OBVIOUS
  <2>1. Provable(request)
    BY NotesAndOrdersAreProvable, ClosesAndDisclosuresAreProvable, FundingsAreProvable DEF Requests
  <2>2. CASE Build
    <3>1. UNCHANGED request /\ Failures(request) \subseteq LeftToCircuit(request)
      BY <2>1, <2>2 DEF Build, Provable
    <3>2. PICK r : r = request
      OBVIOUS
    <3>3. Failures(r) \subseteq LeftToCircuit(r) /\ request' = r
      BY <3>1, <3>2
    <3> QED BY <3>2, <3>3 DEF AcceptedIsProvable
  <2>3. CASE Refuse
    BY <2>3 DEF Refuse, AcceptedIsProvable
  <2>4. CASE UNCHANGED requestVars
    <3>1. PICK r : r = request
      OBVIOUS
    <3>2. request' = r /\ answer' = answer
      BY <2>4, <3>1 DEF requestVars
    <3> QED BY <3>1, <3>2 DEF AcceptedIsProvable
  <2> QED BY <2>2, <2>3, <2>4 DEF RequestsNext
<1>3. Inv => AcceptedIsProvable
  OBVIOUS
<1> QED BY <1>1, <1>2, <1>3, PTL DEF RequestsSpec

-----------------------------------------------------------------------------
(* The marks of the contract.                                              *)

\* f is a function on S, whatever its values are.
IsOn(f, S) == f = [x \in S |-> f[x]]

MarksInv ==
    /\ IsOn(looks, MarkBrowsers) /\ IsOn(event, MarkBrowsers)
    /\ IsOn(mark, MarkMarkets) /\ IsOn(polls, MarkPolls)
    /\ \A b \in MarkBrowsers : looks[b] \in MarkMarkets \cup {NoMark}
    /\ MarksAgree

LEMMA MarksInvInit == MarksInit => MarksInv
  BY DEF MarksInit, MarksInv, MarksAgree, IsOn, Looking

\* Only a poll and the browsers move what MarksAgree speaks of.
LEMMA MarksInvRest ==
    ASSUME MarksInv, UNCHANGED <<looks, event, mark, unavailable, pollTimer, polls>>
    PROVE  MarksInv'
  BY DEF MarksInv, MarksAgree, IsOn, Looking

\* A browser that joins is told what the server holds, and a poll is scheduled.
LEMMA BrowsersJoin ==
    ASSUME MarksInv, NEW b \in MarkBrowsers, NEW m \in MarkMarkets, Look(b, m)
    PROVE  MarksInv'
<1>1. /\ IsOn(looks, MarkBrowsers)' /\ IsOn(event, MarkBrowsers)'
      /\ looks'[b] = m
      /\ event'[b] = IF m \in unavailable THEN NoneLeft
                     ELSE IF Fresh(mark[m]) THEN mark[m] ELSE Untold
      /\ \A c \in MarkBrowsers \ {b} : looks'[c] = looks[c] /\ event'[c] = event[c]
  BY DEF MarksInv, IsOn, Look
<1>2. Fresh(mark[m]) => mark[m] # NoneLeft
  BY DEF Fresh, NoneLeft
<1>3. NoneLeft # Untold
  BY DEF NoneLeft, Untold
<1>4. ASSUME NEW c \in Looking'
      PROVE  /\ (event'[c] = NoneLeft) <=> (looks'[c] \in unavailable')
             /\ event'[c] \in {Untold, NoneLeft} \/ event'[c] = mark'[looks'[c]]
  <2>1. UNCHANGED <<mark, unavailable>>
    BY DEF Look
  <2>2. CASE c = b
    BY <1>1, <1>2, <1>3, <2>1, <2>2
  <2>3. CASE c # b
    <3>1. c \in Looking
      BY <1>1, <1>4, <2>3 DEF Looking
    <3> QED BY <1>1, <1>4, <2>1, <2>3, <3>1 DEF MarksInv, MarksAgree, Looking
  <2> QED BY <2>2, <2>3
<1> QED BY <1>1, <1>4 DEF MarksInv, MarksAgree, Look, IsOn

\* The last browser that leaves stops the timer, and no other does.
LEMMA BrowsersLeave ==
    ASSUME MarksInv, NEW b \in MarkBrowsers, LookAway(b)
    PROVE  MarksInv'
<1>1. /\ IsOn(looks, MarkBrowsers)' /\ IsOn(event, MarkBrowsers)'
      /\ looks'[b] = NoMark
      /\ \A c \in MarkBrowsers \ {b} : looks'[c] = looks[c] /\ event'[c] = event[c]
  BY DEF MarksInv, IsOn, LookAway
<1>2. Looking' = Looking \ {b}
  BY <1>1 DEF Looking
<1>3. UNCHANGED <<mark, unavailable, polls>>
  BY DEF LookAway
<1>4. Looking' # {} => pollTimer' \/ \E p \in MarkPolls : DOMAIN polls'[p] # {}
  BY <1>2, <1>3 DEF LookAway, MarksInv, MarksAgree
<1>5. \A c \in Looking' :
        /\ (event'[c] = NoneLeft) <=> (looks'[c] \in unavailable')
        /\ event'[c] \in {Untold, NoneLeft} \/ event'[c] = mark'[looks'[c]]
  BY <1>1, <1>2, <1>3 DEF MarksInv, MarksAgree, Looking
<1> QED BY <1>1, <1>3, <1>4, <1>5 DEF MarksInv, MarksAgree, IsOn

\* Polls start, read and end: while anybody looks there is one, or the timer.
LEMMA PollsGoOn ==
    ASSUME MarksInv,
           \/ PollFires
           \/ \E p \in MarkPolls : PollEnds(p) \/ \E m \in MarkMarkets : MarkRead(p, m)
    PROVE  MarksInv'
<1>1. UNCHANGED <<looks, event, mark, unavailable>> /\ Looking' = Looking
  BY DEF PollFires, PollEnds, MarkRead, Looking
<1>2. CASE PollFires
  <2>1. PICK p \in MarkPolls : polls' = [polls EXCEPT ![p] = [m \in Looked |-> Asked]]
    BY <1>2 DEF PollFires
  <2>2. IsOn(polls, MarkPolls)' /\ DOMAIN polls'[p] = Looked
    BY <2>1 DEF MarksInv, IsOn
  <2>3. Looking # {} => Looked # {}
    BY DEF Looked
  <2> QED BY <1>1, <2>2, <2>3 DEF MarksInv, MarksAgree, IsOn
<1>3. ASSUME NEW p \in MarkPolls, PollEnds(p) PROVE MarksInv'
  <2>1. IsOn(polls, MarkPolls)' /\ (Looking # {} => pollTimer')
    BY <1>3 DEF MarksInv, IsOn, PollEnds
  <2> QED BY <1>1, <2>1 DEF MarksInv, MarksAgree, IsOn
<1>4. ASSUME NEW p \in MarkPolls, NEW m \in MarkMarkets, MarkRead(p, m) PROVE MarksInv'
  <2>1. PICK read : polls' = [polls EXCEPT ![p][m] = read]
    BY <1>4 DEF MarkRead
  <2>2. IsOn(polls, MarkPolls)' /\ \A q \in MarkPolls : DOMAIN polls'[q] = DOMAIN polls[q]
    BY <2>1 DEF MarksInv, IsOn
  <2>3. UNCHANGED pollTimer
    BY <1>4 DEF MarkRead
  <2> QED BY <1>1, <2>2, <2>3 DEF MarksInv, MarksAgree, IsOn
<1> QED BY <1>2, <1>3, <1>4

\* An answer is told to all browsers of its market, and to no other.
LEMMA AnswersAreTold ==
    ASSUME MarksInv, NEW p \in MarkPolls, NEW m \in MarkMarkets, MarkTaken(p, m)
    PROVE  MarksInv'
<1> DEFINE read == polls[p][m]
<1>1. /\ m \in DOMAIN polls[p] /\ polls' = [polls EXCEPT ![p] = [polls[p] EXCEPT ![m] = Done]]
      /\ UNCHANGED <<looks, pollTimer>>
  BY DEF MarkTaken
<1>2. IsOn(polls, MarkPolls)' /\ \A q \in MarkPolls : DOMAIN polls'[q] = DOMAIN polls[q]
  BY <1>1 DEF MarksInv, IsOn
<1>3. Looking' = Looking /\ (Looking' # {} => pollTimer' \/ \E q \in MarkPolls : DOMAIN polls'[q] # {})
  BY <1>1, <1>2 DEF Looking, MarksInv, MarksAgree
<1>4. IsOn(mark, MarkMarkets)' /\ IsOn(event, MarkBrowsers)'
  BY DEF MarkTaken, MarksInv, IsOn, Tell
<1>5. ASSUME NEW c \in Looking
      PROVE  /\ (event'[c] = NoneLeft) <=> (looks[c] \in unavailable')
             /\ event'[c] \in {Untold, NoneLeft} \/ event'[c] = mark'[looks[c]]
  <2>1. c \in MarkBrowsers /\ looks[c] \in MarkMarkets
    BY <1>5 DEF Looking, MarksInv
  <2>2. /\ (event[c] = NoneLeft) <=> (looks[c] \in unavailable)
        /\ event[c] \in {Untold, NoneLeft} \/ event[c] = mark[looks[c]]
    BY <1>5 DEF MarksInv, MarksAgree
  <2>3. CASE Fresh(read)
    <3>1. /\ mark' = [mark EXCEPT ![m] = read] /\ unavailable' = unavailable \ {m}
          /\ event' = Tell(LookersAt(m), read)
      BY <2>3 DEF MarkTaken
    <3>2. read # NoneLeft
      BY <2>3 DEF Fresh, NoneLeft
    <3>3. CASE looks[c] = m
      <4>1. event'[c] = read /\ mark'[looks[c]] = read
        BY <2>1, <3>1, <3>3 DEF Tell, LookersAt, MarksInv, IsOn
      <4> QED BY <3>1, <3>2, <3>3, <4>1
    <3>4. CASE looks[c] # m
      <4>1. event'[c] = event[c] /\ mark'[looks[c]] = mark[looks[c]]
        BY <2>1, <3>1, <3>4 DEF Tell, LookersAt, MarksInv, IsOn
      <4> QED BY <2>2, <3>1, <3>4, <4>1
    <3> QED BY <3>3, <3>4
  <2>4. CASE ~Fresh(read)
    <3>1. /\ mark' = mark /\ unavailable' = unavailable \cup {m}
          /\ event' = IF m \in unavailable THEN event ELSE Tell(LookersAt(m), NoneLeft)
      BY <2>4 DEF MarkTaken
    <3>2. CASE looks[c] = m /\ m \notin unavailable
      <4>1. event'[c] = NoneLeft
        BY <2>1, <3>1, <3>2 DEF Tell, LookersAt
      <4> QED BY <3>1, <3>2, <4>1
    <3>3. CASE ~(looks[c] = m /\ m \notin unavailable)
      <4>1. event'[c] = event[c]
        BY <2>1, <3>1, <3>3 DEF Tell, LookersAt
      <4> QED BY <2>2, <3>1, <3>3, <4>1
    <3> QED BY <3>2, <3>3
  <2> QED BY <2>3, <2>4
<1> QED BY <1>1, <1>2, <1>3, <1>4, <1>5 DEF MarksInv, MarksAgree, IsOn

\* MarksAgree: for any browsers, markets, overlapping polls and ages of marks, what a
\* browser was told last is what the server holds, and it will be told the next.
THEOREM MarksAreTold == MarksSpec => []MarksAgree
<1>1. MarksInv /\ [MarksNext]_markVars => MarksInv'
  <2> SUFFICES ASSUME MarksInv, [MarksNext]_markVars PROVE MarksInv'
    OBVIOUS
  <2>1. CASE ClockTicks
    BY <2>1, MarksInvRest DEF ClockTicks
  <2>2. ASSUME NEW m \in MarkMarkets, KeeperTicks(m) PROVE MarksInv'
    BY <2>2, MarksInvRest DEF KeeperTicks
  <2>3. CASE UNCHANGED markVars
    BY <2>3, MarksInvRest DEF markVars
  <2> QED BY <2>1, <2>2, <2>3, BrowsersJoin, BrowsersLeave, PollsGoOn, AnswersAreTold
          DEF MarksNext
<1>2. MarksInv => MarksAgree
  BY DEF MarksInv
<1> QED BY <1>1, <1>2, MarksInvInit, PTL DEF MarksSpec

-----------------------------------------------------------------------------
(* The account's keys.                                                     *)

PageSteps ==
    {"idle", "ensure", "compare", "create", "register", "recover", "refetch", "decrypt", "recreate",
     "rerecover", "reread", "redecrypt", "restore"}
TabPage ==
    [at : PageSteps, open : SUBSET Opened, read : SUBSET Nat, mine : Nat, got : SUBSET Opened,
     events : SUBSET (Opened \X Nat)]

KeysTyped ==
    /\ created \in Nat /\ registered \in 0 .. created
    /\ stored \in [BrowserSet -> 0 .. created]
    /\ events \subseteq Opened \X Nat
    /\ openings \in [Opened -> {"none", "matched", "open", "closed"}]
    /\ matchedFor \in [Opened -> Nat]
    /\ attempted \in [Tabs -> SUBSET (SUBSET Opened)]
    /\ page \in [Tabs -> TabPage]

\* A key on its way to the server was made, and a position has one.
KeysAreMade ==
    /\ \A t \in Tabs : page[t].mine <= created
    /\ \A t \in Tabs : page[t].at \in {"recover", "rerecover"} => page[t].mine # NoKey
    /\ registered = NoKey => \A p \in Opened : openings[p] = "none"

\* What a page knows of and what it tried was open once.
OnceOpen(p) == openings[p] \in {"open", "closed"}
TriedWereOpen ==
    \A t \in Tabs :
        /\ \A p \in page[t].open : OnceOpen(p)
        /\ \A S \in attempted[t] : \A p \in S : OnceOpen(p)

\* A tab that has tried had a key made that was new, and a key is registered together
\* with the openings: so the browser's is another, or it reads them.
Reads(t, p) == stored[BrowserOf[t]] # registered \/ <<p, registered>> \in events
TriedAreRead ==
    \A t \in Tabs \ cutShort : \A S \in attempted[t] : \A p \in S :
        p \in OpenNow \cap kept => Reads(t, p) \/ page[t].at = "recreate"

KeysInv == KeysTyped /\ KeysAreMade /\ TriedWereOpen /\ TriedAreRead

LEMMA KeysInvInit == KeysInit => KeysInv
  BY DEF KeysInit, KeysInv, KeysTyped, KeysAreMade, TriedWereOpen, TriedAreRead, TabPage, PageSteps, Idle,
         NoKey, BrowserSet

\* A page goes on and nothing else changes.
LEMMA PagesMove ==
    ASSUME KeysInv, NEW t \in Tabs, NEW r \in TabPage, page' = [page EXCEPT ![t] = r],
           \A p \in r.open : OnceOpen(p), r.mine <= created,
           r.at \in {"recover", "rerecover"} => r.mine # NoKey,
           page[t].at # "recreate" \/ t \in cutShort',
           cutShort \subseteq cutShort',
           UNCHANGED <<registered, events, openings, matchedFor, kept, stored, created, attempted>>
    PROVE  KeysInv'
<1>1. KeysTyped'
  BY DEF KeysInv, KeysTyped
<1>2. \A u \in Tabs : page'[u] = IF u = t THEN r ELSE page[u]
  BY DEF KeysInv, KeysTyped
<1>3. KeysAreMade'
  BY <1>2 DEF KeysInv, KeysAreMade
<1>4. TriedWereOpen'
  BY <1>2 DEF KeysInv, TriedWereOpen, OnceOpen
<1>5. TriedAreRead'
  BY <1>2 DEF KeysInv, TriedAreRead, Reads, OpenNow
<1> QED BY <1>1, <1>3, <1>4, <1>5 DEF KeysInv

\* The page's steps that keep keys and attempts as they are.
LEMMA LoadsGoOn ==
    ASSUME KeysInv, NEW t \in Tabs,
           \/ ConnectAccount(t) \/ Load(t) \/ EnsureKey(t) \/ Refetch(t) \/ Reread(t)
           \/ Redecrypt(t) \/ RecoveryFails(t) \/ LoadFails(t) \/ Reload(t)
    PROVE  KeysInv'
<1> DEFINE Same == UNCHANGED <<accountVars, stored, created, attempted>> /\ cutShort \subseteq cutShort'
<1> USE DEF accountVars
<1>1. page \in [Tabs -> TabPage] /\ page[t] \in TabPage /\ OpenNow \subseteq Opened
  BY DEF KeysInv, KeysTyped, OpenNow
<1>2. /\ registered \in Nat /\ events \subseteq Opened \X Nat /\ created \in Nat
      /\ page[t].mine <= created /\ \A p \in page[t].open : OnceOpen(p)
      /\ \A p \in OpenNow : OnceOpen(p)
  BY DEF KeysInv, KeysTyped, KeysAreMade, TriedWereOpen, OpenNow, OnceOpen
<1>3. Idle \in TabPage /\ Idle.at = "idle" /\ Idle.open = {} /\ Idle.mine = 0
  BY DEF Idle, TabPage, PageSteps, NoKey
<1>4. CASE ConnectAccount(t)
  <2>1. PICK r : r = [page[t] EXCEPT !.at = "ensure"]
    OBVIOUS
  <2>2. /\ r \in TabPage /\ r.open = page[t].open /\ r.mine = page[t].mine /\ r.at = "ensure"
        /\ page' = [page EXCEPT ![t] = r]
    BY <1>1, <1>4, <2>1 DEF ConnectAccount, TabPage, PageSteps
  <2> QED BY <1>2, <1>4, <2>2, PagesMove DEF ConnectAccount, At, browserVars
<1>5. ASSUME NEW step \in {"ensure", "decrypt", "redecrypt"}, Fetched(t, step),
             page[t].at # "recreate", UNCHANGED <<accountVars, browserVars>>
      PROVE  KeysInv'
  <2>1. PICK r : r = [page[t] EXCEPT !.at = step, !.open = OpenNow, !.events = events]
    OBVIOUS
  <2>2. /\ r \in TabPage /\ r.open = OpenNow /\ r.mine = page[t].mine /\ r.at = step
        /\ page' = [page EXCEPT ![t] = r]
    BY <1>1, <1>2, <1>5, <2>1 DEF Fetched, TabPage, PageSteps
  <2> QED BY <1>2, <1>5, <2>2, PagesMove DEF browserVars
<1>6. CASE EnsureKey(t)
  <2>1. PICK r : r = [page[t] EXCEPT !.at = "compare", !.read = {registered} \ {NoKey}]
    OBVIOUS
  <2>2. /\ r \in TabPage /\ r.open = page[t].open /\ r.mine = page[t].mine /\ r.at = "compare"
        /\ page' = [page EXCEPT ![t] = r]
    BY <1>1, <1>2, <1>6, <2>1 DEF EnsureKey, TabPage, PageSteps
  <2> QED BY <1>2, <1>6, <2>2, PagesMove DEF EnsureKey, At, browserVars
<1>7. CASE Redecrypt(t)
  <2>1. PICK r : r = [page[t] EXCEPT !.at = "restore", !.got = Opens(t), !.events = {}]
    OBVIOUS
  <2>2. /\ r \in TabPage /\ r.open = page[t].open /\ r.mine = page[t].mine /\ r.at = "restore"
        /\ page' = [page EXCEPT ![t] = r]
    BY <1>1, <1>7, <2>1 DEF Redecrypt, TabPage, PageSteps, Opens
  <2> QED BY <1>2, <1>7, <2>2, PagesMove DEF Redecrypt, At, browserVars
<1>8. CASE RecoveryFails(t)
  <2>1. PICK r : r = [page[t] EXCEPT !.at = "restore", !.mine = NoKey]
    OBVIOUS
  <2>2. /\ r \in TabPage /\ r.open = page[t].open /\ r.mine = 0 /\ r.at = "restore"
        /\ page' = [page EXCEPT ![t] = r]
    BY <1>1, <1>8, <2>1 DEF RecoveryFails, Goes, TabPage, PageSteps, NoKey
  <2>3. r.mine <= created /\ page[t].at # "recreate"
    BY <1>2, <1>8, <2>2 DEF RecoveryFails
  <2>4. \A p \in r.open : OnceOpen(p)
    BY <1>2, <2>2
  <2> QED BY <1>8, <2>2, <2>3, <2>4, PagesMove DEF RecoveryFails, browserVars
<1>9. CASE LoadFails(t) \/ Reload(t)
  <2>1. page' = [page EXCEPT ![t] = Idle]
    BY <1>9 DEF LoadFails, Reload, Ends
  <2>2. Same
    BY <1>9 DEF LoadFails, Reload, browserVars
  <2>3. page[t].at # "recreate" \/ t \in cutShort'
    BY <1>9 DEF LoadFails, Reload, At
  <2>4. Idle.mine <= created /\ Idle.at \notin {"recover", "rerecover"}
    BY <1>2, <1>3
  <2>5. \A p \in Idle.open : OnceOpen(p)
    BY <1>3
  <2> QED BY <1>3, <2>1, <2>2, <2>3, <2>4, <2>5, PagesMove
<1> QED BY <1>4, <1>5, <1>6, <1>7, <1>8, <1>9 DEF Load, Refetch, Reread, At

\* A browser makes a key: none is registered that is as new.
LEMMA KeysAreNew ==
    ASSUME KeysInv, NEW t \in Tabs, NewKey(t), NEW r \in TabPage, page' = [page EXCEPT ![t] = r],
           r.open = page[t].open, r.mine = created + 1,
           UNCHANGED <<accountVars, attempted, cutShort>>
    PROVE  KeysInv'
<1> USE DEF accountVars
<1>1. /\ created' = created + 1 /\ created \in Nat /\ registered <= created /\ registered \in Nat
      /\ stored' = [stored EXCEPT ![BrowserOf[t]] = created + 1]
      /\ stored \in [BrowserSet -> 0 .. created] /\ BrowserOf[t] \in BrowserSet
  BY DEF NewKey, KeysInv, KeysTyped, BrowserSet
<1>2. \A u \in Tabs : page'[u] = IF u = t THEN r ELSE page[u]
  BY DEF KeysInv, KeysTyped
<1>3. KeysTyped'
  <2>1. stored' \in [BrowserSet -> 0 .. created']
    BY <1>1
  <2>2. registered' \in 0 .. created'
    BY <1>1
  <2>3. page' \in [Tabs -> TabPage]
    BY DEF KeysInv, KeysTyped
  <2> QED BY <1>1, <2>1, <2>2, <2>3 DEF KeysInv, KeysTyped
<1>4. KeysAreMade'
  <2>1. \A u \in Tabs : page[u].mine <= created /\ page[u].mine \in Nat
    BY DEF KeysInv, KeysTyped, KeysAreMade, TabPage
  <2>2. \A u \in Tabs : page'[u].mine <= created'
    BY <1>1, <1>2, <2>1
  <2>3. \A u \in Tabs : page'[u].at \in {"recover", "rerecover"} => page'[u].mine # NoKey
    BY <1>1, <1>2 DEF KeysInv, KeysAreMade, NoKey
  <2> QED BY <2>2, <2>3 DEF KeysInv, KeysAreMade
<1>5. TriedWereOpen'
  BY <1>2 DEF KeysInv, TriedWereOpen, OnceOpen
<1>6. \A u \in Tabs, p \in Opened : Reads(u, p) => Reads(u, p)'
  <2>1. \A u \in Tabs : stored'[BrowserOf[u]] \in {stored[BrowserOf[u]], created + 1}
    BY <1>1 DEF BrowserSet
  <2>2. created + 1 # registered
    BY <1>1
  <2> QED BY <2>1, <2>2 DEF Reads
<1>7. \A p \in Opened : Reads(t, p)'
  BY <1>1 DEF Reads
<1>8. TriedAreRead'
  <2> SUFFICES ASSUME NEW u \in Tabs \ cutShort, NEW S \in attempted[u], NEW p \in S,
                      p \in OpenNow \cap kept
               PROVE  Reads(u, p)' \/ page'[u].at = "recreate"
    BY DEF TriedAreRead, OpenNow
  <2>1. CASE u = t
    BY <1>7, <2>1 DEF OpenNow
  <2>2. CASE u # t
    BY <1>2, <1>6, <2>2 DEF KeysInv, TriedAreRead, OpenNow
  <2> QED BY <2>1, <2>2
<1> QED BY <1>3, <1>4, <1>5, <1>8 DEF KeysInv

LEMMA KeysAreCompared ==
    ASSUME KeysInv, NEW t \in Tabs, Compare(t)
    PROVE  KeysInv'
<1> DEFINE e == stored[BrowserOf[t]]
<1>1. /\ page[t] \in TabPage /\ e \in 0 .. created /\ created \in Nat
      /\ page[t].mine <= created /\ \A p \in page[t].open : OnceOpen(p)
      /\ Registration(t) \in {"register", "recover"}
  BY DEF KeysInv, KeysTyped, KeysAreMade, TriedWereOpen, BrowserSet, Registration
<1>2. /\ page[t].at = "compare" /\ cutShort' = cutShort
      /\ UNCHANGED <<registered, events, openings, matchedFor, kept, stored, created, attempted>>
  BY DEF Compare, At, accountVars, browserVars
<1>3. CASE e = NoKey
  <2>1. PICK r : r = [page[t] EXCEPT !.at = "create"]
    OBVIOUS
  <2>2. r \in TabPage /\ r.open = page[t].open /\ r.mine = page[t].mine /\ r.at = "create"
    BY <1>1, <2>1 DEF TabPage, PageSteps
  <2>3. page' = [page EXCEPT ![t] = r]
    <3>1. page' = [page EXCEPT ![t].at = "create"]
      BY <1>3 DEF Compare
    <3> QED BY <2>1, <3>1
  <2> QED BY <1>1, <1>2, <2>2, <2>3, PagesMove
<1>4. CASE e # NoKey /\ e \in page[t].read
  <2>1. PICK r : r = [page[t] EXCEPT !.read = {}, !.at = "decrypt"]
    OBVIOUS
  <2>2. r \in TabPage /\ r.open = page[t].open /\ r.mine = page[t].mine /\ r.at = "decrypt"
    BY <1>1, <2>1 DEF TabPage, PageSteps
  <2>3. page' = [page EXCEPT ![t] = r]
    <3>1. page' = [page EXCEPT ![t].read = {}, ![t].at = "decrypt"]
      BY <1>4 DEF Compare
    <3> QED BY <2>1, <3>1
  <2> QED BY <1>1, <1>2, <2>2, <2>3, PagesMove
<1>5. CASE e # NoKey /\ e \notin page[t].read
  <2>1. PICK r : r = [page[t] EXCEPT !.read = {}, !.mine = e, !.at = Registration(t)]
    OBVIOUS
  <2>2. /\ r \in TabPage /\ r.open = page[t].open /\ r.mine = e
        /\ r.at \in {"register", "recover"}
    <3>1. page[t] \in TabPage /\ e \in Nat /\ {} \in SUBSET Nat /\ Registration(t) \in PageSteps
      BY <1>1 DEF PageSteps
    <3> HIDE DEF e
    <3>2. r \in TabPage /\ r.open = page[t].open /\ r.mine = e /\ r.at = Registration(t)
      BY <2>1, <3>1 DEF TabPage
    <3> QED BY <1>1, <3>2
  <2>3. page' = [page EXCEPT ![t] = r]
    <3>1. page' = [page EXCEPT ![t].read = {}, ![t].mine = e, ![t].at = Registration(t)]
      BY <1>5 DEF Compare
    <3> QED BY <2>1, <3>1
  <2>4. r.mine <= created /\ r.mine # NoKey /\ \A p \in r.open : OnceOpen(p)
    BY <1>1, <1>5, <2>2
  <2> QED BY <1>2, <2>2, <2>3, <2>4, PagesMove
<1> QED BY <1>3, <1>4, <1>5

LEMMA KeysAreCreated ==
    ASSUME KeysInv, NEW t \in Tabs, CreateKey(t)
    PROVE  KeysInv'
<1>1. page[t] \in TabPage /\ created \in Nat /\ Registration(t) \in {"register", "recover"}
  BY DEF KeysInv, KeysTyped, Registration
<1>2. /\ NewKey(t) /\ created' = created + 1 /\ UNCHANGED <<accountVars, attempted, cutShort>>
      /\ page' = [page EXCEPT ![t].at = Registration(t), ![t].mine = created', ![t].read = {}]
  BY DEF CreateKey, NewKey
<1>3. PICK r : r = [page[t] EXCEPT !.at = Registration(t), !.mine = created + 1, !.read = {}]
  OBVIOUS
<1>4. r \in TabPage /\ r.open = page[t].open /\ r.mine = created + 1
  <2>1. Registration(t) \in PageSteps /\ created + 1 \in Nat
    BY <1>1 DEF PageSteps
  <2> QED BY <1>1, <1>3, <2>1 DEF TabPage
<1>5. page' = [page EXCEPT ![t] = r]
  BY <1>2, <1>3
<1> QED BY <1>2, <1>4, <1>5, KeysAreNew

LEMMA KeysAreRegistered ==
    ASSUME KeysInv, NEW t \in Tabs, RegisterKey(t)
    PROVE  KeysInv'
<1>1. /\ page[t].at = "register" /\ UNCHANGED <<events, openings, matchedFor, kept, copies>>
      /\ UNCHANGED <<stored, created, attempted, cutShort>>
  BY DEF RegisterKey, At, browserVars
<1>2. /\ page[t] \in TabPage /\ page[t].mine <= created /\ created \in Nat
      /\ \A p \in page[t].open : OnceOpen(p)
  BY DEF KeysInv, KeysTyped, KeysAreMade, TriedWereOpen
<1>3. PICK r \in {Idle, [page[t] EXCEPT !.at = "decrypt", !.mine = NoKey]} :
        page' = [page EXCEPT ![t] = r]
  <2>1. CASE Ends(t)
    BY <2>1 DEF Ends
  <2>2. CASE Goes(t, "decrypt")
    <3>1. PICK r : r = [page[t] EXCEPT !.at = "decrypt", !.mine = NoKey]
      OBVIOUS
    <3>2. page' = [page EXCEPT ![t] = r]
      BY <2>2, <3>1 DEF Goes
    <3> QED BY <3>1, <3>2
  <2> QED BY <2>1, <2>2 DEF RegisterKey
<1>4. r \in TabPage /\ r.open \subseteq page[t].open /\ r.mine = NoKey /\ r.at \in {"idle", "decrypt"}
  <2>1. CASE r = Idle
    BY <2>1 DEF Idle, TabPage, PageSteps, NoKey
  <2>2. CASE r = [page[t] EXCEPT !.at = "decrypt", !.mine = NoKey]
    BY <1>2, <2>2 DEF TabPage, PageSteps, NoKey
  <2> QED BY <1>3, <2>1, <2>2
<1>5. \A p \in r.open : OnceOpen(p)
  BY <1>2, <1>4
<1>6. r.mine <= created /\ r.at \notin {"recover", "rerecover"}
  BY <1>2, <1>4 DEF NoKey
<1>7. CASE registered' = registered
  BY <1>1, <1>3, <1>4, <1>5, <1>6, <1>7, PagesMove
<1>8. CASE registered' # registered
  <2>1. registered = NoKey /\ registered' = page[t].mine
    BY <1>8 DEF RegisterKey
  <2>2. \A p \in Opened : openings[p] = "none"
    BY <2>1 DEF KeysInv, KeysAreMade
  <2>3. \A u \in Tabs : page'[u] = IF u = t THEN r ELSE page[u]
    BY <1>3 DEF KeysInv, KeysTyped
  <2>4. KeysTyped'
    <3>1. registered' \in 0 .. created
      BY <1>2, <2>1 DEF TabPage
    <3>2. page' \in [Tabs -> TabPage]
      BY <1>3, <1>4 DEF KeysInv, KeysTyped
    <3> QED BY <1>1, <3>1, <3>2 DEF KeysInv, KeysTyped
  <2>5. KeysAreMade'
    BY <1>1, <1>6, <2>2, <2>3 DEF KeysInv, KeysAreMade
  <2>6. TriedWereOpen'
    BY <1>1, <1>5, <2>3 DEF KeysInv, TriedWereOpen, OnceOpen
  <2>7. TriedAreRead'
    BY <1>1, <2>2 DEF TriedAreRead, OpenNow
  <2> QED BY <2>4, <2>5, <2>6, <2>7 DEF KeysInv
<1> QED BY <1>7, <1>8

\* A key is registered together with every opening that is open and kept: each that
\* was tried can be read with it.
LEMMA KeysAreReplaced ==
    ASSUME KeysInv, NEW t \in Tabs, Recover(t) \/ Rerecover(t)
    PROVE  KeysInv'
<1>1. /\ page[t].at \in {"recover", "rerecover"}
      /\ ReplaceKey(page[t].mine)
      /\ UNCHANGED <<openings, matchedFor, kept, copies, stored, created, attempted, cutShort>>
  BY DEF Recover, Rerecover, At, browserVars
<1>2. /\ page[t] \in TabPage /\ page[t].mine \in 0 .. created /\ created \in Nat
      /\ page[t].mine # NoKey /\ \A p \in page[t].open : OnceOpen(p)
  BY <1>1 DEF KeysInv, KeysTyped, KeysAreMade, TriedWereOpen, TabPage
<1>3. PICK step \in {"refetch", "reread"} : Goes(t, step)
  BY DEF Recover, Rerecover
<1>4. PICK r : r = [page[t] EXCEPT !.at = step, !.mine = NoKey]
  OBVIOUS
<1>5. r \in TabPage /\ r.open = page[t].open /\ r.mine = 0 /\ r.at \in {"refetch", "reread"}
  BY <1>2, <1>4 DEF TabPage, PageSteps, NoKey
<1>6. page' = [page EXCEPT ![t] = r]
  BY <1>3, <1>4 DEF Goes
<1>7. \A u \in Tabs : page'[u] = IF u = t THEN r ELSE page[u]
  BY <1>6 DEF KeysInv, KeysTyped
<1>8. registered' = page[t].mine /\ events' = events \cup {<<p, page[t].mine>> : p \in OpenNow \cap kept}
  BY <1>1 DEF ReplaceKey, Recovered
<1>9. KeysTyped'
  <2>1. events' \subseteq Opened \X Nat
    BY <1>2, <1>8 DEF KeysInv, KeysTyped, OpenNow
  <2>2. page' \in [Tabs -> TabPage]
    BY <1>5, <1>6 DEF KeysInv, KeysTyped
  <2> QED BY <1>1, <1>2, <1>8, <2>1, <2>2 DEF KeysInv, KeysTyped
<1>10. KeysAreMade'
  <2>1. \A u \in Tabs : page'[u].mine <= created'
    BY <1>1, <1>2, <1>5, <1>7 DEF KeysInv, KeysAreMade
  <2> QED BY <1>1, <1>2, <1>5, <1>7, <1>8, <2>1 DEF KeysInv, KeysAreMade
<1>11. TriedWereOpen'
  BY <1>1, <1>5, <1>7 DEF KeysInv, TriedWereOpen, OnceOpen
<1>12. TriedAreRead'
  BY <1>1, <1>8 DEF TriedAreRead, Reads, OpenNow
<1> QED BY <1>9, <1>10, <1>11, <1>12 DEF KeysInv

\* An attempt is marked as the page goes to make a key.
LEMMA OpeningsAreDecrypted ==
    ASSUME KeysInv, NEW t \in Tabs, Decrypt(t)
    PROVE  KeysInv'
<1>1. PICK tries \in BOOLEAN :
        /\ attempted' = IF tries THEN [attempted EXCEPT ![t] = @ \cup {page[t].open}]
                                 ELSE attempted
        /\ page' = [page EXCEPT ![t].at = IF tries THEN "recreate" ELSE "restore",
                                ![t].got = Opens(t), ![t].events = {}]
  BY DEF Decrypt
<1>2. /\ page[t].at = "decrypt"
      /\ UNCHANGED <<registered, events, openings, matchedFor, kept, stored, created, cutShort>>
  BY DEF Decrypt, At, accountVars
<1>3. /\ page \in [Tabs -> TabPage] /\ page[t] \in TabPage /\ page[t].mine <= created
      /\ attempted \in [Tabs -> SUBSET (SUBSET Opened)]
      /\ \A p \in page[t].open : OnceOpen(p)
  BY DEF KeysInv, KeysTyped, KeysAreMade, TriedWereOpen
<1>4. PICK r : r = [page[t] EXCEPT !.at = IF tries THEN "recreate" ELSE "restore",
                                   !.got = Opens(t), !.events = {}]
  OBVIOUS
<1>5. page' = [page EXCEPT ![t] = r]
  BY <1>1, <1>4
<1>6. /\ r \in TabPage /\ r.open = page[t].open /\ r.mine = page[t].mine
      /\ r.at = IF tries THEN "recreate" ELSE "restore"
  <2>1. Opens(t) \in SUBSET Opened
    BY DEF Opens
  <2> QED BY <1>3, <1>4, <2>1 DEF TabPage, PageSteps
<1>7. \A u \in Tabs : page'[u] = IF u = t THEN r ELSE page[u]
  BY <1>3, <1>5
<1>8. \A u \in Tabs : attempted'[u] = IF u = t /\ tries THEN attempted[t] \cup {page[t].open}
                                                       ELSE attempted[u]
  BY <1>1, <1>3
<1>9. KeysTyped'
  <2>1. page[t].open \in SUBSET Opened
    BY <1>3 DEF TabPage
  <2>2. attempted' \in [Tabs -> SUBSET (SUBSET Opened)]
    BY <1>1, <1>3, <2>1
  <2>3. page' \in [Tabs -> TabPage]
    BY <1>3, <1>5, <1>6
  <2> QED BY <1>2, <2>2, <2>3 DEF KeysInv, KeysTyped
<1>10. KeysAreMade'
  BY <1>2, <1>6, <1>7 DEF KeysInv, KeysAreMade
<1>11. TriedWereOpen'
  BY <1>2, <1>3, <1>6, <1>7, <1>8 DEF KeysInv, TriedWereOpen, OnceOpen
<1>12. TriedAreRead'
  <2> SUFFICES ASSUME NEW u \in Tabs \ cutShort, NEW S \in attempted'[u], NEW p \in S,
                      p \in OpenNow \cap kept
               PROVE  Reads(u, p) \/ page'[u].at = "recreate"
    BY <1>2 DEF TriedAreRead, OpenNow, Reads
  <2>1. CASE u = t /\ tries
    BY <1>6, <1>7, <2>1
  <2>2. CASE ~(u = t /\ tries)
    <3>1. Reads(u, p) \/ page[u].at = "recreate"
      BY <1>8, <2>2 DEF KeysInv, TriedAreRead
    <3> QED BY <1>2, <1>7, <3>1
  <2> QED BY <2>1, <2>2
<1> QED BY <1>9, <1>10, <1>11, <1>12 DEF KeysInv

LEMMA KeysAreRecreated ==
    ASSUME KeysInv, NEW t \in Tabs, Recreate(t)
    PROVE  KeysInv'
<1>1. /\ NewKey(t) /\ UNCHANGED <<accountVars, attempted, cutShort>>
      /\ page' = [page EXCEPT ![t].at = "rerecover", ![t].mine = created']
  BY DEF Recreate
<1>2. created' = created + 1 /\ created \in Nat /\ page[t] \in TabPage
  BY <1>1 DEF NewKey, KeysInv, KeysTyped
<1>3. PICK r : r = [page[t] EXCEPT !.at = "rerecover", !.mine = created + 1]
  OBVIOUS
<1>4. r \in TabPage /\ r.open = page[t].open /\ r.mine = created + 1
  <2>1. "rerecover" \in PageSteps /\ created + 1 \in Nat /\ page[t] \in TabPage
    BY <1>2 DEF PageSteps
  <2> QED BY <1>3, <2>1 DEF TabPage
<1>5. page' = [page EXCEPT ![t] = r]
  BY <1>1, <1>2, <1>3
<1> QED BY <1>1, <1>4, <1>5, KeysAreNew

LEMMA BackupsAreRead ==
    ASSUME KeysInv, NEW t \in Tabs, Restore(t)
    PROVE  KeysInv'
<1>1. /\ page[t].at = "restore" /\ page' = [page EXCEPT ![t] = Idle]
      /\ UNCHANGED <<registered, events, openings, matchedFor, kept, stored, created, attempted>>
      /\ cutShort' = cutShort
  BY DEF Restore, Ends, At, browserVars
<1>2. Idle \in TabPage /\ Idle.at = "idle" /\ Idle.open = {} /\ Idle.mine = 0 /\ created \in Nat
  BY DEF Idle, TabPage, PageSteps, NoKey, KeysInv, KeysTyped
<1>3. Idle.mine <= created /\ Idle.at \notin {"recover", "rerecover"}
  BY <1>2
<1>4. \A p \in Idle.open : OnceOpen(p)
  BY <1>2
<1> QED BY <1>1, <1>2, <1>3, <1>4, PagesMove

\* What a browser tried is forgotten with its key.
LEMMA BrowsersAreCleared ==
    ASSUME KeysInv, NEW b \in BrowserSet, Clear(b)
    PROVE  KeysInv'
<1>1. /\ stored' = [stored EXCEPT ![b] = NoKey]
      /\ attempted' = [t \in Tabs |-> IF BrowserOf[t] = b THEN {} ELSE attempted[t]]
      /\ cutShort' = {t \in cutShort : BrowserOf[t] # b}
      /\ page' = [t \in Tabs |-> IF BrowserOf[t] = b THEN Idle ELSE page[t]]
      /\ UNCHANGED <<registered, events, openings, matchedFor, kept, created>>
  BY DEF Clear, accountVars
<1>2. Idle \in TabPage /\ Idle.at = "idle" /\ Idle.open = {} /\ Idle.mine = 0
  BY DEF Idle, TabPage, PageSteps, NoKey
<1>3. KeysTyped'
  <2>1. stored' \in [BrowserSet -> 0 .. created]
    BY <1>1 DEF KeysInv, KeysTyped, NoKey
  <2>2. attempted' \in [Tabs -> SUBSET (SUBSET Opened)]
    BY <1>1 DEF KeysInv, KeysTyped
  <2>3. page' \in [Tabs -> TabPage]
    BY <1>1, <1>2 DEF KeysInv, KeysTyped
  <2> QED BY <1>1, <2>1, <2>2, <2>3 DEF KeysInv, KeysTyped
<1>4. KeysAreMade'
  BY <1>1, <1>2 DEF KeysInv, KeysTyped, KeysAreMade
<1>5. TriedWereOpen'
  BY <1>1, <1>2 DEF KeysInv, TriedWereOpen, OnceOpen
<1>6. TriedAreRead'
  <2> SUFFICES ASSUME NEW u \in Tabs \ cutShort', NEW S \in attempted'[u], NEW p \in S,
                      p \in OpenNow \cap kept
               PROVE  Reads(u, p)' \/ page'[u].at = "recreate"
    BY <1>1 DEF TriedAreRead, OpenNow
  <2>1. BrowserOf[u] # b
    BY <1>1
  <2>2. Reads(u, p) \/ page[u].at = "recreate"
    BY <1>1, <2>1 DEF KeysInv, TriedAreRead
  <2>3. stored'[BrowserOf[u]] = stored[BrowserOf[u]]
    BY <1>1, <2>1 DEF KeysInv, KeysTyped, BrowserSet
  <2> QED BY <1>1, <2>1, <2>2, <2>3 DEF Reads
<1> QED BY <1>3, <1>4, <1>5, <1>6 DEF KeysInv

\* What is matched was never open: nobody tried it.
LEMMA PositionsAreMatched ==
    ASSUME KeysInv, NEW p \in Opened, MatchPosition(p) \/ Commit(p)
    PROVE  KeysInv'
<1>1. /\ UNCHANGED <<registered, created, stored, attempted, cutShort, page>>
      /\ registered # NoKey /\ events \subseteq events' /\ kept' \subseteq kept \cup {p}
      /\ ~OnceOpen(p) /\ \A q \in Opened \ {p} : openings'[q] = openings[q]
  BY DEF MatchPosition, Commit, browserVars, KeysInv, KeysTyped, KeysAreMade, OnceOpen
<1>2. KeysTyped'
  <2>1. openings' \in [Opened -> {"none", "matched", "open", "closed"}]
    BY DEF MatchPosition, Commit, KeysInv, KeysTyped
  <2>2. matchedFor' \in [Opened -> Nat]
    BY DEF MatchPosition, Commit, KeysInv, KeysTyped, NoKey
  <2>3. events' \subseteq Opened \X Nat
    BY DEF MatchPosition, Commit, KeysInv, KeysTyped
  <2> QED BY <1>1, <2>1, <2>2, <2>3 DEF KeysInv, KeysTyped
<1>3. KeysAreMade'
  BY <1>1 DEF KeysInv, KeysAreMade
<1>4. \A q \in Opened : OnceOpen(q) => q # p /\ OnceOpen(q)'
  BY <1>1 DEF OnceOpen
<1>5. \A t \in Tabs : page[t].open \subseteq Opened /\ \A S \in attempted[t] : S \subseteq Opened
  BY DEF KeysInv, KeysTyped, TabPage
<1>6. TriedWereOpen'
  BY <1>1, <1>4, <1>5 DEF KeysInv, TriedWereOpen
<1>7. TriedAreRead'
  <2> SUFFICES ASSUME NEW t \in Tabs \ cutShort, NEW S \in attempted[t], NEW q \in S,
                      q \in OpenNow' \cap kept'
               PROVE  Reads(t, q)' \/ page[t].at = "recreate"
    BY <1>1 DEF TriedAreRead
  <2>1. OnceOpen(q) /\ q \in Opened /\ q # p
    BY <1>1, <1>4, <1>5 DEF KeysInv, TriedWereOpen
  <2>2. q \in OpenNow \cap kept
    BY <1>1, <2>1 DEF OpenNow
  <2>3. Reads(t, q) \/ page[t].at = "recreate"
    BY <2>2 DEF KeysInv, TriedAreRead
  <2> QED BY <1>1, <2>3 DEF Reads
<1> QED BY <1>2, <1>3, <1>6, <1>7 DEF KeysInv

LEMMA PositionsAreClosed ==
    ASSUME KeysInv, NEW p \in Opened, ClosePosition(p)
    PROVE  KeysInv'
<1>1. /\ UNCHANGED <<registered, matchedFor, created, stored, attempted, cutShort, page>>
      /\ openings[p] = "open" /\ openings' = [openings EXCEPT ![p] = "closed"]
      /\ events' = {e \in events : e[1] # p}
      /\ kept' = kept \ {p}
  BY DEF ClosePosition, browserVars
<1>2. KeysTyped'
  BY <1>1 DEF KeysInv, KeysTyped
<1>3. KeysAreMade'
  BY <1>1 DEF KeysInv, KeysAreMade
<1>4. TriedWereOpen'
  BY <1>1 DEF KeysInv, KeysTyped, TriedWereOpen, OnceOpen
<1>5. TriedAreRead'
  <2> SUFFICES ASSUME NEW t \in Tabs \ cutShort, NEW S \in attempted[t], NEW q \in S,
                      q \in OpenNow' \cap kept'
               PROVE  Reads(t, q)' \/ page[t].at = "recreate"
    BY <1>1 DEF TriedAreRead
  <2>1. q # p /\ q \in OpenNow \cap kept
    BY <1>1 DEF OpenNow
  <2>2. Reads(t, q) \/ page[t].at = "recreate"
    BY <2>1 DEF KeysInv, TriedAreRead
  <2> QED BY <1>1, <2>1, <2>2 DEF Reads
<1> QED BY <1>2, <1>3, <1>4, <1>5 DEF KeysInv

LEMMA KeysInvNext == KeysInv /\ [KeysNext]_keyVars => KeysInv'
<1> SUFFICES ASSUME KeysInv, [KeysNext]_keyVars PROVE KeysInv'
  OBVIOUS
<1>1. CASE UNCHANGED keyVars
  BY <1>1 DEF keyVars, accountVars, browserVars, KeysInv, KeysTyped, KeysAreMade, TriedWereOpen,
              TriedAreRead, OnceOpen, Reads, OpenNow
<1>2. ASSUME NEW t \in Tabs,
             \/ ConnectAccount(t) \/ Load(t) \/ EnsureKey(t) \/ Refetch(t) \/ Reread(t)
             \/ Redecrypt(t) \/ RecoveryFails(t) \/ LoadFails(t) \/ Reload(t)
      PROVE  KeysInv'
  BY <1>2, LoadsGoOn
<1>3. ASSUME NEW t \in Tabs,
             \/ Compare(t) \/ CreateKey(t) \/ RegisterKey(t) \/ Recover(t) \/ Rerecover(t)
             \/ Decrypt(t) \/ Recreate(t) \/ Restore(t)
      PROVE  KeysInv'
  BY <1>3, KeysAreCompared, KeysAreCreated, KeysAreRegistered, KeysAreReplaced, OpeningsAreDecrypted,
     KeysAreRecreated, BackupsAreRead
<1>4. ASSUME NEW b \in BrowserSet, Clear(b) PROVE KeysInv'
  BY <1>4, BrowsersAreCleared
<1>5. ASSUME NEW p \in Opened, MatchPosition(p) \/ Commit(p) \/ ClosePosition(p) PROVE KeysInv'
  BY <1>5, PositionsAreMatched, PositionsAreClosed
<1> QED BY <1>1, <1>2, <1>3, <1>4, <1>5 DEF KeysNext

\* OpeningsInReach: for any tabs, browsers and positions, and keys made and
\* registered in whatever order, the next load of a page at rest reads every open
\* position that the server can reconstruct, but for a page that was reloaded
\* between the mark of its attempt and the new key.
THEOREM OpeningsStayInReach == KeysSpec => []OpeningsInReach
<1>1. KeysInv => OpeningsInReach
  <2> SUFFICES ASSUME KeysInv, NEW t \in Tabs \ cutShort, page[t].at = "idle",
                      NEW p \in OpenNow \cap kept, stored[BrowserOf[t]] = registered,
                      OpenNow \in attempted[t]
               PROVE  p \in EventsFor(stored[BrowserOf[t]])
    BY DEF OpeningsInReach, At, TriedFor
  <2>1. Reads(t, p)
    BY DEF KeysInv, TriedAreRead
  <2> QED BY <2>1 DEF Reads, EventsFor, OpenNow
<1> QED BY <1>1, KeysInvInit, KeysInvNext, PTL DEF KeysSpec
=============================================================================
