----------------------------- MODULE MarkStream -----------------------------
(***************************************************************************)
(* The marks of the market contract, as browsers see them.  The keeper      *)
(* (scripts/oracle-keeper.ts) writes the oracle's price every four minutes; *)
(* OnchainMarkStream (server/src/features/markets/onchain-mark-stream.ts)   *)
(* reads the marks of the watched markets every two seconds and tells the   *)
(* browsers the mark, or once that there is none.  Polls may overlap: a     *)
(* browser that joins starts one beside the one under way.                  *)
(*                                                                          *)
(* A mark is the time it carries; 0 is none.                                *)
(***************************************************************************)
EXTENDS Integers, FiniteSets

CONSTANTS
  MarkMarkets, MarkBrowsers, NoMark,
  MarkPolls,   \* bound: polls under way at the same time
  MaxAge,      \* oraclePriceMaxAgeSeconds
  MaxClock     \* bound: the clock

VARIABLES
  clock,
  chainMark,   \* the mark the market contract answers with
  lastPrice,   \* the keeper has fetched a price before
  looks,       \* the market of each browser's stream, or NoMark
  event,       \* what each browser was told last: Untold, NoneLeft, or a mark
  mark,        \* latest
  unavailable, \* markets whose browsers were told that there is no mark
  pollTimer,
  polls        \* the polls under way: market -> Asked, the mark read (0: it failed) or Done

keeperVars == <<clock, chainMark, lastPrice>>
markVars == <<keeperVars, looks, event, mark, unavailable, pollTimer, polls>>

-----------------------------------------------------------------------------
Untold == -1
NoneLeft == -2
Asked == -1
Done == -2

Looking == {b \in MarkBrowsers : looks[b] # NoMark}
Looked == {looks[b] : b \in Looking}
LookersAt(m) == {b \in MarkBrowsers : looks[b] = m}

Tell(browsers, what) == [b \in MarkBrowsers |-> IF b \in browsers THEN what ELSE event[b]]

\* onchain-mark-stream.ts:104-109  assertFresh
Fresh(at) == at > 0 /\ at <= clock /\ clock - at <= MaxAge

ClockTicks ==
  /\ clock < MaxClock /\ clock' = clock + 1
  /\ UNCHANGED <<chainMark, lastPrice, looks, event, mark, unavailable, pollTimer, polls>>

\* oracle-keeper.ts:141-173  tick: the price of Pyth with its own time (which
\* the keeper does not compare with its clock), or, while Pyth does not
\* answer, the last known price with the time of now.
KeeperTicks(m) ==
  /\ \/ /\ lastPrice' = TRUE
        /\ \E at \in {clock - 1, clock, clock + 1} \ {0} : chainMark' = [chainMark EXCEPT ![m] = at]
     \/ lastPrice /\ chainMark' = [chainMark EXCEPT ![m] = clock] /\ UNCHANGED lastPrice
  /\ chainMark' # chainMark
  /\ UNCHANGED <<clock, looks, event, mark, unavailable, pollTimer, polls>>

-----------------------------------------------------------------------------
\* Variant for the mutation check: a browser that joins is told of a mark only.
Look_MarkOnly(b, m) ==
  /\ looks[b] = NoMark
  /\ looks' = [looks EXCEPT ![b] = m]
  /\ event' = [event EXCEPT ![b] =
       IF m \notin unavailable /\ Fresh(mark[m]) THEN mark[m] ELSE Untold]
  /\ pollTimer' = TRUE
  /\ UNCHANGED <<keeperVars, mark, unavailable, polls>>

\* onchain-mark-stream.ts:38-66, 79-86  A browser joins: it is told the cached
\* mark if that is fresh, or that there is none, and a poll is scheduled.
Look(b, m) ==
  /\ looks[b] = NoMark
  /\ looks' = [looks EXCEPT ![b] = m]
  /\ event' = [event EXCEPT ![b] =
       IF m \in unavailable THEN NoneLeft
       ELSE IF Fresh(mark[m]) THEN mark[m] ELSE Untold]
  /\ pollTimer' = TRUE
  /\ UNCHANGED <<keeperVars, mark, unavailable, polls>>

\* onchain-mark-stream.ts:151-160  removeClient: the last one stops the timer.
LookAway(b) ==
  /\ looks[b] # NoMark
  /\ looks' = [looks EXCEPT ![b] = NoMark]
  /\ event' = [event EXCEPT ![b] = Untold]
  /\ pollTimer' = (pollTimer /\ Looking # {b})
  /\ UNCHANGED <<keeperVars, mark, unavailable, polls>>

\* onchain-mark-stream.ts:79-91  The timer fires: a poll of the watched
\* markets starts.
PollFires ==
  /\ pollTimer /\ pollTimer' = FALSE
  /\ \E p \in MarkPolls :
       /\ DOMAIN polls[p] = {}
       /\ polls' = [polls EXCEPT ![p] = [m \in Looked |-> Asked]]
  /\ UNCHANGED <<keeperVars, looks, event, mark, unavailable>>

\* The contract answers one of the poll's reads, or the read fails.
MarkRead(p, m) ==
  /\ m \in DOMAIN polls[p] /\ polls[p][m] = Asked
  /\ \E read \in {chainMark[m], 0} : polls' = [polls EXCEPT ![p][m] = read]
  /\ UNCHANGED <<keeperVars, looks, event, mark, unavailable, pollTimer>>

\* onchain-mark-stream.ts:88-123  The answer is taken: a fresh mark
\* is told to the market's browsers, anything else makes it unavailable, which
\* they are told once.
MarkTaken(p, m) ==
  /\ m \in DOMAIN polls[p] /\ polls[p][m] >= 0
  /\ polls' = [polls EXCEPT ![p][m] = Done]
  /\ IF Fresh(polls[p][m])
     THEN /\ mark' = [mark EXCEPT ![m] = polls[p][m]]
          /\ unavailable' = unavailable \ {m}
          /\ event' = Tell(LookersAt(m), polls[p][m])
     ELSE /\ unavailable' = unavailable \cup {m}
          /\ event' = IF m \in unavailable THEN event ELSE Tell(LookersAt(m), NoneLeft)
          /\ UNCHANGED mark
  /\ UNCHANGED <<keeperVars, looks, pollTimer>>

\* onchain-mark-stream.ts:79-82, 101  All answers are in: the next poll is
\* scheduled while anybody looks.
PollEnds(p) ==
  /\ DOMAIN polls[p] # {} /\ \A m \in DOMAIN polls[p] : polls[p][m] = Done
  /\ polls' = [polls EXCEPT ![p] = <<>>]
  /\ pollTimer' = (pollTimer \/ Looking # {})
  /\ UNCHANGED <<keeperVars, looks, event, mark, unavailable>>

-----------------------------------------------------------------------------
MarksInit ==
  /\ clock = 1 /\ chainMark = [m \in MarkMarkets |-> 0] /\ lastPrice = FALSE
  /\ looks = [b \in MarkBrowsers |-> NoMark] /\ event = [b \in MarkBrowsers |-> Untold]
  /\ mark = [m \in MarkMarkets |-> 0] /\ unavailable = {}
  /\ pollTimer = FALSE /\ polls = [p \in MarkPolls |-> <<>>]

MarksNext ==
  \/ ClockTicks \/ PollFires
  \/ \E m \in MarkMarkets : KeeperTicks(m) \/ \E b \in MarkBrowsers : Look(b, m)
  \/ \E b \in MarkBrowsers : LookAway(b)
  \/ \E p \in MarkPolls :
       PollEnds(p) \/ \E m \in MarkMarkets : MarkRead(p, m) \/ MarkTaken(p, m)

MarksSpec == MarksInit /\ [][MarksNext]_markVars

-----------------------------------------------------------------------------
\* What a browser was told last is what the server holds: two polls that
\* overlap, a browser that joins between their answers and a mark that ages
\* leave nobody with another mark, or without word that there is none; and
\* while anybody looks a poll is under way or scheduled
\* (onchain-mark-stream.ts:38-160).
MarksAgree ==
  /\ \A b \in Looking :
       /\ (event[b] = NoneLeft) <=> (looks[b] \in unavailable)
       /\ event[b] \in {Untold, NoneLeft} \/ event[b] = mark[looks[b]]
  /\ Looking # {} => pollTimer \/ \E p \in MarkPolls : DOMAIN polls[p] # {}
=============================================================================
