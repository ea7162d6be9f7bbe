----------------------------- MODULE MCPipeline -----------------------------
(***************************************************************************)
(* A market with four client orders, of which one replaces another and two *)
(* leave residuals; and two markets at once, without faults.               *)
(***************************************************************************)
EXTENDS BatchPipeline

CONSTANTS btc, eth, o1, o2, o3, o4

Order(side, limit, size, margin, note) ==
  [side |-> side, limit |-> limit, size |-> size, margin |-> margin, note |-> <<note>>]

MCTerms == (o1 :> Order("long", 6, 2, 10, "n1")) @@ (o2 :> Order("short", 4, 1, 6, "n2"))
             @@ (o3 :> Order("short", 5, 1, 6, "n3"))
MCMarket == [o \in {o1, o2, o3} |-> btc]
MCReplaces == (o3 :> o2)

TwoTerms == (o1 :> Order("long", 6, 1, 6, "n1")) @@ (o2 :> Order("short", 4, 1, 6, "n2"))
             @@ (o3 :> Order("long", 6, 1, 6, "n3")) @@ (o4 :> Order("short", 5, 1, 6, "n4"))
TwoMarkets == (o1 :> btc) @@ (o2 :> btc) @@ (o3 :> eth) @@ (o4 :> eth)
NoReplaces == <<>>

-----------------------------------------------------------------------------
\* The local tree is the beginning of the tree on the chain.
TreeIsPrefix ==
  \A st \in {store, saved} : Len(st.positions) <= Len(tree) /\ SubSeq(tree, 1, Len(st.positions)) = st.positions

\* Settled on the chain, neither committed nor about to be.
Stranded(s) == s.batch \notin store.settled /\ \A m \in Markets : run[m].settlement # s

\* As long as no answer is lost and nothing crashes, a batch that settles on
\* the chain is committed, whatever clients submit, cancel and replace meanwhile.
SettledIsCommitted == mishaps = 0 => \A s \in landed : ~Stranded(s)

\* Open here, but no longer active on the chain.
Ghost(c) == c \in Known(store) /\ store.orders[c].status = "open" /\ ~IsActiveIntent(c)

\* A long bids what a short asks.  (The margins of these orders outlast fees.)
IsCrossed(m) ==
  \E c, d \in OpenOrders(store, m) :
    /\ store.orders[c].terms.side = "long" /\ store.orders[d].terms.side = "short"
    /\ store.orders[c].terms.limit >= store.orders[d].terms.limit

\* A crossed market does not rest: it trades, or its orders change, unless a
\* lost answer or a crash left a batch or an order between chain and store.
CrossedMarketsTrade ==
  \A m \in Markets :
    IsCrossed(m) ~> (~IsCrossed(m) \/ (\E s \in landed : Stranded(s)) \/ (\E c \in Known(store) : Ghost(c)))

\* When every batch has been committed, the local root is the root on the
\* chain, as the executor asserts before each run.
RootsAgree ==
  ~IsRunning /\ store.settled = {s.batch : s \in landed} => store.positions = tree
=============================================================================
